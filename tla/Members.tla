------------------------------ MODULE Members ------------------------------
(***************************************************************************)
(* The member directory of one tenant (src/apps/zhixing-api/members.ts).   *)
(*                                                                         *)
(* saveMember takes the lock of the tenant, reads the directory, decides   *)
(* and writes one row.  Everything it decides on was read before its       *)
(* commit, so two saves that ran side by side could each leave the other   *)
(* as the last manager.  The audit has one row for each version of a member *)
(* and is left out.                                                        *)
(***************************************************************************)
EXTENDS Integers

CONSTANTS
  People,           \* actors
  Saves,            \* requests of saveMember
  None,
  MaxMemberVersion  \* bound: how often a row is written

ASSUME MembersAssumption == None \notin People /\ MaxMemberVersion \in Nat

VARIABLES
  member,  \* tenant_members
  save     \* the row that each request under way is about to write

memberVars == <<member, save>>

NoMember == [role |-> "none", enabled |-> FALSE, version |-> 0]
MemberRow ==
  {NoMember} \cup [role: {"manager", "member"}, enabled: BOOLEAN, version: 1..MaxMemberVersion]
SaveRow == [target: People \cup {None}, row: MemberRow]
IdleSave == [target |-> None, row |-> NoMember]

MembersTypeOK ==
  /\ member \in [People -> MemberRow]
  /\ save \in [Saves -> SaveRow]

MembersInit ==
  /\ member = [p \in People |-> NoMember]
  /\ save = [s \in Saves |-> IdleSave]

Manages(row) == row.role = "manager" /\ row.enabled
Nobody == \A p \in People : member[p] = NoMember

LockFree_Always == TRUE

(* pg_advisory_xact_lock('members:'+tenant), held until the end of the transaction *)
LockFree == \A s \in Saves : save[s].target = None

(* The first member is bootstrapped, by a script, as its own manager; any other is
   saved by a manager. *)
Entitled(actor, target, row) ==
  \/ Nobody /\ actor = target /\ Manages(row)
  \/ Manages(member[actor])

(* LAST_MANAGER_REQUIRED, of the directory as it would be. *)
KeepsManager(target, row) == Manages(row) \/ \E p \in People \ {target} : Manages(member[p])

(* The lock is taken, the directory read and the request admitted; a request that is
   refused ends without a trace.  The version it expects is the current one. *)
BeginSave(s, actor, target, role, enabled) ==
  LET row == [role |-> role, enabled |-> enabled, version |-> member[target].version + 1]
  IN  /\ save[s] = IdleSave
      /\ LockFree
      /\ row.version <= MaxMemberVersion
      /\ Entitled(actor, target, row)
      /\ KeepsManager(target, row)
      /\ save' = [save EXCEPT ![s] = [target |-> target, row |-> row]]
      /\ UNCHANGED member

CommitSave(s) ==
  LET target == save[s].target
  IN  /\ target # None
      /\ member' = [member EXCEPT ![target] = save[s].row]
      /\ save' = [save EXCEPT ![s] = IdleSave]

RollBackSave(s) ==
  /\ save[s].target # None
  /\ save' = [save EXCEPT ![s] = IdleSave]
  /\ UNCHANGED member

MembersNext ==
  \E s \in Saves :
    \/ \E actor, target \in People, role \in {"manager", "member"}, enabled \in BOOLEAN :
         BeginSave(s, actor, target, role, enabled)
    \/ CommitSave(s)
    \/ RollBackSave(s)

MembersSpec == MembersInit /\ [][MembersNext]_memberVars

-----------------------------------------------------------------------------
(* Properties.                                                              *)

(* Once a tenant has members it has a manager, whatever managers do to each other and
   to themselves at the same time (members.ts:21, members.test.ts:8). *)
ManagerRemains == Nobody \/ \E p \in People : Manages(member[p])
=============================================================================
