------------------------------ MODULE Schedule ------------------------------
(***************************************************************************)
(* The forecast of an order (src/apps/soundlab-api/schedule.ts) and the    *)
(* check of a project's dependencies that makes its recursion end          *)
(* (src/packages/sampling-contracts/project-validation.ts).                *)
(*                                                                         *)
(* A day is a number; its weekday is the number modulo seven.  The texts   *)
(* that explain a forecast are left out: a node whose finish is None is    *)
(* one that "missing" explains, and so is an accepted node without a date. *)
(***************************************************************************)
EXTENDS Integers, FiniteSets, FiniteSetsExt

CONSTANTS
  Nodes,  \* node ids of an order
  None    \* no date, no calendar, no dependencies

(* A project has between one and fifty nodes. *)
ASSUME NodesAssumption == IsFiniteSet(Nodes) /\ Nodes # {} /\ None \notin Int

(* What evaluateSchedule and validateProject throw. *)
Invalid == -1

-----------------------------------------------------------------------------
(* validateProject.                                                         *)

(* visit: the nodes that may be visited while others are, for no path of dependencies
   comes back to one of those.  The set "done" only spares visits that were made before. *)
Visit(deps, n) ==
  LET visit[visiting \in SUBSET Nodes] ==
        {m \in Nodes \ visiting : \A d \in deps[m] : d \in visit[visiting \cup {m}]}
  IN  n \in visit[{}]

Valid(project) ==
  /\ project.calendar.weekdays # {}
  /\ IsFiniteSet(project.calendar.holidays) /\ Cardinality(project.calendar.holidays) <= 366
  /\ \A n \in Nodes :
       /\ project.node[n].dependencies \subseteq Nodes \ {n}
       /\ project.node[n].duration \in 1..365
  /\ \A n \in Nodes : Visit([m \in Nodes |-> project.node[m].dependencies], n)

-----------------------------------------------------------------------------
(* The working calendar.                                                    *)

Working(calendar, day) == day % 7 \in calendar.weekdays /\ day \notin calendar.holidays

(* workday: the first working day from this one on.  A project has at most 366 holidays,
   so the search of 3660 days finds one as long as the calendar goes on. *)
Workday(calendar, day) ==
  CHOOSE d \in day..(day + 3659) :
    Working(calendar, d) /\ \A e \in day..(d - 1) : ~Working(calendar, e)

(* Working days from "start" on, which is the first one. *)
WorkEnd(calendar, start, days) ==
  LET end[i \in 1..days] == IF i = 1 THEN start ELSE Workday(calendar, end[i - 1] + 1)
  IN  end[days]

-----------------------------------------------------------------------------
(* evaluateSchedule.                                                        *)

(* Math.max(1, Math.ceil(durationDays * (100 - percent) / 100)) *)
Remaining(row) == Max({1, (row.duration * (100 - row.percent) + 99) \div 100})

Configured(order, n) ==
  /\ order.calendar # None
  /\ order.node[n].dependencies # None
  /\ order.node[n].duration # None

Given(dates) == dates \ {None}

Boundaries_Unchained(row, asOf, ends) == {asOf} \cup Given({row.planned, row.eta})

(* The days before which the rest of the work cannot start: the day of the evaluation,
   the day after each open dependency, the planned start and the material. *)
Boundaries(row, asOf, ends) == {asOf} \cup {e + 1 : e \in ends} \cup Given({row.planned, row.eta})

(* The remaining work is done on working days; an expectation of the owner may only
   make the end later. *)
Estimate(order, n, asOf, ends) ==
  LET row == order.node[n]
      start == Workday(order.calendar, Max(Boundaries(row, asOf, ends)))
      end == WorkEnd(order.calendar, start, Remaining(row))
  IN  IF row.expected = None THEN end
                             ELSE Workday(order.calendar, Max({end, row.expected}))

Waits(row) ==
  \/ row.status = "reported_complete"
  \/ row.status = "blocked" /\ row.expected = None

(* finish of one node: the day of the acceptance, or an estimate, or None when it cannot be
   known; "end" is what finish returns for its dependencies. *)
NodeEnd(order, asOf, n, visiting, end) ==
  LET row == order.node[n]
      open == {d \in row.dependencies : order.node[d].status # "accepted"}
  IN  IF n \in visiting THEN Invalid
      ELSE IF row.status = "accepted"
        THEN IF row.acceptance = None THEN None ELSE row.acceptance.at
      ELSE IF ~Configured(order, n) THEN None
      ELSE IF \E d \in row.dependencies : end[d] = Invalid THEN Invalid
      ELSE IF (\E d \in open : end[d] = None) \/ Waits(row) THEN None
      ELSE Estimate(order, n, asOf, {end[d] : d \in open})

Finish(order, asOf) ==
  LET finish[visiting \in SUBSET Nodes] ==
        [n \in Nodes |-> NodeEnd(order, asOf, n, visiting, finish[visiting \cup {n}])]
  IN  finish[{}]

Unfinished(order) == {n \in Nodes : order.node[n].status # "accepted"}
Unknown(ends) == {n \in Nodes : ends[n] = None}
Dates(ends) == Given({ends[n] : n \in Nodes})

Known_Some(order, ends) == Dates(ends) # {}

(* forecastKnown: accepted nodes may lack a date as long as one is not accepted. *)
Known(order, ends) ==
  IF Unfinished(order) # {} THEN Unfinished(order) \cap Unknown(ends) = {}
                            ELSE Unknown(ends) = {}

Forecast(order, ends) == IF Known(order, ends) THEN Max(Dates(ends)) ELSE None

Risk(order, ends) ==
  IF \E date \in Dates(ends) : date > order.due THEN "risk"
  ELSE IF Unknown(ends) # {} THEN "attention" ELSE "normal"
=============================================================================
