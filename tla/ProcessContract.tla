--------------------------- MODULE ProcessContract ---------------------------
(***************************************************************************)
(* What the process engine promises of one execution of a definition: the  *)
(* steps get done in the order of their dependencies and stay done, the    *)
(* execution ends once, as completed only with every step done, and an     *)
(* execution that has started does end.                                    *)
(***************************************************************************)
EXTENDS FiniteSets

CONSTANTS Steps, Deps

VARIABLES
  outcome, (* "absent", "active", or how the execution ended. *)
  done     (* The steps completed or skipped so far.          *)

vars == <<outcome, done>>

Init == outcome = "absent" /\ done = {}

Begin == outcome = "absent" /\ outcome' = "active" /\ UNCHANGED done

(* Steps that ran beside a failing one may still come in after the end.    *)
Finish(s) ==
  /\ outcome \in {"active", "failed"}
  /\ s \notin done /\ Deps[s] \subseteq done
  /\ done' = done \union {s}
  /\ UNCHANGED outcome

Complete == outcome = "active" /\ done = Steps /\ outcome' = "completed" /\ UNCHANGED done

Fail == outcome = "active" /\ outcome' = "failed" /\ UNCHANGED done

Next == Begin \/ (\E s \in Steps : Finish(s)) \/ Complete \/ Fail

Ends == Complete \/ Fail

Safety == Init /\ [][Next]_vars

Spec == Safety /\ WF_vars(Ends)

=============================================================================
