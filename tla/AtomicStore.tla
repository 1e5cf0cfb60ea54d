---------------------------- MODULE AtomicStore ----------------------------
(***************************************************************************)
(* What an Intent directory promises to the callers of IntentStore         *)
(* (packages/core/src/work-state.ts): one record store whose operations    *)
(* happen one at a time, each taking effect on all the records it names or *)
(* on none of them.  A successful reply says the operation took effect; a  *)
(* failed reply, or a caller that died, says nothing.                      *)
(***************************************************************************)
EXTENDS Naturals

CONSTANTS
    Files,      \* the record files of the directory
    Writes,     \* the sets of files one operation may replace together
    NoRequest   \* no operation is running

VARIABLES
    store,      \* the contents (a version number) of every record
    request,    \* the records the running operation replaces, or NoRequest
    applied,    \* has the running operation taken effect?
    reply       \* what the last operation to end told its caller

vars == <<store, request, applied, reply>>

Replies == {"none", "ok", "failed", "crashed"}

(* The store after the request has taken effect. *)
Effect(s, r) == [f \in Files |-> IF f \in DOMAIN r THEN r[f] ELSE s[f]]

Init ==
    /\ store = [f \in Files |-> 0]
    /\ request = NoRequest
    /\ applied = FALSE
    /\ reply = "none"

Begin ==
    /\ request = NoRequest
    /\ \E S \in Writes : request' \in [S -> Nat]
    /\ applied' = FALSE
    /\ reply' = "none"
    /\ UNCHANGED store

Apply ==
    /\ request # NoRequest
    /\ ~applied
    /\ store' = Effect(store, request)
    /\ applied' = TRUE
    /\ UNCHANGED <<request, reply>>

(* The caller is told of success only once the operation has taken effect. *)
Succeed ==
    /\ request # NoRequest
    /\ applied
    /\ request' = NoRequest
    /\ applied' = FALSE
    /\ reply' = "ok"
    /\ UNCHANGED store

(* An I/O error or the death of the process, before or after the effect. *)
GiveUp(why) ==
    /\ request # NoRequest
    /\ request' = NoRequest
    /\ applied' = FALSE
    /\ reply' = why
    /\ UNCHANGED store

Next ==
    \/ Begin
    \/ Apply
    \/ Succeed
    \/ GiveUp("failed")
    \/ GiveUp("crashed")

Spec == Init /\ [][Next]_vars
============================================================================
