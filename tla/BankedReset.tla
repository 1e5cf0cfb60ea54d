----------------------------- MODULE BankedReset ------------------------------
(***************************************************************************)
(* The banked reset of packages/agent: the thresholds (auto-reset.ts), the *)
(* commands "auto-reset read" and "auto-reset consume" (index.ts) and the  *)
(* account they read and reset through Codex (auto-reset-runtime.ts).      *)
(* Agents repeat a consume with the same key when its answer is lost; a    *)
(* request that was given up may still be carried out.                     *)
(*                                                                         *)
(* The account's side, its windows, credits and keys, is external.  A      *)
(* usage window is its length and what remains, in percent; it renews by   *)
(* itself in time.                                                         *)
(***************************************************************************)
EXTENDS Naturals, FiniteSets

CONSTANTS
    Agents, Credits,
    Plans,          \* the lengths of the windows an account may have, as sets
    Levels,         \* the percentages that may remain
    Absent,
    Limits          \* bounds: attempts, faults, uses and renewals of quota

ResetAssumption ==
    /\ Levels \subseteq Nat /\ Absent \notin Nat
    /\ Limits \in [{"attempts", "faults", "uses", "renewals"} -> Nat]

FiveHours == 300
Week == 10080

VARIABLES
    enabled,                    \* the capability, in the active record
    plan, remaining,            \* the account: its windows, what remains in each
    spent,                      \* [Credits -> the key that spent it, or Absent]
    agents,                     \* [Agents -> what the agent is doing]
    requests,                   \* consume requests on their way
    left                        \* what is left of Limits

vars == <<enabled, plan, remaining, spent, agents, requests, left>>
account == <<plan, remaining, spent>>

Spend(what) == left[what] > 0 /\ left' = [left EXCEPT ![what] = @ - 1]

-----------------------------------------------------------------------------
(* decideBankedReset, over [length of each present window -> what remains] *)
Below(windows, length, limit) == length \in DOMAIN windows /\ windows[length] < limit

WithFiveHours(windows, permission) ==
    LET ask == Below(windows, FiveHours, 20) \/ Below(windows, Week, 15) IN
    CASE Below(windows, FiveHours, 15) \/ Below(windows, Week, 7) -> "resetAuthorized"
      [] ~ask /\ Week \notin DOMAIN windows -> "insufficientEvidence"
      [] ~ask /\ Week \in DOMAIN windows -> "doNotReset"
      [] OTHER -> IF permission = "granted" THEN "resetAuthorized" ELSE "requestPermission"

WeeklyOnly(windows, permission) ==
    CASE Below(windows, Week, 5) -> "resetAuthorized"
      [] windows[Week] >= 10 -> "doNotReset"
      [] OTHER -> IF permission = "granted" THEN "resetAuthorized" ELSE "requestPermission"

Decide(windows, permission) ==
    CASE FiveHours \in DOMAIN windows -> WithFiveHours(windows, permission)
      [] DOMAIN windows = {Week} -> WeeklyOnly(windows, permission)
      [] OTHER -> "insufficientEvidence"

(* inspectAccountRateLimits: any credit that is still available, and the   *)
(* windows of the snapshot.                                                *)
Available == {c \in Credits : spent[c] = Absent}
Windows == [w \in plan |-> remaining[w]]

-----------------------------------------------------------------------------
(* "outdated" is history: a window has been renewed since the quota was    *)
(* read that a consume was decided by, or another request on which that is *)
(* so has been carried out since.                                          *)
Idle(key) ==
    [phase |-> "idle", permission |-> "notRequested", key |-> key, credit |-> Absent,
     outdated |-> FALSE]
Does(a, agent) == agents' = [agents EXCEPT ![a] = agent]
Passes(a, phase) == agents' = [agents EXCEPT ![a].phase = phase]

(* Root begins an attempt, with a key of its own.                          *)
Attempt(a) ==
    /\ agents[a].key = Absent /\ Spend("attempts")
    /\ Does(a, Idle(left.attempts)) /\ UNCHANGED <<enabled, account, requests>>

(* "auto-reset read": a report, by which Root asks the user, goes on, or   *)
(* does not.                                                               *)
Read(a) ==
    /\ enabled /\ agents[a].phase = "idle" /\ agents[a].key # Absent
    /\ UNCHANGED <<enabled, account, requests, left>>
    /\ CASE Decide(Windows, agents[a].permission) = "requestPermission" -> Passes(a, "ask")
         [] Decide(Windows, agents[a].permission) = "resetAuthorized" -> Passes(a, "consume")
         [] OTHER -> UNCHANGED agents

AskUser(a) ==
    /\ agents[a].phase = "ask" /\ UNCHANGED <<enabled, account, requests, left>>
    /\ \E answer \in {"granted", "refused"} :
            Does(a, [agents[a] EXCEPT !.permission = answer, !.phase = "consume"])

(* "auto-reset consume": it reads once more, decides by that, and sends    *)
(* the first available credit under the caller's key.                      *)
Consume(a) ==
    LET decision == Decide(Windows, agents[a].permission) IN
    /\ enabled /\ agents[a].phase = "consume" /\ UNCHANGED <<enabled, account, requests, left>>
    /\ \/ /\ decision = "resetAuthorized"
          /\ \E c \in Available :
                Does(a, [agents[a] EXCEPT !.phase = "send", !.credit = c, !.outdated = FALSE])
       \/ (decision # "resetAuthorized" \/ Available = {}) /\ Does(a, Idle(Absent))

KeyPerCommand(a) == 10 * agents[a].key + left.faults  \* mutant of KeyOf
KeyOf(a) == agents[a].key

Send(a) ==
    /\ agents[a].phase = "send" /\ UNCHANGED <<enabled, account, left>>
    /\ requests' = requests \cup {[from |-> a, key |-> KeyOf(a), credit |-> agents[a].credit,
                                   permission |-> agents[a].permission,
                                   outdated |-> agents[a].outdated]}
    /\ Passes(a, "waiting")

-----------------------------------------------------------------------------
(* The account: a request is carried out at some time, once or never.  A   *)
(* known key redeems nothing more, and full windows have nothing to reset. *)
Known(key) == \E c \in Credits : spent[c] = key
Full == \A w \in plan : remaining[w] = 100
Outcome(q) ==
    CASE Known(q.key) -> "alreadyRedeemed"
      [] ~Known(q.key) /\ Full -> "nothingToReset"
      [] ~Known(q.key) /\ ~Full /\ spent[q.credit] # Absent -> "noCredit"
      [] OTHER -> "reset"

Outdated(those) == {[q EXCEPT !.outdated = TRUE] : q \in those}
Reread(those, late) == IF late THEN Outdated(those) ELSE those
Told(q, late) ==
    [a \in Agents |->
        IF /\ a = q.from /\ agents[a].phase = "waiting"
           /\ q.key = KeyOf(a) /\ q.credit = agents[a].credit
        THEN Idle(Absent) ELSE [agents[a] EXCEPT !.outdated = @ \/ late]]

CarryOut(q) ==
    LET late == q.outdated /\ Outcome(q) = "reset" IN
    /\ requests' = Reread(requests \ {q}, late) /\ agents' = Told(q, late)
    /\ UNCHANGED <<enabled, plan, left>>
    /\ IF Outcome(q) = "reset"
       THEN spent' = [spent EXCEPT ![q.credit] = q.key] /\ remaining' = [w \in plan |-> 100]
       ELSE UNCHANGED <<spent, remaining>>

(* No answer in thirty seconds, or a closed connection: the request may    *)
(* still be on its way.  Root repeats the attempt with the same key.       *)
GiveUp(a) ==
    /\ agents[a].phase = "waiting" /\ Spend("faults") /\ Passes(a, "consume")
    /\ requests' \in {requests, {q \in requests : q.from # a}} /\ UNCHANGED <<enabled, account>>

(* Quota is used, by anyone; a window renews at its time; an install turns *)
(* the capability off.                                                     *)
Use(w, level) ==
    /\ Spend("uses") /\ level < remaining[w] /\ remaining' = [remaining EXCEPT ![w] = level]
    /\ UNCHANGED <<enabled, plan, spent, agents, requests>>
Renew(w) ==
    /\ Spend("renewals") /\ remaining[w] < 100 /\ remaining' = [remaining EXCEPT ![w] = 100]
    /\ agents' = [a \in Agents |-> [agents[a] EXCEPT !.outdated = TRUE]]
    /\ requests' = Outdated(requests) /\ UNCHANGED <<enabled, plan, spent>>
Disable ==
    enabled /\ enabled' = FALSE /\ UNCHANGED <<account, agents, requests, left>>

Init ==
    /\ enabled = TRUE /\ plan \in Plans /\ remaining = [w \in plan |-> 100]
    /\ spent = [c \in Credits |-> Absent] /\ agents = [a \in Agents |-> Idle(Absent)]
    /\ requests = {} /\ left = Limits

Next ==
    \/ \E a \in Agents : Attempt(a) \/ Read(a) \/ AskUser(a) \/ Consume(a) \/ Send(a) \/ GiveUp(a)
    \/ \E q \in requests : CarryOut(q)
    \/ \E w \in plan, level \in Levels : Use(w, level)
    \/ \E w \in plan : Renew(w)
    \/ Disable

Spec == Init /\ [][Next]_vars

-----------------------------------------------------------------------------
(* BEHAVIOR.md and the auto-reset skill: no permission is needed below the *)
(* lower thresholds, and with one a credit may go below the higher ones.   *)
(* They also say that nothing is reset on unknown or missing evidence; the *)
(* code does reset on the five-hour window alone, when the snapshot has no *)
(* weekly one (auto-reset.ts:83-95), which OnHoursAlone allows for.        *)
OnHoursAlone(permission) ==
    /\ FiveHours \in plan /\ Week \notin plan
    /\ \/ Below(Windows, FiveHours, 15)
       \/ permission = "granted" /\ Below(Windows, FiveHours, 20)
Warranted(permission) ==
    LET low(week, hours) == Below(Windows, Week, week) \/ Below(Windows, FiveHours, hours) IN
    \/ /\ plan = {Week}
       /\ low(5, 0) \/ (permission = "granted" /\ low(10, 0))
    \/ /\ {FiveHours, Week} \subseteq plan
       /\ low(7, 15) \/ (permission = "granted" /\ low(15, 20))
    \/ OnHoursAlone(permission)

(* Quota warrants the reset when the consume reads it, and still when the  *)
(* credit goes, however late that is and whatever was given up, repeated   *)
(* or lost: for one Root, no request resets a quota that was reset since.  *)
(* Only a window that renews by itself may lift the quota in between: the  *)
(* request is then carried out all the same, and what was decided by an    *)
(* earlier look than that is out of date too.                              *)
Spends ==
    /\ \A a \in Agents :
            agents[a].phase # "send" /\ agents'[a].phase = "send" =>
                Warranted(agents[a].permission)
    /\ spent' # spent =>
            \E q \in requests :
                /\ requests' = Reread(requests \ {q}, q.outdated)
                /\ spent' = [spent EXCEPT ![q.credit] = q.key]
                /\ Warranted(q.permission) \/ q.outdated
SpentOnlyWhenLow == [][Spends]_vars
=============================================================================
