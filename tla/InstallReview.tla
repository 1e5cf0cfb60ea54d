---------------------------- MODULE InstallReview ----------------------------
(***************************************************************************)
(* What an install asks before its transaction, and what it does to the    *)
(* user's config.toml meanwhile: the wizard, the conflict screens, the     *)
(* final review with its way back, and the preflight, which must let Codex *)
(* read a config.toml without the user's invalid tables or marketplace and *)
(* puts the user's text back before it asks on (commands.ts,               *)
(* installer-wizard.ts, installer.ts).  The transaction itself is module   *)
(* Install; here it is the removal of the invalid tables, one publication  *)
(* and the rollback of both.  Reading or comparing config.toml and the     *)
(* write it guards are one step.  A write that fails may stand all the     *)
(* same: the text is renamed into place before the directory is synced     *)
(* (storage.ts, writeAtomicText).                                          *)
(***************************************************************************)
EXTENDS Naturals

CONSTANTS
    Absent,                                 \* no value in config.toml
    Invalid, Markets, Providers, Keys,      \* the entries of config.toml, by what may ask
    Limits                                  \* bounds: edits, faults, restarts

Items == Invalid \cup Markets \cup Providers \cup Keys

(* The entries are apart, and no value is none.                            *)
ReviewAssumption ==
    /\ Invalid \cap (Markets \cup Providers \cup Keys) = {}
    /\ Markets \cap (Providers \cup Keys) = {} /\ Providers \cap Keys = {}
    /\ Absent \notin {"good", "theirs", "other"}

VARIABLES
    broken,         \* config.toml is no TOML at all
    config,         \* config.toml: [Items -> values]
    found,          \* config.toml as all but the installer have left it
    pc, mem,        \* the install and its memory
    screen,         \* the conflict screen: what it shows, and the decisions on it
    selected,       \* the decisions of every screen so far, kept over restarts
    left

vars == <<broken, config, found, pc, mem, screen, selected, left>>

(* What HolyCodex wants of an entry is Good; an invalid one has a value    *)
(* where a table is needed, and is Absent when it is a table or missing.   *)
Good == "good"
Theirs == {"theirs", "other"}
Values == {Absent, Good} \cup Theirs

Choices(i) ==
    CASE i \in Invalid -> {"remove"}
      [] i \in Markets \cup Providers -> {"replace"}
      [] i \in Keys -> {"keep", "replace"}
Default(i) == IF i \in Invalid THEN "remove" ELSE "replace"

None == "none"
NoScreen == [shown |-> {}, choice |-> [i \in Items |-> None], next |-> None]
Fresh(mode, request) ==
    [mode |-> mode, request |-> request, base |-> [i \in Items |-> Absent],
     temp |-> {}, repaired |-> FALSE, before |-> None,
     decisions |-> [i \in Items |-> None], plan |-> [i \in Items |-> Absent],
     at |-> [i \in Items |-> Absent], told |-> FALSE, torn |-> FALSE, outcome |-> None]

Spend(what) == left[what] > 0 /\ left' = [left EXCEPT ![what] = @ - 1]
EndWith(outcome, m) == pc' = "end" /\ mem' = [m EXCEPT !.outcome = outcome] /\ screen' = NoScreen
Refused(m) == EndWith("failed", m)
Unwritten == UNCHANGED <<broken, config, found>>
Alone == Unwritten /\ UNCHANGED <<selected, left>>

-----------------------------------------------------------------------------
(* The command.  Without a terminal and without --yes it is refused.       *)
Start ==
    /\ pc = "start" /\ Alone
    /\ \/ pc' = "wizard" /\ mem' = Fresh("interactive", {}) /\ UNCHANGED screen
       \/ \E request \in SUBSET Providers :
            pc' = "read" /\ mem' = Fresh("yes", request) /\ UNCHANGED screen
       \/ Refused(mem)

(* The wizard ends with a selection, and the install starts from nothing,  *)
(* or is left by Escape, Ctrl-C or its Cancel.                             *)
Wizard ==
    /\ pc = "wizard" /\ Alone
    /\ \/ \E request \in SUBSET Providers :
            pc' = "read" /\ mem' = Fresh(mem.mode, request) /\ UNCHANGED screen
       \/ EndWith("cancelled", mem)

-----------------------------------------------------------------------------
(* The conflict screens.  --yes decides at once as the screen would by     *)
(* default.  A decision of an earlier screen is what a new one starts from.*)
Preset(i) == IF mem.mode # "yes" /\ selected[i] \in Choices(i) THEN selected[i] ELSE Default(i)

Ask(shown, next, m) ==
    /\ screen' = [shown |-> shown, next |-> next,
                  choice |-> [i \in Items |-> IF i \in shown THEN Preset(i) ELSE None]]
    /\ pc' = "screen" /\ mem' = [m EXCEPT !.before = pc]

Decided(choice) ==
    /\ selected' = [i \in Items |-> IF i \in screen.shown THEN choice[i] ELSE selected[i]]
    /\ mem' = [mem EXCEPT !.decisions =
                    [i \in Items |-> IF i \in screen.shown THEN choice[i] ELSE @[i]]]
    /\ pc' = screen.next /\ screen' = NoScreen

Cycle(i) ==
    /\ pc = "screen" /\ mem.mode = "interactive" /\ i \in screen.shown
    /\ \E choice \in Choices(i) \ {screen.choice[i]} : screen' = [screen EXCEPT !.choice[i] = choice]
    /\ Alone /\ UNCHANGED <<pc, mem>>

SetAll(decision) ==
    /\ pc = "screen" /\ mem.mode = "interactive"
    /\ screen' = [screen EXCEPT !.choice = [i \in Items |->
            IF i \in screen.shown /\ decision \in Choices(i) THEN decision
            ELSE IF i \in screen.shown \cap Invalid /\ decision = "replace" THEN "remove"
            ELSE @[i]]]
    /\ Alone /\ UNCHANGED <<pc, mem>>

YesDecides ==
    /\ pc = "screen" /\ mem.mode = "yes" /\ Decided(screen.choice)
    /\ Unwritten /\ UNCHANGED left

Confirm ==
    /\ pc = "screen" /\ mem.mode = "interactive" /\ Decided(screen.choice)
    /\ Unwritten /\ UNCHANGED left

(* Escape keeps everything, or cancels where something cannot be kept.     *)
Escape ==
    /\ pc = "screen" /\ mem.mode = "interactive" /\ Unwritten /\ UNCHANGED left
    /\ IF \A i \in screen.shown : "keep" \in Choices(i)
       THEN Decided([i \in Items |-> "keep"])
       ELSE Refused(mem) /\ UNCHANGED selected

Interrupt ==
    /\ pc = "screen" /\ mem.mode = "interactive"
    /\ Refused(mem) /\ Alone

-----------------------------------------------------------------------------
(* The preflight.                                                          *)
Conflict(i, doc) == doc[i] \in Theirs /\ (i \in Providers => i \in mem.request)

(* The invalid tables that were reviewed; others are left alone.           *)
Taken(base) == {i \in Invalid : base[i] \in Theirs}
Stripped(doc, base) == [i \in Items |-> IF i \in Taken(base) THEN Absent ELSE doc[i]]

(* Config.toml that cannot be parsed is shown, and nothing can be decided. *)
Read ==
    /\ pc = "read" /\ Alone
    /\ LET m == [mem EXCEPT !.base = config] IN
       IF broken THEN Refused(m)
       ELSE IF Taken(config) # {} THEN Ask(Taken(config), "temp", m)
       ELSE pc' = "list" /\ mem' = m /\ UNCHANGED screen

(* A failed write of the temporary text may stand.                         *)
WriteTemporary(text, next) ==
    \/ config' = text /\ mem' = [mem EXCEPT !.temp = {text}] /\ pc' = next /\ UNCHANGED <<screen, left>>
    \/ Spend("faults") /\ Refused(mem) /\ UNCHANGED config
    \/ Spend("faults") /\ Refused([mem EXCEPT !.torn = TRUE]) /\ config' = text

StripTemporarily ==
    /\ pc = "temp" /\ UNCHANGED <<broken, found, selected>>
    /\ \/ config = mem.base /\ WriteTemporary(Stripped(mem.base, mem.base), "list")
       \/ config # mem.base /\ Refused(mem) /\ UNCHANGED <<config, left>>

KeptTemporary(next) == next /\ UNCHANGED <<config, left>>  \* mutant of Restores

(* The user's text comes back, unless somebody has written meanwhile or    *)
(* the write fails; the install tells of both.                             *)
Restores(next) ==
    \/ /\ mem.temp = {} /\ next /\ UNCHANGED <<config, left>>
    \/ /\ config \in mem.temp
       /\ \/ config' = mem.base /\ next /\ UNCHANGED left
          \/ Spend("faults") /\ Refused([mem EXCEPT !.told = TRUE]) /\ config' \in {config, mem.base}
    \/ /\ mem.temp # {} /\ config \notin mem.temp
       /\ Refused([mem EXCEPT !.told = TRUE]) /\ UNCHANGED <<config, left>>

On(next) == pc' = next /\ mem' = [mem EXCEPT !.temp = {}] /\ UNCHANGED screen

(* Codex lists its plugins, or not, or finds its HolyCodex marketplace     *)
(* incomplete.                                                             *)
List ==
    /\ pc = "list" /\ UNCHANGED <<broken, found, selected>>
    /\ \/ pc' = "back" /\ UNCHANGED <<config, mem, screen, left>>
       \/ Restores(Refused(mem))
       \/ ~mem.repaired /\ Restores(On("incomplete"))

GiveBack ==
    /\ pc = "back" /\ UNCHANGED <<broken, found, selected>>
    /\ Restores(On("conflicts"))

(* The repair of the marketplace needs a source to review, and review it.  *)
Incomplete ==
    /\ pc = "incomplete" /\ Alone
    /\ LET sources == {i \in Markets : mem.base[i] \in Theirs} IN
       IF config # mem.base \/ \E i \in Markets : mem.base[i] = Absent THEN Refused(mem)
       ELSE IF sources # {} THEN Ask(sources, "source", mem)
       ELSE pc' = "repair" /\ UNCHANGED <<mem, screen>>

ReplaceTemporarily ==
    /\ pc = "source" /\ UNCHANGED <<broken, found, selected>>
    /\ LET text == [i \in Items |-> IF i \in Markets THEN Good ELSE Stripped(mem.base, mem.base)[i]] IN
       \/ config = mem.base /\ WriteTemporary(text, "repair")
       \/ config # mem.base /\ Refused(mem) /\ UNCHANGED <<config, left>>

(* Codex rebuilds the marketplace and lists again.                         *)
Repair ==
    /\ pc = "repair" /\ UNCHANGED <<broken, found, selected>>
    /\ \/ pc' = "back" /\ mem' = [mem EXCEPT !.repaired = TRUE] /\ UNCHANGED <<config, screen, left>>
       \/ Restores(Refused(mem))

-----------------------------------------------------------------------------
(* The review.  Everything but what was asked already is asked now, of the *)
(* text that was read first.                                               *)
Reviewable == {i \in Items : Conflict(i, mem.base)}

PlanOf(decisions) ==
    [i \in Items |->
        IF decisions[i] = "keep" \/ (i \in Providers /\ i \notin mem.request)
        THEN mem.base[i] ELSE Good]

ReviewConflicts ==
    /\ pc = "conflicts" /\ Alone
    /\ LET rest == {i \in Reviewable : mem.decisions[i] = None} IN
       IF rest = {} THEN pc' = "decide" /\ UNCHANGED <<mem, screen>>
       ELSE Ask(rest, "decide", mem)

(* applyResolvedConflictDecisions.                                         *)
SamePlan(decisions) ==  \* mutant of PlanFor: a reopened review decides nothing
    IF mem.before = "review" THEN mem.plan ELSE PlanOf(decisions)
PlanFor(decisions) == PlanOf(decisions)

Decide ==
    /\ pc = "decide" /\ Alone
    /\ mem' = [mem EXCEPT !.plan = PlanFor(mem.decisions)]
    /\ pc' = "review" /\ UNCHANGED screen

(* The final review: apply, change the options (which starts the install   *)
(* anew, its earlier decisions remembered), resolve the conflicts again, or *)
(* cancel.  --yes applies.                                                 *)
Reviewing == pc = "review" /\ Unwritten /\ UNCHANGED selected

Apply == Reviewing /\ pc' = "begin" /\ UNCHANGED <<mem, screen, left>>

CancelReview ==
    /\ Reviewing /\ mem.mode = "interactive"
    /\ EndWith("cancelled", mem) /\ UNCHANGED left

ResolveAgain ==
    /\ Reviewing /\ mem.mode = "interactive" /\ Reviewable # {}
    /\ Ask(Reviewable, "decide", mem) /\ UNCHANGED left

ChangeOptions ==
    /\ Reviewing /\ mem.mode = "interactive" /\ Spend("restarts")
    /\ pc' = "wizard" /\ UNCHANGED <<mem, screen>>

-----------------------------------------------------------------------------
(* The transaction: the invalid tables are looked at again and removed,    *)
(* then the decided values are published over a config.toml that must not  *)
(* have changed, except in what is kept.                                   *)
Undo == pc' = "undo" /\ UNCHANGED screen

Begin ==
    /\ pc = "begin" /\ Unwritten /\ UNCHANGED selected
    /\ LET reviewed == Taken(mem.base) IN
       \/ reviewed = {} /\ pc' = "publish" /\ UNCHANGED <<mem, screen, left>>
       \/ /\ reviewed # {} /\ \A i \in reviewed : config[i] \in {Absent, mem.base[i]}
          /\ pc' = "strip" /\ mem' = [mem EXCEPT !.at = config] /\ UNCHANGED <<screen, left>>
       \/ (\E i \in reviewed : config[i] \notin {Absent, mem.base[i]}) /\ Refused(mem) /\ UNCHANGED left
       \/ Spend("faults") /\ Refused(mem)

(* The removal counts as made once its write has succeeded: where that     *)
(* fails and stands, the rollback gives nothing back, and nobody is told.  *)
Strip ==
    /\ pc = "strip" /\ UNCHANGED <<broken, found, selected>>
    /\ \/ config = mem.at /\ config' = Stripped(config, mem.base) /\ pc' = "publish" /\ UNCHANGED <<mem, screen, left>>
       \/ config # mem.at /\ Refused(mem) /\ UNCHANGED <<config, left>>
       \/ Spend("faults") /\ Refused(mem) /\ UNCHANGED config
       \/ /\ config = mem.at /\ Spend("faults")
          /\ config' = Stripped(config, mem.base) /\ Refused([mem EXCEPT !.torn = TRUE])

Untouched(i) == i \in Invalid \/ (i \in Providers /\ i \notin mem.request)
Stable(i) ==
    CASE i \in Invalid -> config[i] \notin Theirs \/ (i \in Taken(mem.base) /\ config[i] = mem.base[i])
      [] i \in Keys -> mem.decisions[i] = "keep" \/ config[i] = mem.base[i]
      [] i \in Markets \cup Providers -> Untouched(i) \/ config[i] = mem.base[i]

Published ==
    [i \in Items |-> IF Untouched(i) THEN Stripped(config, mem.base)[i] ELSE mem.plan[i]]

Publish ==
    /\ pc = "publish" /\ UNCHANGED <<broken, found, selected>>
    /\ \/ (\A i \in Items : Stable(i)) /\ config' = Published /\ pc' = "published"
          /\ UNCHANGED <<mem, screen, left>>
       \/ (\E i \in Items : ~Stable(i)) /\ Undo /\ UNCHANGED <<config, mem, left>>
       \/ Spend("faults") /\ Undo /\ UNCHANGED <<config, mem>>
       \/ /\ (\A i \in Items : Stable(i)) /\ Spend("faults")
          /\ config' = Published /\ pc' = "undo_values" /\ UNCHANGED <<mem, screen>>

Finish ==
    /\ pc = "published" /\ UNCHANGED <<broken, found, config, selected>>
    /\ \/ EndWith("installed", mem) /\ UNCHANGED left
       \/ Spend("faults") /\ pc' = "undo_values" /\ UNCHANGED <<mem, screen>>

(* rollbackConfigTransaction, then restoreReviewedInvalidConfig.           *)
TakenBack ==
    [i \in Items |-> IF config[i] = mem.plan[i] /\ ~Untouched(i) THEN mem.base[i] ELSE config[i]]
UndoValues ==
    /\ pc = "undo_values" /\ UNCHANGED <<broken, found, selected>> /\ Undo
    /\ \/ config' = TakenBack /\ UNCHANGED <<mem, left>>
       \/ Spend("faults") /\ mem' = [mem EXCEPT !.told = TRUE] /\ config' \in {config, TakenBack}

UndoStrip ==
    /\ pc = "undo" /\ UNCHANGED <<broken, found, selected>>
    /\ LET taken == Taken(mem.base)
           given == [i \in Items |-> IF i \in taken THEN mem.base[i] ELSE config[i]]
           free == \A i \in taken : config[i] \in {Absent, mem.base[i]} IN
       \/ free /\ config' = given /\ Refused(mem) /\ UNCHANGED left
       \/ ~free /\ Refused([mem EXCEPT !.told = TRUE]) /\ UNCHANGED <<config, left>>
       \/ /\ Spend("faults") /\ Refused([mem EXCEPT !.told = TRUE])
          /\ config' = config \/ (free /\ config' = given)

-----------------------------------------------------------------------------
(* The user, or Codex, edits config.toml.                                  *)
Edit(i) ==
    /\ pc # "end" /\ Spend("edits")
    /\ \E v \in {Absent, "other"} \ {config[i]} :
        config' = [config EXCEPT ![i] = v] /\ found' = [found EXCEPT ![i] = v]
    /\ UNCHANGED <<broken, pc, mem, screen, selected>>

Init ==
    /\ broken \in BOOLEAN
    /\ config \in [Items -> {Absent, Good, "theirs"}] /\ \A i \in Invalid : config[i] # Good
    /\ found = config
    /\ pc = "start" /\ mem = Fresh(None, {}) /\ screen = NoScreen
    /\ selected = [i \in Items |-> None] /\ left = Limits

Installer ==
    \/ Start \/ Wizard \/ Read \/ StripTemporarily \/ List \/ GiveBack \/ Incomplete
    \/ ReplaceTemporarily \/ Repair \/ ReviewConflicts \/ Decide \/ Begin \/ Strip
    \/ Publish \/ Finish \/ UndoValues \/ UndoStrip
User ==
    \/ \E i \in Items : Cycle(i) \/ Edit(i)
    \/ \E decision \in {"replace", "keep"} : SetAll(decision)
    \/ YesDecides \/ Confirm \/ Escape \/ Interrupt
    \/ Apply \/ CancelReview \/ ResolveAgain \/ ChangeOptions
Next == Installer \/ User

Spec == Init /\ [][Next]_vars

-----------------------------------------------------------------------------
(* An install that was cancelled, refused or rolled back leaves config.toml *)
(* as everybody else left it, invalid tables and marketplace source        *)
(* included, except when it says that it could not put the text back.  Two *)
(* edits made since the review may be lost: of a value that was kept, and  *)
(* the removal of an invalid value.  And where the write of the temporary  *)
(* text, or of the text without the invalid tables, failed and stands      *)
(* (torn), what was to be hidden or removed stays away, and nobody is told: *)
(* the invalid tables, and the source of the marketplace, but nothing else. *)
PutBack(i) ==
    /\ config[i] = mem.base[i]
    /\ mem.decisions[i] = "keep" \/ (i \in Invalid /\ found[i] = Absent)
LeftTorn(i) ==
    /\ mem.torn
    /\ (i \in Taken(mem.base) /\ config[i] = Absent) \/ (i \in Markets /\ config[i] = Good)
EndsAsFound ==
    pc = "end" /\ mem.outcome # "installed" /\ ~mem.told
        => \A i \in Items : config[i] = found[i] \/ PutBack(i) \/ LeftTorn(i)

(* In an interactive install a value of the user is replaced or removed    *)
(* only when the last screen that showed it has shown this very value with *)
(* that decision; what comes in place of a kept value is the kept one.     *)
(* With --yes nothing is shown: a value is then replaced or removed by the *)
(* default of its conflict, and only if the install found this very value  *)
(* when it began (a guide says that --yes preserves foreign configuration, *)
(* docs/INSTALLATION.md:145; what is preserved are the later values).      *)
Decision(i) == mem.decisions[i]
Shown(i) == mem.mode = "interactive" /\ Decision(i) \in {"replace", "remove"}
ByDefault(i) == mem.mode = "yes" /\ Decision(i) = Default(i)
ReviewedItem(i) ==
    \/ config'[i] = config[i] \/ Edit(i) \/ config[i] \notin Theirs
    \/ config[i] = mem.base[i] /\ (Shown(i) \/ ByDefault(i))
    \/ config'[i] = mem.base[i] /\ mem.mode = "interactive" /\ Decision(i) = "keep"
Reviewed == \A i \in Items : ReviewedItem(i)
OnlyReviewedReplaced == [][Reviewed]_vars
=============================================================================
