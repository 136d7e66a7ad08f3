---------------------------- MODULE DomainLocks ----------------------------
(***************************************************************************)
(* The lock of one section ("domain") of the backup service: the mutex     *)
(* repoMu[domain], the label domainActivity[domain] that names its holder, *)
(* the count domainWanted[domain] of the actions waiting for it and the    *)
(* background follow-up registered in domainFollowUp[domain].  Everything  *)
(* that writes a repository passes through here, in one of five ways:      *)
(*                                                                         *)
(*   Runs       lockDomainFor      block until the section is free         *)
(*   Asks       tryLockDomainFor   refused unless a follow-up holds it     *)
(*   Removals   lockForRemoval     an ask, then a second, patient wait     *)
(*   FollowUps  tryLockFollowUp    give way to whoever wants the section   *)
(*   Windows    lockWithin         wait for a while, then give up          *)
(*                                                                         *)
(* The mutex and the three maps are accessed in separate critical          *)
(* sections, so each access is a step and anything may happen in between.  *)
(* All of it is in memory: a restart begins at Init.  An operation that is *)
(* done is "idle" again and may come back; a deadline may pass at any      *)
(* moment while its owner waits.                                           *)
(***************************************************************************)
EXTENDS Integers, FiniteSets

CONSTANTS Runs, Asks, Removals, FollowUps, Windows,
          Brief,        \* those whose label is a copy's or a check's
          NoOne         \* no holder, no label, no follow-up

Procs == Runs \cup Asks \cup Removals \cup FollowUps \cup Windows

\* The five kinds are five code paths: no operation is of two kinds.
ASSUME ProcsAssumption ==
    /\ NoOne \notin Procs
    /\ Runs \cap (Asks \cup Removals \cup FollowUps \cup Windows) = {}
    /\ Asks \cap (Removals \cup FollowUps \cup Windows) = {}
    /\ Removals \cap (FollowUps \cup Windows) = {}
    /\ FollowUps \cap Windows = {}

\* A follow-up is a probe and labelled "verify"; a deletion is no check.
ASSUME BriefAssumption ==
    FollowUps \subseteq Brief /\ Brief \cap (Removals \cup Windows) = {}

VARIABLES
    owner,      \* who holds repoMu[domain]; a window's goroutine in its name
    activity,   \* domainActivity[domain]: whose label it shows
    wanted,     \* domainWanted[domain]
    followUp,   \* domainFollowUp[domain]: whose stop function is registered
    told,       \* the follow-ups whose stop function has been called
    pc          \* where each operation is

vars == <<owner, activity, wanted, followUp, told, pc>>

\* From taking the mutex to giving up the label: the operation is inside.
Inside == {"uncount", "label", "labelPolled", "uncountPolled", "register",
           "work", "unregister", "clear"}

\* The mutex is held a little longer, and by a window not yet or no longer in.
Holds == Inside \cup {"got", "unlock"}

\* The steps at which wantDomain's count includes the operation.
Waiting == {"stop", "block", "uncount", "poll", "refuse", "patient", "look",
            "refuseForGood", "labelPolled", "uncountPolled"}

Steps == Holds \cup Waiting
         \cup {"idle", "want", "wantAgain", "take", "queue", "gaveUp"}

TypeOK ==
    /\ owner \in Procs \cup {NoOne}
    /\ activity \in Procs \cup {NoOne}
    /\ wanted \in Int
    /\ followUp \in FollowUps \cup {NoOne}
    /\ told \in SUBSET FollowUps
    /\ pc \in [Procs -> Steps]

Init ==
    /\ owner = NoOne
    /\ activity = NoOne
    /\ wanted = 0
    /\ followUp = NoOne
    /\ told = {}
    /\ pc = [p \in Procs |-> "idle"]

----------------------------------------------------------------------------
(* What the operations share *)

Go(p, from, to) == pc[p] = from /\ pc' = [pc EXCEPT ![p] = to]

\* mu.Lock, or a mu.TryLock that succeeds.
TakesMutex(p) == owner = NoOne /\ owner' = p

\* mu.TryLock by p at the given step: in hand, or held by somebody else.
TryLock(p, at, taken, held) ==
    /\ \/ TakesMutex(p) /\ Go(p, at, taken)
       \/ owner # NoOne /\ Go(p, at, held) /\ UNCHANGED owner
    /\ UNCHANGED <<activity, wanted, followUp, told>>

\* wantDomain counts p among those waiting ...
Counts(p, from, to) ==
    /\ Go(p, from, to)
    /\ wanted' = wanted + 1
    /\ UNCHANGED <<owner, activity, followUp, told>>

StaysCounted(p, from, to) ==    \* mutant: a return without its deferred done
    /\ Go(p, from, to)
    /\ UNCHANGED <<owner, activity, wanted, followUp, told>>

\* ... and the function it returned takes p off the count again.
Uncounts(p, from, to) ==
    /\ Go(p, from, to)
    /\ wanted' = wanted - 1
    /\ UNCHANGED <<owner, activity, followUp, told>>

\* stopFollowUp: calls the registered stop function, if there is one.  The
\* function is looked up under activityMu and called after it; it only ever
\* cancels the attempt it was registered for, so calling it late changes
\* nothing and the two are one step.

StopsFollowUp == told' = told \cup ({followUp} \ {NoOne})

\* The label is set by whoever just took the mutex.
Label(p, from, to) ==
    /\ Go(p, from, to)
    /\ activity' = p
    /\ UNCHANGED <<owner, wanted, followUp, told>>

----------------------------------------------------------------------------
(* lockDomainFor: blocks until the section is free *)

RunTries(r) == TryLock(r, "idle", "label", "want")

RunWants(r) == Counts(r, "want", "stop")

RunStopsFollowUp(r) ==
    /\ Go(r, "stop", "block")
    /\ StopsFollowUp
    /\ UNCHANGED <<owner, activity, wanted, followUp>>

RunLocks(r) ==
    /\ Go(r, "block", "uncount")
    /\ TakesMutex(r)
    /\ UNCHANGED <<activity, wanted, followUp, told>>

RunUncounts(r) == Uncounts(r, "uncount", "label")

----------------------------------------------------------------------------
(* tryLockDomainFor: refused at once unless there is a follow-up to stop,    *)
(* then polls until its deadline                                             *)

Askers == Asks \cup Removals

AskTries(a) == TryLock(a, "idle", "label", "want")

AskWants(a) == Counts(a, "want", "stop")

AskStopsFollowUp(a) ==
    /\ Go(a, "stop", IF followUp = NoOne THEN "refuse" ELSE "poll")
    /\ StopsFollowUp
    /\ UNCHANGED <<owner, activity, wanted, followUp>>

AskPolls(a) ==
    /\ Go(a, "poll", "labelPolled")
    /\ TakesMutex(a)
    /\ UNCHANGED <<activity, wanted, followUp, told>>

PollsOn(a) ==                   \* mutant: the deadline is never looked at
    /\ Go(a, "poll", "poll")
    /\ UNCHANGED <<owner, activity, wanted, followUp, told>>

AskTimesOut(a) ==
    /\ Go(a, "poll", "refuse")
    /\ UNCHANGED <<owner, activity, wanted, followUp, told>>

\* The deferred done of wantDomain runs on every way out.  A refused removal
\* goes on to its second wait, a refused ask returns.
AskLeaves(a) ==
    \/ Uncounts(a, "uncountPolled", "work")
    \/ Uncounts(a, "refuse", IF a \in Removals THEN "wantAgain" ELSE "idle")

----------------------------------------------------------------------------
(* lockForRemoval, once its ask was refused: polls while a copy or a check   *)
(* holds the section                                                         *)

RemovalWants(d) == Counts(d, "wantAgain", "patient")

RemovalPolls(d) == TryLock(d, "patient", "labelPolled", "look")

\* domainBusy, read after the mutex was found held: anything but a copy or a
\* check refuses, and so does the deadline.  No label is no reason to refuse.
RemovalLooks(d) ==
    /\ \/ Go(d, "look", "refuseForGood")
       \/ activity \in Brief \cup {NoOne} /\ Go(d, "look", "patient")
    /\ UNCHANGED <<owner, activity, wanted, followUp, told>>

RemovalRefused(d) == Uncounts(d, "refuseForGood", "idle")

----------------------------------------------------------------------------
(* tryLockFollowUp: gives way                                               *)

ChecksNothing(f) ==             \* mutant: a follow-up queues like a run
    /\ Go(f, "idle", "take")
    /\ told' = told \ {f}
    /\ UNCHANGED <<owner, activity, wanted, followUp>>

\* domainIsWanted, the check before the attempt.
FollowUpChecks(f) ==
    /\ wanted = 0
    /\ Go(f, "idle", "take")
    /\ told' = told \ {f}
    /\ UNCHANGED <<owner, activity, wanted, followUp>>

FollowUpTries(f) == TryLock(f, "take", "label", "idle")

FollowUpRegisters(f) ==
    /\ Go(f, "register", "work")
    /\ followUp' = f
    /\ UNCHANGED <<owner, activity, wanted, told>>

FollowUpUnregisters(f) ==
    /\ Go(f, "unregister", "clear")
    /\ followUp' = NoOne
    /\ UNCHANGED <<owner, activity, wanted, told>>

----------------------------------------------------------------------------
(* lockWithin: a goroutine waits for the mutex on the window's behalf        *)

WindowQueues(w) ==
    /\ Go(w, "idle", "queue")
    /\ UNCHANGED <<owner, activity, wanted, followUp, told>>

\* The goroutine has the mutex.  The window may not have noticed yet.
WindowLocks(w) ==
    /\ Go(w, "queue", "got")
    /\ TakesMutex(w)
    /\ UNCHANGED <<activity, wanted, followUp, told>>

\* The select takes the mutex ...
WindowEnters(w) == Label(w, "got", "work")

UnlocksAtTimeout(w) ==          \* mutant: lets go without waiting for it
    /\ \/ Go(w, "queue", "idle")
       \/ Go(w, "got", "idle")
    /\ owner' = NoOne
    /\ UNCHANGED <<activity, wanted, followUp, told>>

\* ... or the timer, even with the mutex in hand when both are ready.  What
\* is left waits for the mutex only to let it go.
WindowTimesOut(w) ==
    /\ Go(w, "queue", "gaveUp") \/ Go(w, "got", "unlock")
    /\ UNCHANGED <<owner, activity, wanted, followUp, told>>

GhostLocks(w) ==
    /\ Go(w, "gaveUp", "unlock")
    /\ TakesMutex(w)
    /\ UNCHANGED <<activity, wanted, followUp, told>>

----------------------------------------------------------------------------
(* The hold itself and its release                                          *)

Labels(p) ==
    \/ Label(p, "label", IF p \in FollowUps THEN "register" ELSE "work")
    \/ Label(p, "labelPolled", "uncountPolled")

\* The operation returns.  A follow-up unregisters before it lets go.
Finishes(p) ==
    /\ Go(p, "work", IF p \in FollowUps THEN "unregister" ELSE "clear")
    /\ UNCHANGED <<owner, activity, wanted, followUp, told>>

LeavesLabel(p) ==               \* mutant: the label outlives the hold
    /\ Go(p, "clear", "unlock")
    /\ UNCHANGED <<owner, activity, wanted, followUp, told>>

ClearsLabel(p) ==
    /\ Go(p, "clear", "unlock")
    /\ activity' = NoOne
    /\ UNCHANGED <<owner, wanted, followUp, told>>

KeepsMutex(p) ==                \* mutant: a return that forgets to unlock
    /\ Go(p, "unlock", "idle")
    /\ UNCHANGED <<owner, activity, wanted, followUp, told>>

Unlocks(p) ==
    /\ Go(p, "unlock", "idle")
    /\ owner' = NoOne
    /\ UNCHANGED <<activity, wanted, followUp, told>>

----------------------------------------------------------------------------
(* The system *)

Run(r) ==
    \/ RunTries(r) \/ RunWants(r) \/ RunStopsFollowUp(r)
    \/ RunLocks(r) \/ RunUncounts(r)

Ask(a) ==
    \/ AskTries(a) \/ AskWants(a) \/ AskStopsFollowUp(a)
    \/ AskPolls(a) \/ AskTimesOut(a) \/ AskLeaves(a)

Removal(d) ==
    \/ RemovalWants(d) \/ RemovalPolls(d)
    \/ RemovalLooks(d) \/ RemovalRefused(d)

FollowUp(f) ==
    \/ FollowUpChecks(f) \/ FollowUpTries(f)
    \/ FollowUpRegisters(f) \/ FollowUpUnregisters(f)

Window(w) ==
    \/ WindowQueues(w) \/ WindowLocks(w) \/ WindowEnters(w)
    \/ WindowTimesOut(w) \/ GhostLocks(w)

Hold(p) == Labels(p) \/ Finishes(p) \/ ClearsLabel(p) \/ Unlocks(p)

Next ==
    \/ \E r \in Runs : Run(r)
    \/ \E a \in Askers : Ask(a)
    \/ \E d \in Removals : Removal(d)
    \/ \E f \in FollowUps : FollowUp(f)
    \/ \E w \in Windows : Window(w)
    \/ \E p \in Procs : Hold(p)

Spec == Init /\ [][Next]_vars

(***************************************************************************)
(* Fairness.  A started operation keeps going and every hold ends, since   *)
(* each is a goroutine that returns.  Nobody has to start: RunTries,       *)
(* AskTries, FollowUpChecks and WindowQueues are left out.  Go's mutex     *)
(* hands itself to a waiter queued for over a millisecond before it lets a *)
(* fresh TryLock have it, so a blocked Lock is strongly fair; a polling    *)
(* TryLock is not.                                                         *)
(***************************************************************************)
Fairness ==
    /\ \A p \in Procs : WF_vars(Hold(p))
    /\ \A r \in Runs :
          /\ WF_vars(RunWants(r) \/ RunStopsFollowUp(r) \/ RunUncounts(r))
          /\ SF_vars(RunLocks(r))
    /\ \A a \in Askers :
          WF_vars(AskWants(a) \/ AskStopsFollowUp(a) \/ AskTimesOut(a) \/ AskLeaves(a))
    /\ \A d \in Removals : WF_vars(RemovalWants(d) \/ RemovalRefused(d))
    /\ \A f \in FollowUps :
          WF_vars(FollowUpTries(f) \/ FollowUpRegisters(f) \/ FollowUpUnregisters(f))
    /\ \A w \in Windows :
          /\ WF_vars(WindowEnters(w) \/ WindowTimesOut(w))
          /\ SF_vars(GhostLocks(w))

FairSpec == Spec /\ Fairness

----------------------------------------------------------------------------
(* Properties *)

\* The lock does what a section needs: operations are inside one at a time,
\* and a window that timed out never is, although its goroutine still takes
\* the mutex for a moment (lockDomainFor, takeDomainLock, lockWithin).
Section == INSTANCE SectionMutex WITH
    Ops <- Procs, inside <- {p \in Procs : pc[p] \in Inside}

OneInside == Section!Spec

\* Whoever holds the mutex is at a step of its hold and nobody else is: no
\* path forgets to let it go, lets go of another's or enters without it.
OwnerHolds == \A p \in Procs : owner = p <=> pc[p] \in Holds

\* What domainBusy reports is true: the label names the operation that is
\* inside, from the moment it starts to work until it has ended, and never an
\* operation that let go (setDomainActivity, clearDomainActivity).
LabelNamesHolder ==
    /\ activity # NoOne => owner = activity
    /\ \A p \in Procs :
          pc[p] \in {"register", "work", "unregister", "clear"} => activity = p

\* domainWanted counts exactly those still waiting, so follow-ups are held
\* back while there is one and not for ever after (wantDomain's deferred done).
WantedCountsWaiters == wanted = Cardinality({p \in Procs : pc[p] \in Waiting})

\* A registered stop function belongs to a follow-up that holds the section:
\* nobody is told to wait for one that is gone (heldByFollowUp, busyForUser).
RegisteredHolds ==
    followUp # NoOne => owner = followUp /\ activity = followUp

\* An ask that waits for a follow-up waits for one that has been stopped: with
\* the single worker that runs the probes no other slips in behind it
\* (tryLockDomainFor: "the queued ones keep back").
PolledIsTold ==
    \A a \in Askers : pc[a] = "poll" /\ followUp # NoOne => followUp \in told

\* A backup that blocks on a busy section gets its turn, whatever mix of asks,
\* probes and abandoned waits comes and goes meanwhile (lockDomainFor).
RunGetsIn == \A r \in Runs : pc[r] = "block" ~> pc[r] = "work"

\* An ask is answered: it works in the section or is refused, and a removal
\* reaches its second wait (tryLockDomainFor).
AskIsAnswered == \A a \in Askers : pc[a] = "want" ~> pc[a] \in {"work", "idle", "wantAgain"}

=============================================================================
