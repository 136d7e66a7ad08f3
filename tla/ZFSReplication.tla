--------------------------- MODULE ZFSReplication ---------------------------
(***************************************************************************)
(* Replication of a ZFS item: a run takes one recursive snapshot of the    *)
(* source tree and brings every member up to it on the target, with an     *)
(* incremental stream from the newest point both sides share.  A stream    *)
(* that breaks off leaves a partial receive the next run resumes; a run    *)
(* that dies leaves whatever it had done.  Switching the replica off       *)
(* cleans the source down to the bookmarks a later run can go on from.     *)
(*                                                                         *)
(* A snapshot is the number of the run that took it: its name, its guid    *)
(* and its place in time at once.  Runs and cleans of one item exclude     *)
(* each other (lockZFSReplica).  Left out: parents above the item on the   *)
(* target, mounting, writes to the target, and the stream's bytes.         *)
(***************************************************************************)
EXTENDS Naturals, FiniteSets

CONSTANTS
    Members,        \* the datasets and volumes of the item's tree
    Root,           \* the item itself, the parent of the others
    Place,          \* where each comes in the listing of the tree
    Excluded,       \* the members the item leaves out
    None,           \* no member, no partial receive
    KeepOnSource,   \* how many snapshots stay on the source
    FaultSets,      \* the calls that may fail, one set per environment
    MaxRuns,        \* bound: runs, and so snapshots
    MaxCrashes,     \* bound: how often the process may die
    MaxCleans,      \* bound: how often the replica is switched off
    MaxUserActs     \* bound: snapshots destroyed by hand

Calls == {"source", "root", "target", "stream", "mark", "hold", "destroy",
          "cancel"}

Snaps == 1 .. MaxRuns

ASSUME ItemAssumption ==
    /\ Root \in Members
    /\ Place \in [Members -> Nat]
    /\ \A m \in Members \ {Root} : Place[Root] < Place[m]
    /\ Excluded \subseteq Members \ {Root}
    /\ None \notin Members
    /\ KeepOnSource \in Nat
    /\ FaultSets \subseteq SUBSET Calls
    /\ {MaxRuns, MaxCrashes, MaxCleans, MaxUserActs} \subseteq Nat

Sent == Members \ Excluded

VARIABLES
    snaps,      \* the replica snapshots of each member on the source
    marks,      \* its bookmarks there
    held,       \* those of its snapshots that carry the replica hold
    copy,       \* its snapshots on the target
    partial,    \* what a partial receive on the target stands for
    snap,       \* the snapshot of the current or of the last run
    pc,         \* where the run is
    left,       \* the members the run has yet to do
    member,     \* the one it is doing
    own,        \* the names the run found on the root
    src,        \* the member's points on the source, as the run read them
    tgt,        \* its snapshots on the target, as read after the stream
    pruned,     \* those of them the run removed
    streamed,   \* sent: the stream towards the snapshot started
    cancelled,  \* the run's context is done
    faults,     \* the calls that may fail here
    smooth,     \* history: no call of the current or last run failed
    crashes, cleans, acts

source  == <<snaps, marks, held>>
target  == <<copy, partial>>
scratch == <<own, src, tgt, pruned, streamed>>
bounds  == <<faults, crashes, cleans, acts>>

vars == <<source, target, snap, pc, left, member, scratch, cancelled, smooth, bounds>>

Steps == {"idle", "next", "look", "resume", "view", "send", "landed", "mark",
          "hold", "clear", "prune", "unmark", "drop"}

Points == [snaps : SUBSET Snaps, marks : SUBSET Snaps]
NoPoints == [snaps |-> {}, marks |-> {}]

\* A partial receive: the snapshot it leads to and the one it starts from, if
\* it is no full stream.
Partials == [to : Snaps, from : SUBSET Snaps]

TypeOK ==
    /\ snaps \in [Members -> SUBSET Snaps]
    /\ marks \in [Members -> SUBSET Snaps]
    /\ held \in [Members -> SUBSET Snaps]
    /\ copy \in [Members -> SUBSET Snaps]
    /\ partial \in [Members -> Partials \cup {None}]
    /\ snap \in 0 .. MaxRuns
    /\ pc \in Steps
    /\ left \in SUBSET Members
    /\ member \in Members \cup {None}
    /\ own \in SUBSET Snaps
    /\ src \in Points
    /\ tgt \in SUBSET Snaps
    /\ pruned \in SUBSET Snaps
    /\ streamed \in BOOLEAN
    /\ cancelled \in BOOLEAN
    /\ faults \in FaultSets
    /\ smooth \in BOOLEAN
    /\ crashes \in 0 .. MaxCrashes
    /\ cleans \in 0 .. MaxCleans
    /\ acts \in 0 .. MaxUserActs

Init ==
    /\ snaps = [m \in Members |-> {}]
    /\ marks = [m \in Members |-> {}]
    /\ held = [m \in Members |-> {}]
    /\ copy = [m \in Members |-> {}]
    /\ partial = [m \in Members |-> None]
    /\ snap = 0
    /\ pc = "idle"
    /\ left = {}
    /\ member = None
    /\ own = {} /\ src = NoPoints /\ tgt = {} /\ pruned = {}
    /\ streamed = FALSE
    /\ cancelled = FALSE
    /\ faults \in FaultSets
    /\ smooth = TRUE
    /\ crashes = 0 /\ cleans = 0 /\ acts = 0

\* The newest of some snapshots, as a set: empty when there are none.
Newest(S) == {s \in S : \A t \in S : t <= s}

\* A call under the run's context fails once the run is cancelled; the
\* clean-up after a failure runs under a context that outlives it.
Works == ~cancelled
Breaks(call) == cancelled \/ call \in faults

Forgets == own' = {} /\ src' = NoPoints /\ tgt' = {} /\ pruned' = {} /\ streamed' = FALSE

----------------------------------------------------------------------------
(* A run *)

\* Run up to the members: the recursive snapshot, then the names on the root.
\* A read of the root that fails leaves the run its own name alone.
Start ==
    /\ pc = "idle" /\ snap < MaxRuns
    /\ snap' = snap + 1
    /\ snaps' = [m \in Members |-> snaps[m] \cup {snap'}]
    /\ \/ own' = snaps'[Root] /\ smooth' = TRUE
       \/ "root" \in faults /\ own' = {snap'} /\ smooth' = FALSE
    /\ left' = Members
    /\ cancelled' = FALSE
    /\ pc' = "next"
    /\ UNCHANGED <<marks, held, target, member, src, tgt, pruned, streamed, bounds>>

Cancel ==
    /\ pc # "idle" /\ "cancel" \in faults /\ ~cancelled
    /\ cancelled' = TRUE
    /\ smooth' = FALSE
    /\ UNCHANGED <<source, target, snap, pc, left, member, scratch, bounds>>

\* The tree is listed parents first.
IsNext(m) == m \in left /\ \A n \in left : Place[m] <= Place[n]

\* destroyNew, and every other removal: it works, or it fails and is logged.
Destroys(m, gone) ==
    \/ /\ snaps' = [snaps EXCEPT ![m] = @ \ gone]
       /\ smooth' = smooth
    \/ /\ "destroy" \in faults /\ gone # {}
       /\ snaps' = snaps
       /\ smooth' = FALSE

\* sweepExcluded: of an excluded member every name that is on the root goes.
SweepExcluded(m) ==
    /\ pc = "next" /\ IsNext(m) /\ m \in Excluded
    /\ Destroys(m, (snaps[m] \cap own) \ held[m])
    /\ left' = left \ {m}
    /\ UNCHANGED <<marks, held, target, snap, pc, member, scratch, cancelled, bounds>>

NotReached(m) ==
    /\ pc = "next" /\ IsNext(m) /\ m \in Sent
    /\ cancelled
    /\ Destroys(m, {snap})
    /\ left' = left \ {m}
    /\ UNCHANGED <<marks, held, target, snap, pc, member, scratch, cancelled, bounds>>

Begin(m) ==
    /\ pc = "next" /\ IsNext(m) /\ m \in Sent
    /\ ~cancelled
    /\ left' = left \ {m}
    /\ member' = m
    /\ pc' = "look"
    /\ UNCHANGED <<source, target, snap, scratch, cancelled, smooth, bounds>>

End ==
    /\ pc = "next" /\ left = {}
    /\ pc' = "idle"
    /\ own' = {}
    /\ UNCHANGED <<source, target, snap, left, member, src, tgt, pruned, streamed,
                   cancelled, smooth, bounds>>

----------------------------------------------------------------------------
(* One member *)

\* The member failed: on to keepOrDrop.
Fails == pc' = "drop" /\ smooth' = FALSE

\* replicate reads the source first and then the target.
Look ==
    /\ pc = "look"
    /\ Works /\ snap \in snaps[member]
    /\ src' = [snaps |-> snaps[member], marks |-> marks[member]]
    /\ pc' = IF partial[member] = None THEN "send" ELSE "resume"
    /\ UNCHANGED <<source, target, snap, left, member, own, tgt, pruned, streamed,
                   cancelled, smooth, bounds>>

LookFails ==
    /\ pc = "look"
    /\ Breaks("source") \/ Breaks("target") \/ snap \notin snaps[member]
    /\ Fails
    /\ UNCHANGED <<source, target, snap, left, member, scratch, cancelled, bounds>>

\* The token still stands for a stream the source can send: to a snapshot it
\* has, from a point it has.
TokenHolds(m) ==
    /\ partial[m].to \in snaps[m]
    /\ partial[m].from \subseteq snaps[m] \cup marks[m]

\* The rest of the interrupted stream arrives.
Completed(m) ==
    /\ copy' = [copy EXCEPT ![m] = @ \cup {partial[m].to}]
    /\ partial' = [partial EXCEPT ![m] = None]

\* The stream of an earlier run is finished first.
Resume ==
    /\ pc = "resume"
    /\ Works /\ TokenHolds(member)
    /\ Completed(member)
    /\ pc' = "view"
    /\ UNCHANGED <<source, snap, left, member, scratch, cancelled, smooth, bounds>>

\* It breaks again: the target keeps what it has, or got the rest and only the
\* send reports a failure.
ResumeBreaks ==
    /\ pc = "resume"
    /\ \/ /\ Breaks("stream") \/ (~TokenHolds(member) /\ Breaks("target"))
          /\ UNCHANGED target
       \/ Breaks("stream") /\ TokenHolds(member) /\ Completed(member)
    /\ Fails
    /\ UNCHANGED <<source, snap, left, member, scratch, cancelled, bounds>>

\* A token nothing on the source stands behind any more is dropped.
AbortReceive ==
    /\ pc = "resume"
    /\ Works /\ ~TokenHolds(member)
    /\ partial' = [partial EXCEPT ![member] = None]
    /\ pc' = "view"
    /\ UNCHANGED <<source, copy, snap, left, member, scratch, cancelled, smooth,
                   bounds>>

\* The target is read again; a snapshot that was resumed gets its bookmark,
\* or the failure is logged.
View ==
    /\ pc = "view" /\ Works
    /\ LET arrived == copy[member] \cap (src.snaps \ src.marks) IN
       \/ /\ marks' = [marks EXCEPT ![member] =
                        @ \cup (arrived \cap Newest(copy[member]))]
          /\ smooth' = smooth
       \/ /\ "mark" \in faults
          /\ marks' = marks /\ smooth' = FALSE
    /\ pc' = "send"
    /\ UNCHANGED <<snaps, held, target, snap, left, member, scratch, cancelled, bounds>>

ViewFails ==
    /\ pc = "view" /\ Breaks("target")
    /\ Fails
    /\ UNCHANGED <<source, target, snap, left, member, scratch, cancelled, bounds>>

SnapshotsOnly(points, there) == (points.snaps \cap there) \ {snap}  \* mutant: no bookmarks

\* commonBase: the points of the source the target holds as snapshots.
Shared(points, there) == ((points.snaps \cup points.marks) \cap there) \ {snap}

\* The base of the increment, or nothing for a full stream.
Base == Newest(Shared(src, copy[member]))

HasBase == copy[member] # {} => Base # {}

\* What zfs itself asks of a stream: the parent of a new copy is there, and an
\* increment starts from the target's newest snapshot and a point the source
\* still has.
Receivable ==
    IF copy[member] = {}
    THEN member = Root \/ copy[Root] # {}
    ELSE /\ Base \subseteq Newest(copy[member])
         /\ Base \subseteq snaps[member] \cup marks[member]

Stream ==
    /\ pc = "send" /\ HasBase
    /\ Works /\ Receivable
    /\ streamed' = TRUE
    /\ copy' = [copy EXCEPT ![member] = @ \cup {snap}]
    /\ pc' = "landed"
    /\ UNCHANGED <<source, partial, snap, left, member, own, src, tgt, pruned, cancelled,
                   smooth, bounds>>

\* Without a shared point the stream never starts (no-common-base); one the
\* target cannot apply is refused there.
Refuse ==
    /\ pc = "send" /\ ~(HasBase /\ Receivable)
    /\ streamed' = HasBase
    /\ pc' = "drop"
    /\ UNCHANGED <<source, target, snap, left, member, own, src, tgt, pruned, cancelled,
                   smooth, bounds>>

\* A stream that breaks: nothing crossed, a part of it did, or all of it and
\* only the send reports a failure.
Interrupted ==
    \/ UNCHANGED target
    \/ /\ partial' = [partial EXCEPT ![member] = [to |-> snap, from |-> Base]]
       /\ copy' = copy
    \/ /\ copy' = [copy EXCEPT ![member] = @ \cup {snap}]
       /\ partial' = partial

StreamBreaks ==
    /\ pc = "send" /\ HasBase
    /\ Breaks("stream") /\ Receivable
    /\ Interrupted
    /\ streamed' = TRUE
    /\ Fails
    /\ UNCHANGED <<source, snap, left, member, own, src, tgt, pruned, cancelled, bounds>>

\* landed: the target is read once more.
Landed ==
    /\ pc = "landed" /\ Works
    /\ tgt' = copy[member]
    /\ pc' = "mark"
    /\ UNCHANGED <<source, target, snap, left, member, own, src, pruned, streamed,
                   cancelled, smooth, bounds>>

\* anchor: the bookmark, then the hold.
Bookmark ==
    /\ pc = "mark" /\ Works /\ snap \in snaps[member]
    /\ marks' = [marks EXCEPT ![member] = @ \cup {snap}]
    /\ pc' = "hold"
    /\ UNCHANGED <<snaps, held, target, snap, left, member, scratch, cancelled, smooth,
                   bounds>>

Hold ==
    /\ pc = "hold" /\ Works /\ snap \in snaps[member]
    /\ held' = [held EXCEPT ![member] = @ \cup {snap}]
    /\ pc' = "clear"
    /\ UNCHANGED <<snaps, marks, target, snap, left, member, scratch, cancelled, smooth,
                   bounds>>

AnchorFails ==
    /\ \/ pc = "landed" /\ Breaks("target")
       \/ pc = "mark" /\ Breaks("mark")
       \/ pc = "hold" /\ Breaks("hold")
    /\ Fails
    /\ UNCHANGED <<source, target, snap, left, member, scratch, cancelled, bounds>>

----------------------------------------------------------------------------
(* A member that failed *)

AlwaysDrop ==                   \* mutant: what the target may resume to goes too
    /\ pc = "drop"
    /\ IF snap \in copy[member]
       THEN UNCHANGED <<snaps, smooth>>
       ELSE Destroys(member, {snap})
    /\ pc' = "next"
    /\ member' = None
    /\ src' = NoPoints /\ tgt' = {} /\ pruned' = {} /\ streamed' = FALSE
    /\ UNCHANGED <<marks, held, target, snap, left, own, cancelled, bounds>>

\* keepOrDrop: the new snapshot stays while the target holds it, may resume to
\* it or cannot be read.
KeepOrDrop ==
    /\ pc = "drop"
    /\ \/ /\ ~streamed
          /\ Destroys(member, {snap} \cap snaps[member])
       \/ /\ streamed /\ "target" \in faults
          /\ snaps' = snaps /\ smooth' = FALSE
       \/ /\ streamed
          /\ partial[member] # None \/ snap \in copy[member]
          /\ UNCHANGED <<snaps, smooth>>
       \/ /\ streamed /\ partial[member] = None /\ snap \notin copy[member]
          /\ Destroys(member, {snap} \cap snaps[member])
    /\ pc' = "next"
    /\ member' = None
    /\ src' = NoPoints /\ tgt' = {} /\ pruned' = {} /\ streamed' = FALSE
    /\ UNCHANGED <<marks, held, target, snap, left, own, cancelled, bounds>>

----------------------------------------------------------------------------
(* The housekeeping of a member that arrived *)

OneMore(older) ==               \* mutant: the run's own snapshot is not counted
    {s \in older : Cardinality({t \in older : t >= s}) <= KeepOnSource}

\* The newest of the older snapshots that may stay beside the run's own.
Spare(older) == {s \in older : Cardinality({t \in older : t >= s}) < KeepOnSource}

\* clear: what is on the root or bookmarked loses its hold, and what exceeds
\* KeepOnSource goes.
Clear ==
    /\ pc = "clear"
    /\ LET older == (src.snaps \cap (own \cup src.marks)) \ {snap} IN
       /\ held' = [held EXCEPT ![member] = @ \ older]
       /\ Destroys(member, (older \ Spare(older)) \cap snaps[member])
    /\ pc' = "prune"
    /\ UNCHANGED <<marks, target, snap, left, member, scratch, cancelled, bounds>>

\* prune: the retention of the item, or of a target that prunes itself and
\* says nothing, drops any of the older copies.
Prune ==
    /\ pc = "prune"
    /\ \E gone \in SUBSET (tgt \ {snap}) :
        /\ copy' = [copy EXCEPT ![member] = @ \ gone]
        /\ pruned' \in {gone, {}}
    /\ pc' = "unmark"
    /\ UNCHANGED <<source, partial, snap, left, member, own, src, tgt, streamed, cancelled,
                   smooth, bounds>>

\* pruneBookmarks: those of the bookmarks read at the start that no snapshot
\* left on the target pairs with.
Unpaired(kept) == src.marks \ (kept \cup {snap})

PruneBookmarks ==
    /\ pc = "unmark"
    /\ \/ marks' = [marks EXCEPT ![member] = @ \ Unpaired(tgt \ pruned)]
          /\ smooth' = smooth
       \/ "destroy" \in faults /\ marks' = marks /\ smooth' = FALSE
    /\ pc' = "next"
    /\ member' = None
    /\ src' = NoPoints /\ tgt' = {} /\ pruned' = {} /\ streamed' = FALSE
    /\ UNCHANGED <<snaps, held, target, snap, left, own, cancelled, bounds>>

----------------------------------------------------------------------------
(* Between and around the runs *)

\* The names Clean takes for this item's on a member: those on the root, and
\* on a member that is sent whatever has a bookmark.
Ours(m) ==
    LET there == snaps[m] \cup marks[m] IN
    there \cap (snaps[Root] \cup marks[Root]
                  \cup (IF m \in Sent THEN marks[m] ELSE {}))

KeptMark(m) == Newest(marks[m] \cap Ours(m))

NoNewMarks(m) == {}             \* mutant: only what has a bookmark keeps one

\* The snapshots after the newest bookmark may have arrived or not, and get one.
NewMarks(m) ==
    IF m \in Sent
    THEN {s \in snaps[m] \cap Ours(m) : \A k \in KeptMark(m) : s > k}
    ELSE {}

\* Clean: the replica of the item is switched off, pointed elsewhere and back,
\* or the item is deleted and added again.
Clean ==
    /\ pc = "idle" /\ snap > 0 /\ cleans < MaxCleans
    /\ marks' = [m \in Members |-> (marks[m] \ Ours(m)) \cup KeptMark(m) \cup NewMarks(m)]
    /\ snaps' = [m \in Members |-> snaps[m] \ Ours(m)]
    /\ held' = [m \in Members |-> held[m] \ Ours(m)]
    /\ cleans' = cleans + 1
    /\ smooth' = FALSE
    /\ UNCHANGED <<target, snap, pc, left, member, scratch, cancelled, faults,
                   crashes, acts>>

\* A user may destroy what a later anchored snapshot has replaced.
UserDestroys(m) ==
    /\ acts < MaxUserActs
    /\ \E s \in snaps[m] \ held[m] :
        /\ \E t \in held[m] : s < t
        /\ snaps' = [snaps EXCEPT ![m] = @ \ {s}]
    /\ acts' = acts + 1
    /\ UNCHANGED <<marks, held, target, snap, pc, left, member, scratch, cancelled,
                   smooth, faults, crashes, cleans>>

\* The process dies; a stream that was on its way is cut.
Crash ==
    /\ pc # "idle" /\ crashes < MaxCrashes
    /\ \/ UNCHANGED target
       \/ pc = "send" /\ HasBase /\ Receivable /\ Interrupted
       \/ pc = "resume" /\ TokenHolds(member) /\ Completed(member)
    /\ pc' = "idle"
    /\ left' = {} /\ member' = None /\ cancelled' = FALSE
    /\ Forgets
    /\ crashes' = crashes + 1
    /\ smooth' = FALSE
    /\ UNCHANGED <<source, snap, faults, cleans, acts>>

----------------------------------------------------------------------------
Progress ==
    \/ \E m \in Members : SweepExcluded(m) \/ NotReached(m) \/ Begin(m)
    \/ End
    \/ Look \/ LookFails \/ Resume \/ ResumeBreaks \/ AbortReceive \/ View \/ ViewFails
    \/ Stream \/ Refuse \/ StreamBreaks
    \/ Landed \/ Bookmark \/ Hold \/ AnchorFails
    \/ KeepOrDrop \/ Clear \/ Prune \/ PruneBookmarks

Next ==
    \/ Start \/ Cancel \/ Progress \/ Clean \/ Crash
    \/ \E m \in Members : UserDestroys(m)

Spec == Init /\ [][Next]_vars

----------------------------------------------------------------------------
(* Properties *)

\* Whatever breaks, the newest copy on the target is a point the source still
\* has: the next increment can start there (commonBase, clear, pruneBookmarks).
BaseKept ==
    \A m \in Sent : copy[m] # {} =>
        Newest(copy[m]) \cap (snaps[m] \cup marks[m]) # {}

\* Clean leaves the bookmarks a later run can continue the copy from
\* (clean.go:9-10).
CleanKeepsBase ==
    [][cleans' > cleans => \A m \in Sent :
        copy[m] # {} => Newest(copy[m]) \cap (snaps'[m] \cup marks'[m]) # {}]_vars

\* A run never destroys the snapshot a partial receive leads to, whatever
\* fails after the stream broke (keepOrDrop, destroyNew, clear).
ResumableKept ==
    [][cleans' = cleans => \A m \in Members :
        (partial'[m] # None /\ partial'[m].to \in snaps[m]) => partial'[m].to \in snaps'[m]]_vars

\* After any history of broken, cancelled and killed runs, a run nothing
\* disturbs brings every member of the item up to its snapshot and anchors it.
UndisturbedRunLands ==
    pc = "idle" /\ smooth /\ snap > 0 =>
        \A m \in Sent : snap \in copy[m] \cap snaps[m] \cap marks[m] \cap held[m]

AtLeastOne(n) == IF n > 1 THEN n ELSE 1

\* The snapshots of a member a run takes for this item's own: their name is on
\* the root, or they have a bookmark.
Recognised(m) == snaps[m] \cap (marks[m] \cup snaps[Root])

\* However often streams break and runs are cancelled or die, a run nothing
\* disturbs leaves no more of these on the source than it is told to keep and
\* the snapshot it resumed first, which waits for the next run (clear, anchor).
\* Those it does not take for the item's own may pile up.
NothingPilesUp ==
    pc = "idle" /\ smooth =>
        \A m \in Sent : Cardinality(Recognised(m)) <= AtLeastOne(KeepOnSource) + 1
=============================================================================
