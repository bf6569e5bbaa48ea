------------------------------ MODULE OrderBook ------------------------------
(***************************************************************************)
(* The local depth book (order-book.ts): deltas wait for a snapshot, then  *)
(* each must continue where the book stands.                               *)
(*                                                                         *)
(* A side is a map from prices to quantities; 0 stands for no level.       *)
(* Update ids are positive, so 0 also stands for "no id yet".  Every       *)
(* update of the venue gives its price a quantity of its own, its number;  *)
(* deltas and snapshots are cut from that history.                         *)
(***************************************************************************)
EXTENDS Integers, Sequences, SequencesExt

CONSTANTS Prices, NONE

ASSUME BookAssumption == Prices # {} /\ NONE \notin Nat

Statuses == {"empty", "buffering", "ready", "gapped"}

EmptyBook ==
    [status |-> "empty", updateId |-> 0, levels |-> [p \in Prices |-> 0],
     buffered |-> <<>>, awaitingFirstDelta |-> FALSE]

(* applyLevels: the quantities of a delta replace those of the book. *)
WithLevels(book, d) ==
    [book EXCEPT !.levels = [p \in Prices |-> IF p \in DOMAIN d.levels THEN d.levels[p]
                                              ELSE book.levels[p]],
                 !.updateId = d.u, !.status = "ready", !.awaitingFirstDelta = FALSE]

Gapped(book) == [book EXCEPT !.status = "gapped"]

(* Mutant: the first delta need not touch the snapshot. *)
JoinsAnything(book, d) == TRUE

(* The first delta after a snapshot overlaps it or directly follows it. *)
JoinsSnapshot(book, d) ==
    \/ d.U <= book.updateId /\ d.u >= book.updateId
    \/ d.pu = book.updateId

(* Mutant: a delta need not continue where the book stands. *)
ContinuesAnyway(book, d) == d.pu = NONE => d.U <= book.updateId + 1

(* Later ones name the previous update, or at least leave no id out. *)
Continues(book, d) ==
    IF d.pu # NONE THEN d.pu = book.updateId ELSE d.U <= book.updateId + 1

(* Mutant: a delta that was already applied is not ignored. *)
NothingIsStale(book, d) == FALSE

AlreadyApplied(book, d) ==
    IF book.awaitingFirstDelta THEN d.u < book.updateId ELSE d.u <= book.updateId

ApplyLive(book, d) ==
    CASE AlreadyApplied(book, d) -> book
      [] ~AlreadyApplied(book, d)
            /\ (IF book.awaitingFirstDelta THEN JoinsSnapshot(book, d)
                ELSE Continues(book, d)) -> WithLevels(book, d)
      [] OTHER -> Gapped(book)

Ingest(book, d) ==
    CASE book.status = "gapped" -> book
      [] book.status # "gapped" /\ book.updateId = 0 ->
            [book EXCEPT !.status = "buffering", !.buffered = Append(@, d)]
      [] OTHER -> ApplyLive(book, d)

(* A buffered delta, unless one before it left a gap. *)
ApplyBuffered(book, d) == IF book.status = "gapped" THEN book ELSE ApplyLive(book, d)

(* The snapshot replaces the book, then the buffered deltas are applied. *)
LoadSnapshot(book, s) ==
    FoldLeft(ApplyBuffered,
             [status |-> "ready", updateId |-> s.lastUpdateId, levels |-> s.levels,
              buffered |-> <<>>, awaitingFirstDelta |-> TRUE],
             book.buffered)

-----------------------------------------------------------------------------
(* The venue's book (external): the sequence of the prices it updated. *)

(* The quantity of p after the first n updates: the last one's number. *)
LevelAt(updates, n, p) ==
    CHOOSE i \in 0 .. n :
        /\ i = 0 \/ updates[i] = p
        /\ \A j \in i + 1 .. n : updates[j] # p

BookAt(updates, n) == [p \in Prices |-> LevelAt(updates, n, p)]

(* The delta of updates first .. last, with or without its predecessor. *)
Delta(updates, first, last, previous) ==
    [U |-> first, u |-> last, pu |-> previous,
     levels |-> [p \in {updates[i] : i \in first .. last} |-> LevelAt(updates, last, p)]]

SnapshotAt(updates, n) == [lastUpdateId |-> n, levels |-> BookAt(updates, n)]

=============================================================================
