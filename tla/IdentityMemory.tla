--------------------------- MODULE IdentityMemory ---------------------------
(***************************************************************************)
(* The memory of an identity (src/feiqiao_guard/identity_memory.py): a     *)
(* file with the latest turns of its conversation, in three tiers.         *)
(***************************************************************************)
EXTENDS Integers, Sequences

CONSTANTS
  WindowSize,   \* window_size
  FreshSize,    \* fresh_size, as configured
  StableSize,   \* stable_size
  ArchiveSize,  \* archive_size
  NoTag         \* a turn whose metadata lack trace_id or task_id

ASSUME MemoryAssumption ==
  /\ WindowSize \in Int
  /\ FreshSize \in Int
  /\ StableSize \in Int
  /\ ArchiveSize \in Int
-----------------------------------------------------------------------------
AtLeast(n, x) == IF x < n THEN n ELSE x
AtMost(n, x) == IF x < n THEN x ELSE n

Window == AtLeast(1, WindowSize)

\* _normalize_tier_sizes: what is configured beyond the window is cut, the oldest
\* tier first, and the oldest tier gets what is left of the window.
Configured(size) == AtLeast(0, size)
Unset == Configured(FreshSize) + Configured(StableSize) + Configured(ArchiveSize) = 0

Fresh == AtMost(Window, IF Unset THEN 20 ELSE Configured(FreshSize))
Stable == AtMost(Window - Fresh, IF Unset THEN 20 ELSE Configured(StableSize))
Archive == Window - Fresh - Stable
-----------------------------------------------------------------------------
(***************************************************************************)
(* A memory has the number of the last turn and the turns, oldest first;   *)
(* the summaries are texts made of the turns.                              *)
(***************************************************************************)
EmptyMemory == [seq |-> 0, turns |-> <<>>]

Turn(id, role, text, tag) == [id |-> id, role |-> role, text |-> text, tag |-> tag]

\* A missing trace or task is kept as null and read back as the text "None", which
\* is not the empty text it is compared with: such a turn repeats none.
Repeats(turn, last) ==
  /\ turn.role = last.role
  /\ turn.text = last.text
  /\ turn.tag = last.tag
  /\ turn.tag # NoTag

\* The oldest turns go to the archive summary.
Rolled(turns) ==
  IF Len(turns) > Window THEN SubSeq(turns, Len(turns) - Window + 1, Len(turns)) ELSE turns

\* append_turn.
Remember(memory, role, text, tag) ==
  LET turn == Turn(memory.seq + 1, role, text, tag)
  IN IF memory.turns # <<>> /\ Repeats(turn, memory.turns[Len(memory.turns)])
     THEN memory
     ELSE [seq |-> memory.seq + 1, turns |-> Rolled(Append(memory.turns, turn))]

\* _split_tiers.
FreshStart(turns) == AtLeast(0, Len(turns) - Fresh)
StableStart(turns) == AtLeast(0, FreshStart(turns) - Stable)
ArchiveStart(turns) == AtLeast(0, StableStart(turns) - Archive)

FreshTurns(turns) == SubSeq(turns, FreshStart(turns) + 1, Len(turns))
StableTurns(turns) == SubSeq(turns, StableStart(turns) + 1, FreshStart(turns))
ArchiveTurns(turns) == SubSeq(turns, ArchiveStart(turns) + 1, StableStart(turns))
=============================================================================
