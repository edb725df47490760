------------------------------- MODULE Pools -------------------------------
(***************************************************************************)
(* Pools that lend places and take them back from the last owner: pinned   *)
(* entries (src/depot/arena/pool), and groups of buffer slots that grow    *)
(* with the demand (src/buffer/pool/growing.rs).  Both call code that may  *)
(* use the pool again before the call returns.                             *)
(***************************************************************************)
EXTENDS Naturals, Sequences, FiniteSetsExt, SequencesExt, Functions

CONSTANTS Entries,     \* 1..n, made in this order
          POOL, END, LIMIT,
          Plans,       \* slots a layout is planned for
          MaxDepth     \* try_take calls waiting for the allocator

VARIABLES free, state,   \* the first free entry, and the word of each
          value,         \* entry -> whether its value is initialized
          references,    \* entry -> the count in it
          owners,        \* entry -> what the program holds of it
          retiring,      \* entries whose value is being dropped, innermost last
          plan,          \* Growing.plan.slots
          room,          \* the length of the array of groups
          groups,        \* the groups written, and the slots of each
          vacant,        \* Pool::available of each
          allocated, hint,
          calls          \* the try_take calls in progress, the innermost last

-----------------------------------------------------------------------------
(* An entry has one word beside its value: the next free entry while it is *)
(* vacant, and the pool while it is lent, so that the last owner finds its *)
(* way back.  An entry with a value may be frozen and shared, counted by   *)
(* references in it.  Retiring drops or recycles the value by the caller's *)
(* code before the entry is free, and may tell the pool's context after;   *)
(* all three may use the pool again.                                       *)

entriesVars == <<free, state, value, references, owners, retiring>>

None == [kind |-> "none", shares |-> 0]
One(kind) == [kind |-> kind, shares |-> 0]
Shares(n) == [kind |-> "shared", shares |-> n]

\* Entry::try_init: the entry made last is the first free.
EntriesInit ==
  /\ free = IF Entries = {} THEN END ELSE Len(SetToSeq(Entries))
  /\ state = [e \in Entries |-> IF e = 1 THEN END ELSE e - 1]
  /\ value = [e \in Entries |-> FALSE]
  /\ references = [e \in Entries |-> 0]
  /\ owners = [e \in Entries |-> None]
  /\ retiring = <<>>

Own(e, what) == owners' = [owners EXCEPT ![e] = what]
Recycle(e) == free' = e /\ state' = [state EXCEPT ![e] = free]
Held(e, kind) == owners[e].kind = kind

\* Vacant::new leaves the word as it is; reserve makes it name the pool.
Vacancy ==
  /\ free # END
  /\ free' = state[free] /\ Own(free, One("vacant"))
  /\ UNCHANGED <<state, value, references, retiring>>
DropVacant(e) ==
  /\ Held(e, "vacant")
  /\ Recycle(e) /\ Own(e, None)
  /\ UNCHANGED <<value, references, retiring>>
Reserve(e) ==
  /\ Held(e, "vacant")
  /\ state' = [state EXCEPT ![e] = POOL] /\ Own(e, One("blank"))
  /\ UNCHANGED <<free, value, references, retiring>>
DropBlank(e) ==
  /\ Held(e, "blank") /\ state[e] = POOL
  /\ Recycle(e) /\ Own(e, None)
  /\ UNCHANGED <<value, references, retiring>>
Begin(e) ==
  /\ Held(e, "blank")
  /\ value' = [value EXCEPT ![e] = TRUE] /\ Own(e, One("filled"))
  /\ UNCHANGED <<free, state, references, retiring>>

\* Unique::freeze and freeze_pair, Shared::try_clone and try_unique.
Freeze(e, n) ==
  /\ Held(e, "filled")
  /\ references' = [references EXCEPT ![e] = n] /\ Own(e, Shares(n))
  /\ UNCHANGED <<free, state, value, retiring>>
Clone(e) ==
  /\ Held(e, "shared") /\ references[e] < LIMIT
  /\ references' = [references EXCEPT ![e] = @ + 1] /\ Own(e, Shares(owners[e].shares + 1))
  /\ UNCHANGED <<free, state, value, retiring>>
\* Mutant: another owner may remain.
TryUniqueAny(e) ==
  /\ Held(e, "shared") /\ references[e] >= 1
  /\ references' = [references EXCEPT ![e] = 0]
  /\ Own(e, [kind |-> "filled", shares |-> owners[e].shares - 1])
  /\ UNCHANGED <<free, state, value, retiring>>
TryUnique(e) ==
  /\ Held(e, "shared") /\ references[e] = 1
  /\ references' = [references EXCEPT ![e] = 0]
  /\ Own(e, [kind |-> "filled", shares |-> owners[e].shares - 1])
  /\ UNCHANGED <<free, state, value, retiring>>

\* The value's own code runs while the entry is neither owned nor free.
StartRetire(e) == retiring' = Append(retiring, e) /\ Own(e, None)
DropFilled(e) ==
  /\ Held(e, "filled")
  /\ StartRetire(e) /\ UNCHANGED <<free, state, value, references>>
DropShared(e) ==
  /\ Held(e, "shared")
  /\ references' = [references EXCEPT ![e] = @ - 1]
  /\ IF references[e] = 1 THEN StartRetire(e)
     ELSE Own(e, Shares(owners[e].shares - 1)) /\ UNCHANGED retiring
  /\ UNCHANGED <<free, state, value>>

\* Terminal::recycle finds the pool in the word.
FinishRetire ==
  /\ retiring # <<>> /\ state[Last(retiring)] = POOL
  /\ Recycle(Last(retiring))
  /\ value' = [value EXCEPT ![Last(retiring)] = FALSE]
  /\ retiring' = Front(retiring)
  /\ UNCHANGED <<references, owners>>

EntriesNext ==
  \/ Vacancy \/ FinishRetire
  \/ \E e \in Entries :
       \/ DropVacant(e) \/ Reserve(e) \/ DropBlank(e) \/ Begin(e) \/ Clone(e) \/ TryUnique(e)
       \/ DropFilled(e) \/ DropShared(e)
       \/ \E n \in 1..2 : Freeze(e, n)
EntriesSpec == EntriesInit /\ [][EntriesNext]_entriesVars

FreeEntries ==
  LET from[left \in 0..Len(SetToSeq(Entries)), e \in Entries \cup {END, POOL}] ==
        IF left = 0 \/ e \notin Entries THEN <<>> ELSE <<e>> \o from[left - 1, state[e]]
  IN from[Len(SetToSeq(Entries)), free]

\* An entry is free, owned or retiring, never two of them; its word names the
\* pool from the reservation to the last drop; its count is the number of its
\* shares, its value is there exactly while somebody may read it.
EntriesAreLent ==
  /\ IsInjective(FreeEntries \o retiring)
  /\ ToSet(FreeEntries) \cup ToSet(retiring) = {e \in Entries : owners[e] = None}
  /\ ToSet(FreeEntries) \cap ToSet(retiring) = {}
  /\ \A e \in Entries :
       /\ (state[e] = POOL) = (e \in ToSet(retiring) \/ owners[e].kind \in {"blank", "filled", "shared"})
       /\ value[e] = (e \in ToSet(retiring) \/ owners[e].kind \in {"filled", "shared"})
       /\ references[e] = owners[e].shares

-----------------------------------------------------------------------------
(* Each group is one allocation as large as all before it, written into an *)
(* array that was sized for the whole plan and is not checked again.       *)
(* try_take calls the allocator with the pool in hand; the allocator may   *)
(* take, return and grow the pool itself, so a call that waits for it is a *)
(* frame of a stack.  A group's slots are those of BufferPool; here they   *)
(* are counted.                                                            *)

groupsVars == <<plan, room, groups, vacant, allocated, hint, calls>>

BitWidth(n) == Min({w \in 0..n : n < 2^w})

\* Growing::count: the groups a plan may need after a first of warm slots.
Count(slots, warm) ==
  LET shift == BitWidth(slots) - BitWidth(warm)
  IN 1 + shift + (IF warm * 2^shift < slots THEN 1 ELSE 0)

\* Layout::next: as many slots as there are, as far as the plan goes.
NextGroup(used) == IF used = 0 THEN 1 ELSE Min({used, plan - used})

Again == [kind |-> "again"]
Waiting(before, slots) == [kind |-> "allocating", before |-> before, slots |-> slots]
Top == calls[Len(calls)]
InCall(kind) == calls # <<>> /\ Top.kind = kind
Returns == calls' = Front(calls)
Goes(frame) == calls' = Append(Front(calls), frame)

\* try_new starts with one slot, try_warm with as many as it is told.
GroupsInit ==
  /\ plan \in Plans
  /\ hint = 0 /\ calls = <<>>
  /\ IF plan = 0
     THEN room = 0 /\ groups = <<>> /\ vacant = <<>> /\ allocated = 0
     ELSE \E warm \in 1..plan :
            /\ room = Count(plan, warm)
            /\ groups = <<warm>> /\ vacant = <<warm>> /\ allocated = warm

\* try_acquire and try_borrow; the allocator calls the latter.
Call ==
  /\ Len(calls) < MaxDepth
  /\ calls' = Append(calls, Again)
  /\ UNCHANGED <<plan, room, groups, vacant, allocated, hint>>

Open == {g \in DOMAIN vacant : vacant[g] > 0}

\* The group of the hint, else the first with a vacant slot.
TakeVacant ==
  /\ InCall("again") /\ Open # {}
  /\ LET g == IF hint + 1 \in Open THEN hint + 1 ELSE Min(Open)
     IN hint' = g - 1 /\ vacant' = [vacant EXCEPT ![g] = @ - 1]
  /\ Returns
  /\ UNCHANGED <<plan, room, groups, allocated>>

Exhausted ==
  /\ InCall("again") /\ Open = {} /\ allocated = plan
  /\ Returns
  /\ UNCHANGED <<plan, room, groups, vacant, allocated, hint>>

Allocate ==
  /\ InCall("again") /\ Open = {} /\ allocated < plan
  /\ Goes(Waiting(allocated, NextGroup(allocated)))
  /\ UNCHANGED <<plan, room, groups, vacant, allocated, hint>>

AllocateFails ==
  /\ InCall("allocating")
  /\ Returns
  /\ UNCHANGED <<plan, room, groups, vacant, allocated, hint>>

\* Mutant: the pool is not looked at again.
IsStaleNever == FALSE
IsStale == allocated # Top.before

\* The allocator grew the pool meanwhile: the block is dropped with its slot.
Discard ==
  /\ InCall("allocating") /\ IsStale
  /\ Goes(Again)
  /\ UNCHANGED <<plan, room, groups, vacant, allocated, hint>>

Insert ==
  /\ InCall("allocating") /\ ~ IsStale
  /\ groups' = Append(groups, Top.slots)
  /\ vacant' = Append(vacant, Top.slots - 1)
  /\ allocated' = allocated + Top.slots
  /\ hint' = Len(groups)
  /\ Returns
  /\ UNCHANGED <<plan, room>>

\* A span of group g ends.
Release(g) ==
  /\ vacant[g] < groups[g]
  /\ vacant' = [vacant EXCEPT ![g] = @ + 1]
  /\ UNCHANGED <<plan, room, groups, allocated, hint, calls>>

GroupsNext ==
  \/ Call \/ TakeVacant \/ Exhausted
  \/ Allocate \/ AllocateFails \/ Discard \/ Insert
  \/ \E g \in DOMAIN groups : Release(g)

GroupsSpec == GroupsInit /\ [][GroupsNext]_groupsVars

\* The array has a place for every group however calls and allocations nest,
\* the groups together are never more than was planned and all of it once the
\* array is full, and available is the plan less what spans hold.
GroupsFit ==
  LET total == FoldSeq(+, 0, groups)
      lent == [g \in DOMAIN groups |-> groups[g] - vacant[g]] IN
  /\ Len(groups) <= room
  /\ total = allocated /\ allocated <= plan
  /\ Len(groups) = room <=> allocated = plan
  /\ hint \in 0..Len(groups) /\ (groups # <<>> => hint < Len(groups))
  /\ plan - allocated + FoldSeq(+, 0, vacant) = plan - FoldSeq(+, 0, lent)
=============================================================================
