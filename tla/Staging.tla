------------------------------ MODULE Staging ------------------------------
(***************************************************************************)
(* Bounded receive buffers (src/buffer/resident/staging) over the three    *)
(* backings they move between: a slot of the shared warm pool, an exact    *)
(* block of its own with an account table, and a local reference-counted   *)
(* allocation (buffer/bytes/window).  A view retained from a buffer keeps  *)
(* its backing alive and must keep reading the bytes it was taken over,    *)
(* while the buffer goes on consuming, compacting, rotating and growing.   *)
(* Reference counts and account tables are those of BufferPool; here a     *)
(* backing lives while something names it.                                 *)
(***************************************************************************)
EXTENDS Integers, Sequences, FiniteSetsExt, TLC

CONSTANTS Bufs,     \* the connections the layout was made for
          Views,    \* views that can be retained at once
          Blocks,   \* backings; enough that one is always free
          NoBlock,
          Warm,     \* Plan: bytes of a warm slot
          Ceiling,  \* Plan: the most bytes a buffer may hold
          Shared,   \* Layout: warm slots beyond one per buffer, and accounts
          Spare,    \* Layout: the resident reserve
          Modes     \* subset of {"local", "accounted"}, how pools are made

ASSUME StagingAssumption ==
  /\ IsFiniteSet(Bufs) /\ IsFiniteSet(Views) /\ IsFiniteSet(Blocks)
  /\ Cardinality(Blocks) > Cardinality(Bufs) + Cardinality(Views)
  /\ NoBlock \notin Blocks
  /\ Warm \in Nat \ {0} /\ Ceiling \in Nat /\ Warm <= Ceiling
  /\ Shared \in Nat /\ Spare \in Nat
  /\ Modes \subseteq {"local", "accounted"}

VARIABLES mode,   \* how this pool spills beyond a warm slot
          block,  \* each backing: its mode, capacity and cells
          buf,    \* each buffer: backing, head and end of its unread bytes
          view,   \* each retained view: backing, offset, and the bytes it showed
          next    \* ghost: the label of the next byte each buffer receives

stagingVars == <<mode, block, buf, view, next>>

Cells == 0..(Ceiling - 1)
Blank == [i \in Cells |-> <<>>]
Free == [mode |-> "free", cap |-> 0, data |-> Blank]
NoView == [block |-> NoBlock, from |-> 0, bytes |-> <<>>]
Empty == [kind |-> "empty", block |-> NoBlock, head |-> 0, end |-> 0]
Cold == [Empty EXCEPT !.kind = "cold"]
Live(k, head, end) == [kind |-> "live", block |-> k, head |-> head, end |-> end]

\* Bytes are told apart by the buffer that received them and how many it had
\* received before.
Received(b, from, n) == [i \in 1..n |-> <<b, from + i - 1>>]

-----------------------------------------------------------------------------
(* What the program can read of the state.                                 *)

\* State::len less head, and State::capacity.
Size(b) == buf[b].end - buf[b].head
Capacity(b) == IF buf[b].kind = "live" THEN block[buf[b].block].cap ELSE 0

Read(k, from, n) == [i \in 1..n |-> block[k].data[from + i - 1]]
Content(b) == IF Size(b) = 0 THEN <<>> ELSE Read(buf[b].block, buf[b].head, Size(b))

\* A retained view: an edge of the local allocation, or of the account that
\* holds an edge of the slot.
IsShared(k) == \E v \in Views : view[v].block = k
BackingMode(b) == IF buf[b].kind = "live" THEN block[buf[b].block].mode ELSE "none"
IsUnique(b) == ~ IsShared(buf[b].block)

InUse(m) == {k \in Blocks : block[k].mode = m}

\* Layout::new: one warm slot for every buffer and Shared more.
WarmSlots == Cardinality(Bufs) + Shared
HasWarmSlot == Cardinality(InUse("warm")) < WarmSlots

\* Layout::new: every buffer at its ceiling, the warm slots, the reserve.
Budget == Cardinality(Bufs) * Ceiling + WarmSlots * Warm + Spare

\* What a backing holds of the budget: a block of its own its root charge, a
\* pooled slot one more charge while an account is open on it.
Charge(k) ==
  LET own == IF block[k].mode \in {"local", "accounted", "owned"} THEN block[k].cap ELSE 0
      opened == IF block[k].mode \in {"warm", "accounted"} /\ IsShared(k)
                THEN block[k].cap ELSE 0
  IN own + opened
Resident == WarmSlots * Warm + SumFunction([k \in Blocks |-> Charge(k)])
Available == Budget - Resident

-----------------------------------------------------------------------------
(* Sizes of a new backing.                                                 *)

\* Capacity::grow_to: doubled until it suffices, never past the ceiling.
GrowTo(current, required) ==
  Min({c \in required..Ceiling : c = Ceiling \/ \E i \in 0..Ceiling : c = current * 2^i})

\* Buf::growth.
Growth(required, current) == GrowTo(Max({Warm, current}), required)

\* try_allocate, Edit::try_grow and Resize::try_commit: the ideal size when
\* the budget affords it, else what is needed, and what is needed again when
\* the allocator refuses; only what the old backing does not hold is charged.
Sizes(ideal, need, held) ==
  LET first == IF ideal - held <= Available THEN ideal ELSE need
  IN {c \in {first, need} : c - held <= Available}

-----------------------------------------------------------------------------
(* Moving a buffer's bytes.                                                *)

Place(data, at, src) ==
  [i \in Cells |-> IF i \in at..(at + Len(src) - 1) THEN src[i - at + 1] ELSE data[i]]

\* Backings nothing names any more are freed.
Swept(store, bufs, views) ==
  [k \in Blocks |->
     IF (\E b \in Bufs : bufs[b].block = k) \/ (\E v \in Views : views[v].block = k)
     THEN store[k] ELSE Free]

VacantBlock == CHOOSE k \in Blocks : block[k] = Free

Becomes(b, x) ==
  /\ buf' = [buf EXCEPT ![b] = x]
  /\ block' = Swept(block, buf', view)

Receives(b, n) == next' = [next EXCEPT ![b] = @ + n]

\* Span::copy_in, Edit::fresh, Unique::replace, Unique::try_resize: the unread
\* bytes and then n new ones, at the start of another backing.
Move(b, shape, n) ==
  LET bytes == Content(b) \o Received(b, next[b], n)
  IN /\ buf' = [buf EXCEPT ![b] = Live(VacantBlock, 0, Len(bytes))]
     /\ block' = Swept([block EXCEPT ![VacantBlock] =
                          [mode |-> shape.mode, cap |-> shape.cap,
                           data |-> Place(Blank, 0, bytes)]], buf', view)

Shapes(m, sizes) == {[mode |-> m, cap |-> c] : c \in sizes}

\* Backing::try_fresh.
FreshShapes(target) == Shapes(mode, Sizes(target, target, 0))

\* Mutant: the detached block is copied, not grown; both are charged at once.
AccountedShapesAnew(b, target) == FreshShapes(target)

\* Accounts::try_grow when nothing shares the block; a fresh one otherwise.
AccountedShapes(b, target) ==
  IF IsUnique(b) /\ target > Capacity(b)
  THEN Shapes("accounted", Sizes(target, target, Capacity(b)))
  ELSE FreshShapes(target)

\* What Reserve::try_commit can put in place of the backing it has: none when
\* the budget refuses.  ideal and need differ for a local one only.
NextShapes(b, target, ideal, need) ==
  CASE buf[b].kind = "empty" ->
         IF target <= Warm /\ HasWarmSlot
         THEN {[mode |-> "warm", cap |-> Warm]} ELSE FreshShapes(target)
    [] buf[b].kind = "cold" -> Shapes("local", Sizes(target, target, 0))
    [] BackingMode(b) = "warm" -> FreshShapes(target)
    [] BackingMode(b) = "accounted" -> AccountedShapes(b, target)
    [] BackingMode(b) = "local" ->
         Shapes("local", Sizes(ideal, need, IF IsUnique(b) THEN Capacity(b) ELSE 0))

-----------------------------------------------------------------------------
(* Appending.                                                              *)

\* consume::Error::check in write_slice.
Admits(b, n) == n <= Ceiling - Size(b)

FitsSuffix(b, n) == buf[b].kind = "live" /\ n <= Capacity(b) - buf[b].end
FitsBacking(b, n) == buf[b].kind = "live" /\ n <= Capacity(b) - Size(b)

\* Mutant: a shared backing is compacted too.
CompactsAny(b, n) == ~ FitsSuffix(b, n) /\ FitsBacking(b, n)

\* The uniqueness test of Span::try_extend and Edit::try_full.
Compacts(b, n) == ~ FitsSuffix(b, n) /\ FitsBacking(b, n) /\ IsUnique(b)

\* A shared warm slot is left for another one.
Rotates(b, n) ==
  ~ FitsSuffix(b, n) /\ FitsBacking(b, n) /\ ~ IsUnique(b)
  /\ BackingMode(b) = "warm" /\ HasWarmSlot

Spills(b, n) == ~ FitsSuffix(b, n) /\ ~ Compacts(b, n) /\ ~ Rotates(b, n)

\* Buf::append and Edit::try_staged.
SpillShapes(b, n) ==
  LET required == Size(b) + n
      target == Growth(required, Capacity(b))
  IN NextShapes(b, target, IF required <= Capacity(b) THEN Capacity(b) ELSE target, required)

Sendable(b) == {n \in 1..Ceiling : Admits(b, n)}

AppendInPlace(b) ==
  \E n \in Sendable(b) :
    LET k == buf[b].block IN
    /\ FitsSuffix(b, n)
    /\ block' = [block EXCEPT ![k].data =
                   Place(@, buf[b].end, Received(b, next[b], n))]
    /\ buf' = [buf EXCEPT ![b].end = @ + n]
    /\ Receives(b, n)
    /\ UNCHANGED <<mode, view>>

AppendCompacted(b) ==
  \E n \in Sendable(b) :
    LET k == buf[b].block IN
    /\ Compacts(b, n)
    /\ block' = [block EXCEPT ![k].data =
                   Place(@, 0, Content(b) \o Received(b, next[b], n))]
    /\ buf' = [buf EXCEPT ![b] = Live(k, 0, Size(b) + n)]
    /\ Receives(b, n)
    /\ UNCHANGED <<mode, view>>

AppendRotated(b) ==
  \E n \in Sendable(b) :
    /\ Rotates(b, n)
    /\ Move(b, [mode |-> "warm", cap |-> Warm], n)
    /\ Receives(b, n)
    /\ UNCHANGED <<mode, view>>

AppendSpilled(b) ==
  \E n \in Sendable(b) :
    /\ Spills(b, n)
    /\ \E shape \in SpillShapes(b, n) : Move(b, shape, n)
    /\ Receives(b, n)
    /\ UNCHANGED <<mode, view>>

-----------------------------------------------------------------------------
(* Reserving, consuming, clearing.                                         *)

StageShapes(b, target) == NextShapes(b, target, target, target)

\* Buf::try_stage: an empty buffer the budget refuses lets its backing go.
Stage(b, target) ==
  /\ \/ \E shape \in StageShapes(b, target) : Move(b, shape, 0)
     \/ /\ StageShapes(b, target) = {} /\ Size(b) = 0
        /\ Becomes(b, Empty)
  /\ UNCHANGED <<mode, view, next>>

TryReserve(b) == \E target \in (Capacity(b) + 1)..Ceiling : Stage(b, target)

GrowStaging(b) ==
  /\ Size(b) = Capacity(b) /\ Size(b) < Ceiling
  /\ Stage(b, Growth(Size(b) + 1, Size(b)))

\* Buf::advance: a local backing is dropped when it is read to its end.
Advanced(b, n) ==
  LET head == buf[b].head + n
  IN IF BackingMode(b) = "local" /\ head = buf[b].end THEN Cold
     ELSE [buf[b] EXCEPT !.head = head]

Consume(b) ==
  /\ \E n \in 1..Size(b) : Becomes(b, Advanced(b, n))
  /\ UNCHANGED <<mode, view, next>>

Clear(b) ==
  /\ buf[b] # Empty
  /\ Becomes(b, Empty)
  /\ UNCHANGED <<mode, view, next>>

-----------------------------------------------------------------------------
(* Views.                                                                  *)

\* Mutant: an account is opened whatever the table holds.
OpensAlways(k) == Available >= block[k].cap

\* Account::try_bind: the account that is open is shared; otherwise one must be
\* vacant, in the pool's table or in the one-slot block's, and affordable.
OpensView(k) ==
  \/ IsShared(k)
  \/ /\ Available >= block[k].cap
     /\ block[k].mode = "warm" =>
          Cardinality({j \in InUse("warm") : IsShared(j)}) < Shared

\* try_bind found no vacant account.
Copies(k) ==
  /\ block[k].mode = "warm" /\ ~ IsShared(k)
  /\ Cardinality({j \in InUse("warm") : IsShared(j)}) >= Shared

Subrange(b) == {r \in (0..Size(b)) \X (0..Size(b)) : r[1] < r[2]}

\* The view keeps the buffer's backing.
RetainShared(b, v) ==
  /\ buf[b].kind = "live" /\ view[v] = NoView
  /\ LET k == buf[b].block IN
     /\ block[k].mode = "local" \/ OpensView(k)
     /\ \E r \in Subrange(b) :
          view' = [view EXCEPT ![v] =
                     [block |-> k, from |-> buf[b].head + r[1],
                      bytes |-> Read(k, buf[b].head + r[1], r[2] - r[1])]]
  /\ UNCHANGED <<mode, block, buf, next>>

\* storage::Owned::try_from_slice: the view gets a copy of its own.
RetainCopy(b, v) ==
  /\ buf[b].kind = "live" /\ view[v] = NoView
  /\ Copies(buf[b].block)
  /\ \E r \in Subrange(b) :
       LET bytes == Read(buf[b].block, buf[b].head + r[1], r[2] - r[1]) IN
       /\ Len(bytes) <= Available
       /\ view' = [view EXCEPT ![v] = [block |-> VacantBlock, from |-> 0, bytes |-> bytes]]
       /\ block' = [block EXCEPT ![VacantBlock] =
                      [mode |-> "owned", cap |-> Len(bytes),
                       data |-> Place(Blank, 0, bytes)]]
  /\ UNCHANGED <<mode, buf, next>>

DropView(v) ==
  /\ view[v] # NoView
  /\ view' = [view EXCEPT ![v] = NoView]
  /\ block' = Swept(block, buf, view')
  /\ UNCHANGED <<mode, buf, next>>

-----------------------------------------------------------------------------
StagingInit ==
  /\ mode \in Modes
  /\ block = [k \in Blocks |-> Free]
  /\ buf = [b \in Bufs |-> Empty]
  /\ view = [v \in Views |-> NoView]
  /\ next = [b \in Bufs |-> 0]

StagingNext ==
  \/ \E b \in Bufs :
       \/ AppendInPlace(b) \/ AppendCompacted(b) \/ AppendRotated(b)
       \/ AppendSpilled(b) \/ TryReserve(b) \/ GrowStaging(b)
       \/ Consume(b) \/ Clear(b)
  \/ \E b \in Bufs, v \in Views : RetainShared(b, v) \/ RetainCopy(b, v)
  \/ \E v \in Views : DropView(v)

StagingSpec == StagingInit /\ [][StagingNext]_stagingVars

\* What a buffer and a view must read: the last bytes received, and the bytes
\* the view was taken over.
IsKept(b) == Content(b) = Received(b, next[b] - Size(b), Size(b))
IsIntact(v) == view[v] # NoView =>
  Read(view[v].block, view[v].from, Len(view[v].bytes)) = view[v].bytes

\* The bound of the run: three buffers and views are in use at once.
InHand == {b \in Bufs : buf[b] # Empty} \cup {v \in Views : view[v] # NoView}
FewInHand == Cardinality(InHand) <= 3

\* Which buffer or view it is tells no two states apart.
StagingSymmetry == Permutations(Bufs) \cup Permutations(Views)

\* What can be told: which byte it is cannot while every byte is the right
\* one, and a backing is known by its mode, its capacity and those that name it.
Shown(k) ==
  IF k = NoBlock THEN <<>>
  ELSE <<block[k].mode, block[k].cap,
         {b \in Bufs : buf[b].block = k}, {v \in Views : view[v].block = k}>>
Legible ==
  <<mode,
    [b \in Bufs |-> <<buf[b].kind, buf[b].head, buf[b].end, Shown(buf[b].block), IsKept(b)>>],
    [v \in Views |-> <<Shown(view[v].block), view[v].from, Len(view[v].bytes), IsIntact(v)>>]>>

-----------------------------------------------------------------------------
(* Properties.                                                             *)

Byte == Bufs \X Nat
Backing == [mode : {"free", "warm", "accounted", "local", "owned"}, cap : 0..Ceiling,
            data : [Cells -> Byte \cup {<<>>}]]
Unread == [kind : {"empty", "cold", "live"}, block : Blocks \cup {NoBlock},
           head : 0..Ceiling, end : 0..Ceiling]
Retained == [block : Blocks \cup {NoBlock}, from : 0..Ceiling, bytes : Seq(Byte)]

\* Every backing is one of the four and within the ceiling, and every buffer
\* and view stays inside the backing it names.
StagingTypeOK ==
  /\ mode \in {"local", "accounted"}
  /\ block \in [Blocks -> Backing] /\ buf \in [Bufs -> Unread] /\ view \in [Views -> Retained]
  /\ next \in [Bufs -> Nat]
  /\ \A k \in Blocks : block[k] = Free \/ (block[k].mode # "free" /\ block[k].cap > 0)
  /\ \A b \in Bufs :
       /\ IF buf[b].kind = "live" THEN buf[b].block \in Blocks /\ block[buf[b].block].mode # "free"
          ELSE buf[b] \in {Empty, Cold}
       /\ buf[b].head <= buf[b].end /\ buf[b].end <= Capacity(b)
  /\ \A v \in Views :
       view[v] # NoView =>
         /\ view[v].block \in Blocks /\ block[view[v].block].mode # "free"
         /\ view[v].from + Len(view[v].bytes) <= block[view[v].block].cap

\* Bytes leave a buffer in the order they came, none lost and none twice, and
\* a retained view reads for ever what it was taken over, however the buffer
\* is compacted, rotated, grown or cleared meanwhile; neither reaches out of the
\* backing it names (hold::raw::Retain: "the immutable view retains the same
\* backing range or copies those exact bytes").
BytesAreKept ==
  /\ StagingTypeOK
  /\ \A b \in Bufs : IsKept(b)
  /\ \A v \in Views : IsIntact(v)

\* Layout::new sets one warm slot aside for every buffer beyond those that
\* accounts can pin, so a buffer that has no backing, or shares the slot it
\* has, always finds one.
WarmIsReserved ==
  \A b \in Bufs :
    buf[b].kind = "empty" \/ (BackingMode(b) = "warm" /\ ~ IsUnique(b)) => HasWarmSlot

\* Layout::resident covers every buffer at its ceiling: while what views hold
\* stays within the reserve, no append within the ceiling and no reservation
\* is refused by the budget.
HeldByViews == SumFunction([k \in Blocks |-> IF IsShared(k) THEN Charge(k) ELSE 0])
CeilingIsReserved ==
  HeldByViews <= Spare =>
    \A b \in Bufs :
      /\ \A n \in Sendable(b) : Spills(b, n) => SpillShapes(b, n) # {}
      /\ \A target \in (Capacity(b) + 1)..Ceiling : StageShapes(b, target) # {}
=============================================================================
