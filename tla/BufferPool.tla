----------------------------- MODULE BufferPool -----------------------------
(***************************************************************************)
(* Buffer pools (src/buffer/pool) and the resident accounting built into   *)
(* them (pool/owners/account.rs, resident/domain).                         *)
(* A core is one allocation: a header, slots and, when it is accounted, a  *)
(* table of accounts.  Pool, Span, Edge and Registered are the handles a   *)
(* program holds; the core has no count of its own and is freed by whoever *)
(* finds every slot vacant and the pool detached.  One word serves two     *)
(* purposes in both tables: link is the next vacant slot, or the account   *)
(* of a live one; word is the next vacant account, or the slot of a live   *)
(* one.                                                                    *)
(***************************************************************************)
EXTENDS Integers, FiniteSetsExt, TLC

CONSTANTS Cores,      \* allocations that can exist at once
          Handles,    \* handles a program can hold at once
          Domains,    \* resident domains of one region
          NoDomain,   \* a plain core, an account without a charge
          SlotCounts, \* slots of a pool
          Caps,       \* bytes of a slot
          Tallies,    \* accounts of an accounted pool
          Limits,     \* capacities of a domain
          MaxRefs     \* u32::MAX, the largest edge count

ASSUME PoolAssumption ==
  /\ IsFiniteSet(Cores) /\ IsFiniteSet(Handles) /\ IsFiniteSet(Domains)
  /\ NoDomain \notin Domains
  /\ SlotCounts \subseteq Nat /\ Tallies \subseteq Nat /\ Limits \subseteq Nat
  /\ Caps \subseteq Nat \ {0}
  /\ MaxRefs \in Nat \ {0, 1}

VARIABLES core,      \* each allocation's header, slots and accounts
          handle,    \* what each handle is and the slot or account it names
          resident,  \* bytes charged to each domain
          limit,     \* each domain's capacity
          lost       \* ghost: handles the program forgot without dropping

vars == <<core, handle, resident, limit, lost>>

NoKey == -1
\* Memory no pool occupies.
Gone == [cap |-> 0]
Nothing == [kind |-> "none"]

-----------------------------------------------------------------------------
(* One core.                                                               *)

Keys(n) == 0..(n - 1)
Chain(n) == [i \in Keys(n) |-> IF i + 1 = n THEN NoKey ELSE i + 1]
First(n) == IF n = 0 THEN NoKey ELSE 0

\* Header::new, Slot::initialize and Accounts::initialize.
NewCore(slots, cap, accounts, d, charge) ==
  [cap |-> cap, slots |-> slots, detached |-> FALSE,
   free |-> First(slots), available |-> slots,
   refs |-> [i \in Keys(slots) |-> 0], link |-> Chain(slots),
   root |-> d, charged |-> charge,
   afree |-> First(accounts),
   arefs |-> [i \in Keys(accounts) |-> 0], word |-> Chain(accounts),
   owed |-> [i \in Keys(accounts) |-> NoDomain]]

\* Claim::take.
Claimed(k) ==
  [k EXCEPT !.free = k.link[k.free], !.link[k.free] = NoKey,
            !.refs[k.free] = 1, !.available = @ - 1]

\* Mutant: any edge that ends gives the slot back.
ReleasedAtOnce(k, s) ==
  [k EXCEPT !.refs[s] = @ - 1, !.link[s] = k.free, !.free = s, !.available = @ + 1]

\* Active::release, Edge::release_raw and Retired::finish up to the retirement.
SlotReleased(k, s) ==
  IF k.refs[s] > 1
  THEN [k EXCEPT !.refs[s] = @ - 1]
  ELSE [k EXCEPT !.refs[s] = 0, !.link[s] = k.free, !.free = s,
                 !.available = @ + 1]

\* Mutant: the slot keeps naming the account that ended.
AccountClosedLinked(k, a) ==
  SlotReleased([k EXCEPT !.arefs[a] = 0, !.owed[a] = NoDomain,
                         !.word[a] = k.afree, !.afree = a], k.word[a])

\* Account::destroy: the slot is unlinked before its own edge is released.
AccountClosed(k, a) ==
  SlotReleased([k EXCEPT !.arefs[a] = 0, !.owed[a] = NoDomain,
                         !.link[k.word[a]] = NoKey,
                         !.word[a] = k.afree, !.afree = a], k.word[a])

\* Claim::activate and Vacant::insert.
AccountOpened(k, s, d) ==
  [k EXCEPT !.afree = k.word[k.afree], !.owed[k.afree] = d,
            !.word[k.afree] = s, !.arefs[k.afree] = 1, !.link[s] = k.afree]

\* Mutant: the pool handle is not waited for.
EmptyOnly(k) == k.available = k.slots

\* The test of Header::retire.
Retires(k) == k.available = k.slots /\ k.detached

-----------------------------------------------------------------------------
(* The domains.                                                            *)

Affords(d, n) == n <= limit[d] - resident[d]
Charged(r, d, n) == [r EXCEPT ![d] = @ + n]
Refunded(r, d, n) == IF d = NoDomain THEN r ELSE [r EXCEPT ![d] = @ - n]

\* Header::retire: the core is freed, its root charge refunded.
Retire(c, k, r) ==
  /\ core' = [core EXCEPT ![c] = IF Retires(k) THEN Gone ELSE k]
  /\ resident' = IF Retires(k) THEN Refunded(r, k.root, k.charged) ELSE r

-----------------------------------------------------------------------------
(* Handles.                                                                *)

Held(h, kinds) == handle[h].kind \in kinds /\ h \notin lost
Vacant(h) == handle[h].kind = "none"
To(kind, c, i) == [kind |-> kind, core |-> c, key |-> i]
Gives(h, x) == handle' = [handle EXCEPT ![h] = x]

\* Pool::try_new and Pool::try_account.
NewPool(h, c, slots, cap, accounts, d) ==
  LET bytes == IF d = NoDomain THEN 0 ELSE slots * cap IN
  /\ Vacant(h) /\ core[c] = Gone
  /\ IF d = NoDomain
     THEN accounts = 0 /\ UNCHANGED resident
     ELSE Affords(d, bytes) /\ resident' = Charged(resident, d, bytes)
  /\ core' = [core EXCEPT ![c] = NewCore(slots, cap, accounts, d, bytes)]
  /\ Gives(h, To("pool", c, NoKey))
  /\ UNCHANGED <<limit, lost>>

\* Block::try_new when the allocator refuses: the charge is dropped again.
NewPoolFails(slots, cap, d) ==
  LET bytes == slots * cap IN
  /\ Affords(d, bytes)
  /\ resident' = Refunded(Charged(resident, d, bytes), d, bytes)
  /\ UNCHANGED <<core, handle, limit, lost>>

\* Span::from_seed: a block of one slot without a pool handle.
Seed(h, c, cap, accounts, d) ==
  LET bytes == IF d = NoDomain THEN 0 ELSE cap
      k == NewCore(1, cap, accounts, d, bytes) IN
  /\ Vacant(h) /\ core[c] = Gone
  /\ IF d = NoDomain
     THEN accounts = 0 /\ UNCHANGED resident
     ELSE accounts = 1 /\ Affords(d, bytes) /\ resident' = Charged(resident, d, bytes)
  /\ core' = [core EXCEPT ![c] = [Claimed(k) EXCEPT !.detached = TRUE]]
  /\ Gives(h, To("span", c, 0))
  /\ UNCHANGED <<limit, lost>>

\* Pool::acquire and Pool::borrow.
Acquire(p, h) ==
  LET c == handle[p].core
      k == core[c] IN
  /\ Held(p, {"pool"}) /\ Vacant(h)
  /\ k.free # NoKey
  /\ core' = [core EXCEPT ![c] = Claimed(k)]
  /\ Gives(h, To("span", c, k.free))
  /\ UNCHANGED <<resident, limit, lost>>

\* Pool::drop.
DropPool(p) ==
  LET c == handle[p].core IN
  /\ Held(p, {"pool"})
  /\ Retire(c, [core[c] EXCEPT !.detached = TRUE], resident)
  /\ Gives(p, Nothing)
  /\ UNCHANGED <<limit, lost>>

\* Span::into_edge and Span::freeze: the edge changes hands, not the count.
IntoEdge(h) ==
  /\ Held(h, {"span"})
  /\ Gives(h, [handle[h] EXCEPT !.kind = "edge"])
  /\ UNCHANGED <<core, resident, limit, lost>>

\* Mutant: a slot still being written is shared.
RetainLive(h, g) ==
  /\ Held(h, {"span", "edge"}) /\ Vacant(g)
  /\ core[handle[h].core].refs[handle[h].key] < MaxRefs
  /\ core' = [core EXCEPT ![handle[h].core].refs[handle[h].key] = @ + 1]
  /\ Gives(g, handle[h])
  /\ UNCHANGED <<resident, limit, lost>>

\* Edge::try_retain.
RetainEdge(h, g) ==
  LET c == handle[h].core
      s == handle[h].key IN
  /\ Held(h, {"edge"}) /\ Vacant(g)
  /\ core[c].refs[s] < MaxRefs
  /\ core' = [core EXCEPT ![c].refs[s] = @ + 1]
  /\ Gives(g, handle[h])
  /\ UNCHANGED <<resident, limit, lost>>

\* Span::drop and Edge::drop.
DropSlot(h) ==
  LET c == handle[h].core IN
  /\ Held(h, {"span", "edge"})
  /\ Retire(c, SlotReleased(core[c], handle[h].key), resident)
  /\ Gives(h, Nothing)
  /\ UNCHANGED <<limit, lost>>

-----------------------------------------------------------------------------
(* Accounts.                                                               *)

\* Account::try_bind on a slot that has an account: one edge more, if the
\* account is charged to the domain that asks.
BindAgain(h, g, d) ==
  LET c == handle[h].core
      a == core[c].link[handle[h].key] IN
  /\ Held(h, {"span"}) /\ Vacant(g) /\ core[c].root # NoDomain
  /\ a # NoKey /\ core[c].owed[a] = d
  /\ core[c].arefs[a] < MaxRefs
  /\ core' = [core EXCEPT ![c].arefs[a] = @ + 1]
  /\ Gives(g, To("reg", c, a))
  /\ UNCHANGED <<resident, limit, lost>>

\* Account::try_bind on a slot without one: the next vacant account is
\* claimed, charged and given an edge of the slot.  The edge cannot fail:
\* nothing but this span uses a slot without an account (SpansAreSole).
Bind(h, g, d) ==
  LET c == handle[h].core
      s == handle[h].key
      k == core[c] IN
  /\ Held(h, {"span"}) /\ Vacant(g) /\ k.root # NoDomain
  /\ k.link[s] = NoKey /\ k.afree # NoKey
  /\ Affords(d, k.cap) /\ k.refs[s] < MaxRefs
  /\ resident' = Charged(resident, d, k.cap)
  /\ core' = [core EXCEPT ![c] = AccountOpened([k EXCEPT !.refs[s] = @ + 1], s, d)]
  /\ Gives(g, To("reg", c, k.afree))
  /\ UNCHANGED <<limit, lost>>

\* Registered::try_retain.
RetainAccount(h, g) ==
  LET c == handle[h].core
      a == handle[h].key IN
  /\ Held(h, {"reg"}) /\ Vacant(g)
  /\ core[c].arefs[a] < MaxRefs
  /\ core' = [core EXCEPT ![c].arefs[a] = @ + 1]
  /\ Gives(g, handle[h])
  /\ UNCHANGED <<resident, limit, lost>>

\* Owner::drop and, for the last edge, Account::destroy.
DropAccount(h) ==
  LET c == handle[h].core
      a == handle[h].key
      k == core[c] IN
  /\ Held(h, {"reg"})
  /\ IF k.arefs[a] > 1
     THEN core' = [core EXCEPT ![c].arefs[a] = @ - 1] /\ UNCHANGED resident
     ELSE Retire(c, AccountClosed(k, a), Refunded(resident, k.owed[a], k.cap))
  /\ Gives(h, Nothing)
  /\ UNCHANGED <<limit, lost>>

\* Mutant: a slot someone else still reads is given up.
ShapeGrows(k, s, cap) ==
  /\ k.root # NoDomain /\ cap > k.cap
  /\ k.slots = 1 /\ k.detached

\* The guard of Accounts::try_grow.
MayGrow(k, s, cap) ==
  /\ k.root # NoDomain /\ cap > k.cap
  /\ k.slots = 1 /\ k.detached /\ k.refs[s] = 1

\* Accounts::try_grow: the root charge moves to a larger block, the old one
\* is deallocated without being refunded.
TryGrow(h, c2, cap) ==
  LET c == handle[h].core
      k == core[c]
      fresh == Claimed(NewCore(1, cap, 1, k.root, cap)) IN
  /\ Held(h, {"span"}) /\ core[c2] = Gone
  /\ MayGrow(k, handle[h].key, cap)
  /\ Affords(k.root, cap - k.charged)
  /\ resident' = Charged(resident, k.root, cap - k.charged)
  /\ core' = [core EXCEPT ![c] = Gone, ![c2] = [fresh EXCEPT !.detached = TRUE]]
  /\ Gives(h, To("span", c2, 0))
  /\ UNCHANGED <<limit, lost>>

\* Accounts::try_grow when the allocator refuses: the root is truncated to
\* the capacity it covered before.
TryGrowFails(h, cap) ==
  LET k == core[handle[h].core] IN
  /\ Held(h, {"span"})
  /\ MayGrow(k, handle[h].key, cap)
  /\ Affords(k.root, cap - k.charged)
  /\ resident' = Refunded(Charged(resident, k.root, cap - k.charged), k.root, cap - k.cap)
  /\ core' = [core EXCEPT ![handle[h].core].charged = k.cap]
  /\ UNCHANGED <<handle, limit, lost>>

-----------------------------------------------------------------------------
(* The region.                                                             *)

\* mem::forget of any handle.
Forget(h) ==
  /\ handle[h].kind # "none" /\ h \notin lost
  /\ lost' = lost \cup {h}
  /\ UNCHANGED <<core, handle, resident, limit>>

\* 'd has ended: handles of accounted cores were dropped or forgotten.
RegionIsOver ==
  \A h \in {g \in Handles \ lost : handle[g].kind # "none"} : core[handle[h].core].root = NoDomain

\* Domain::try_budget.
Rebudget(d, n) ==
  /\ RegionIsOver
  /\ resident[d] = 0
  /\ limit' = [limit EXCEPT ![d] = n]
  /\ UNCHANGED <<core, handle, resident, lost>>

Init ==
  /\ core = [c \in Cores |-> Gone]
  /\ handle = [h \in Handles |-> Nothing]
  /\ resident = [d \in Domains |-> 0]
  /\ limit \in [Domains -> Limits]
  /\ lost = {}

NextPool ==
  \/ \E h \in Handles, c \in Cores, n \in SlotCounts, cap \in Caps,
        t \in Tallies, d \in Domains \cup {NoDomain} : NewPool(h, c, n, cap, t, d)
  \/ \E n \in SlotCounts, cap \in Caps, d \in Domains : NewPoolFails(n, cap, d)
  \/ \E h \in Handles, c \in Cores, cap \in Caps, t \in Tallies,
        d \in Domains \cup {NoDomain} : Seed(h, c, cap, t, d)
  \/ \E p, h \in Handles : Acquire(p, h)
  \/ \E h \in Handles : DropPool(h) \/ IntoEdge(h) \/ DropSlot(h) \/ Forget(h)
  \/ \E h, g \in Handles : RetainEdge(h, g)

NextAccount ==
  \/ \E h, g \in Handles, d \in Domains : BindAgain(h, g, d) \/ Bind(h, g, d)
  \/ \E h, g \in Handles : RetainAccount(h, g)
  \/ \E h \in Handles : DropAccount(h)
  \/ \E h \in Handles, c \in Cores, cap \in Caps : TryGrow(h, c, cap)
  \/ \E h \in Handles, cap \in Caps : TryGrowFails(h, cap)
  \/ \E d \in Domains, n \in Limits : Rebudget(d, n)

Next == NextPool \/ NextAccount

Spec == Init /\ [][Next]_vars

-----------------------------------------------------------------------------
(* What holds of every reachable state.                                    *)

Alive == {c \in Cores : core[c] # Gone}
Users(kinds, c, i) ==
  {h \in Handles : /\ handle[h].kind \in kinds
                   /\ handle[h].core = c /\ handle[h].key = i}
OpenAccounts(k) == {a \in DOMAIN k.arefs : k.arefs[a] > 0}

CoreTypeOK(k) ==
  LET slots == Keys(k.slots)
      accounts == DOMAIN k.arefs IN
  /\ k.free \in slots \cup {NoKey} /\ k.available \in 0..k.slots
  /\ k.refs \in [slots -> 0..MaxRefs]
  /\ k.link \in [slots -> slots \cup accounts \cup {NoKey}]
  /\ k.afree \in accounts \cup {NoKey}
  /\ k.arefs \in [accounts -> 0..MaxRefs]
  /\ k.word \in [accounts -> slots \cup accounts \cup {NoKey}]
  /\ k.owed \in [accounts -> Domains \cup {NoDomain}]

\* Every word holds a key of its own table, and no counter leaves its range.
TypeOK ==
  /\ \A c \in Alive : CoreTypeOK(core[c])
  /\ resident \in [Domains -> Nat]
  /\ limit \in [Domains -> Nat]
  /\ lost \subseteq Handles

\* A slot's count is exactly its spans, edges and, if it is retained through
\* an account, one for the account; an account's count is its registrations.
EdgesAreCounted ==
  \A c \in Alive :
    LET k == core[c] IN
    /\ \A s \in DOMAIN k.refs :
         k.refs[s] = Cardinality(Users({"span", "edge"}, c, s))
                     + Cardinality({a \in OpenAccounts(k) : k.word[a] = s})
    /\ \A a \in DOMAIN k.arefs :
         k.arefs[a] = Cardinality(Users({"reg"}, c, a))

\* A span is its slot's only user but for one account, so writing past its
\* length disturbs no one and try_bind finds room for the account's edge.
SpansAreSole ==
  \A h \in Handles :
    handle[h].kind = "span" =>
      LET k == core[handle[h].core]
          s == handle[h].key IN
      k.refs[s] = IF k.link[s] = NoKey THEN 1 ELSE 2

\* A slot and an account name each other or neither names the other: no two
\* accounts charge for one slot, and none outlives it (Account::destroy).
LinksAreMutual ==
  \A c \in Alive :
    LET k == core[c] IN
    /\ \A a \in OpenAccounts(k) :
         /\ k.word[a] \in DOMAIN k.refs /\ k.link[k.word[a]] = a
         /\ k.refs[k.word[a]] > 0 /\ k.owed[a] \in Domains
    /\ \A s \in DOMAIN k.refs :
         k.refs[s] > 0 /\ k.link[s] # NoKey =>
           k.link[s] \in OpenAccounts(k) /\ k.word[k.link[s]] = s

\* Every word names an entry of its table, and what counts, links and words
\* say of a slot is the same at every moment.
TablesAgree == TypeOK /\ EdgesAreCounted /\ LinksAreMutual

\* The vacant entries of a table, followed from the head, at most n of them.
Walk(head, next, n) ==
  LET at[i \in 0..n] == IF i = 0 THEN head
                        ELSE IF at[i - 1] \in DOMAIN next THEN next[at[i - 1]] ELSE NoKey
  IN at
Lists(head, next, vacant) ==
  LET n == Cardinality(vacant)
      w == Walk(head, next, n) IN
  /\ {w[i] : i \in 0..(n - 1)} = vacant
  /\ w[n] = NoKey

\* The free lists run through the vacant slots and accounts, each once, and
\* available counts the vacant slots: nothing live can be handed out, and
\* nothing vacant is out of reach.
FreeListsAreExact ==
  \A c \in Alive :
    LET k == core[c]
        vacant == {s \in DOMAIN k.refs : k.refs[s] = 0} IN
    /\ Lists(k.free, k.link, vacant)
    /\ k.available = Cardinality(vacant)
    /\ Lists(k.afree, k.word, DOMAIN k.arefs \ OpenAccounts(k))

\* A core lives exactly as long as a handle names it (Header::retire): none
\* is used after it was freed, and none stays when its last user is gone.
FreedWithItsLastUser ==
  \A c \in Cores :
    core[c] # Gone <=> \E h \in Handles : handle[h].kind # "none" /\ handle[h].core = c

\* What a domain shows as resident is what live cores and open accounts were
\* charged, the root of a core for all its slots, and never more than its
\* capacity (Budget::resident, available).
AccountBytes(k, d) == k.cap * Cardinality({a \in OpenAccounts(k) : k.owed[a] = d})
CoreBytes(k, d) ==
  IF k = Gone THEN 0 ELSE (IF k.root = d THEN k.charged ELSE 0) + AccountBytes(k, d)
ResidentIsExact ==
  /\ \A c \in {e \in Alive : core[e].root # NoDomain} :
       core[c].charged = core[c].slots * core[c].cap
  /\ \A d \in Domains :
       /\ resident[d] = SumFunction([c \in Cores |-> CoreBytes(core[c], d)])
       /\ resident[d] <= limit[d]

(* Scopes for model checking *)

\* Two scopes in one space; a state that lies in neither is not continued.
\* Tables: one allocation with three slots or two, five handles on it, one
\* domain with room for everything; counts of at most two edges, so that
\* retaining is refused. Domains: three handles, two accounted blocks that grow
\* from the one into the other, two domains whose capacities do not cover
\* everything asked for.
Plenty   == 5
Charging == UNION {{core[c].root} \cup {core[c].owed[a] : a \in DOMAIN core[c].owed} : c \in Alive}
              \ {NoDomain}
TablesScope ==
  /\ Cardinality(Alive) <= 1 /\ Cardinality(Charging) <= 1
  /\ \A d \in Domains : limit[d] = Plenty
  /\ \A c \in Alive : core[c].cap = 1 /\ DOMAIN core[c].owed \in {{}, {0, 1}}
DomainsScope ==
  /\ Cardinality({h \in Handles : handle[h] # Nothing}) <= 3
  /\ \A c \in Alive :
       /\ core[c].slots \in {1, 2}
       /\ core[c].root # NoDomain /\ DOMAIN core[c].owed = {0}
Scope == TablesScope \/ DomainsScope

\* Handles, allocations and domains are interchangeable: of the handles only
\* how many there are of each kind can make a difference later on.
Symmetry == Permutations(Cores) \cup Permutations(Domains)
Holds(h) == <<handle[h], h \in lost>>
Interchanged ==
  <<core, resident, limit,
    [x \in {Holds(h) : h \in Handles} |-> Cardinality({h \in Handles : Holds(h) = x})]>>
=============================================================================
