------------------------------ MODULE PlaneSet ------------------------------
(***************************************************************************)
(* Indexed entries linked in several planes of lists at once, with a timer *)
(* heap and a group of records for each (src/depot/queue/indexed/planes).  *)
(* Entries, heap and records have sizes of their own, and indices of one   *)
(* are used in the others unchecked.  A scope brands the indices below the *)
(* limit as keys, and a resident key says there is a value as well; what   *)
(* the heap orders is IndexedHeap's concern, here it is a set of indices.  *)
(***************************************************************************)
EXTENDS Hooks, SequencesExt, TLC

CONSTANTS Limits,     \* the capacities the program asks for
          Planes, Excluded,
          TOP, N      \* words of the records; the records of a group

VARIABLES size,       \* entries
          hook, chain, count,
          value,      \* the entries with a value
          timer,      \* the heap: its capacity and the indices armed
          limit,      \* the capacity of the records
          records,    \* rows in buckets
          scope       \* what the program holds: phase, resident keys, entry

vars == <<size, hook, chain, count, value, timer, limit, records, scope>>

Most == CHOOSE m \in Limits : \A l \in Limits : l <= m
Nodes == 0..(Most - 1)
Entries == 0..(size - 1)

Tagged == INSTANCE Hooks WITH END <- TOP
\* Rows::count and Buckets::count.
Rows(l) == l * N
Buckets(l) == IF l = 1 THEN 1 ELSE 2
Empty(l) == Tagged!TagPlane(Rows(l), Buckets(l))
Group(i) == (i * N)..(i * N + N - 1)

NoScope == [phase |-> "none", keys |-> {}, entry |-> END]
Outside == scope = NoScope
Active == scope.phase = "active"
Resident == scope.phase = "resident"

Here(p) == [hook |-> hook[p], chain |-> chain[p], count |-> count[p]]
In(p, i) == IsLinked(hook[p], i)
Appended(at, i) == Pushed(at.hook, at.chain, i) @@ [count |-> at.count + 1]
Removed(out, n, i) == [hook |-> Idled(out.hook, i), chain |-> out.chain, count |-> n - 1]
Idle(at, i) == Removed(Unlinked(at.hook, at.chain, i), at.count, i)
Fronted(at) == Removed(Popped(at.hook, at.chain), at.count, at.chain.first)
Change(p, at) == /\ hook' = [hook EXCEPT ![p] = at.hook]
                 /\ chain' = [chain EXCEPT ![p] = at.chain]
                 /\ count' = [count EXCEPT ![p] = at.count]
Lists == <<hook, chain, count>>

\* Core::clear, all hooks vacant again, and link_prefix.
Prefix(n) ==
  LET linked[m \in 0..n] ==
        IF m = 0
        THEN [hook |-> [previous |-> [i \in Nodes |-> i], next |-> [i \in Nodes |-> END]],
              chain |-> EmptyChain, count |-> 0]
        ELSE Appended(linked[m - 1], m - 1)
  IN linked[n]

\* Set::try_seed_in and try_from.
Init ==
  /\ size \in Limits /\ limit = size
  /\ LET at == [p \in Planes |-> Prefix(IF p = Excluded THEN size ELSE 0)]
     IN /\ hook = [p \in Planes |-> at[p].hook]
        /\ chain = [p \in Planes |-> at[p].chain]
        /\ count = [p \in Planes |-> at[p].count]
  /\ value = {}
  /\ timer = [capacity |-> size, armed |-> {}]
  /\ records = Empty(size)
  /\ scope = NoScope

-----------------------------------------------------------------------------
(* The set.                                                                *)

\* State::link_back and unlink of an entry.
Link(p, i) == Change(p, IF In(p, i) THEN Here(p) ELSE Appended(Here(p), i))
Leave(p, i) == Change(p, IF In(p, i) THEN Idle(Here(p), i) ELSE Here(p))
Else == UNCHANGED <<size, value, timer, limit, records, scope>>

LinkBack(p, i) == Outside /\ Link(p, i) /\ Else
Unlink(p, i) == Outside /\ Leave(p, i) /\ Else

\* front_entry, then move_to_back or pop.
MoveToBack(p) ==
  LET i == chain[p].first IN
  /\ Outside /\ i # END
  /\ Change(p, Appended(Popped(hook[p], chain[p]) @@ [count |-> count[p] - 1], i))
  /\ Else
Pop(p) == Outside /\ chain[p].first # END /\ Change(p, Fronted(Here(p))) /\ Else

\* Set::clear.
Clear(p) == Outside /\ Change(p, Prefix(0)) /\ Else

\* Set::first: the first timer is taken.
FirstTimer(i) ==
  /\ Outside /\ i \in timer.armed
  /\ timer' = [timer EXCEPT !.armed = @ \ {i}]
  /\ UNCHANGED <<size, Lists, value, limit, records, scope>>

\* Mutant: the entries grow, and the heap stays as it was.
GrowEntries(l) == size' = (IF l > size THEN l ELSE size) /\ UNCHANGED timer
\* Core::grow_with: the heap is made before the entries grow, and takes over
\* every timer; a set that is large enough stays as it is.
Grow(l) ==
  IF l <= size THEN UNCHANGED <<size, timer>>
  ELSE size' = l /\ timer' = [timer EXCEPT !.capacity = l]
\* Set::try_replace, and the closure it returns, if it is called.
Replace(l) ==
  /\ Outside /\ Grow(l)
  /\ Change(Excluded, Prefix(l))
  /\ limit' = l /\ records' = Empty(l)
  /\ UNCHANGED <<value, scope>>
ReplaceUncalled(l) ==
  Outside /\ Grow(l) /\ UNCHANGED <<Lists, value, limit, records, scope>>

-----------------------------------------------------------------------------
(* Scopes.                                                                 *)

\* Scope::with and split; the scope ends.
Open == /\ Outside /\ scope' = [NoScope EXCEPT !.phase = "active"]
        /\ UNCHANGED <<size, Lists, value, timer, limit, records>>
Close == /\ ~ Outside /\ scope' = NoScope
         /\ UNCHANGED <<size, Lists, value, timer, limit, records>>

\* bound::Scope::resolve.
Resolved(i) == i < limit

\* bound::Scope::entry: the value is the program's to take.
ActiveTake(i) ==
  /\ Active /\ Resolved(i) /\ value' = value \ {i}
  /\ UNCHANGED <<size, Lists, timer, limit, records, scope>>
\* bound::Scope::front_entry and pop: no key, no entry.
ActivePop(p) ==
  /\ Active /\ chain[p].first # END /\ Resolved(chain[p].first)
  /\ Change(p, Fronted(Here(p))) /\ Else
\* install.
Install(i) ==
  /\ Active /\ Resolved(i)
  /\ value' = value \cup {i}
  /\ scope' = [phase |-> "resident", keys |-> {i}, entry |-> END]
  /\ UNCHANGED <<size, Lists, timer, limit, records>>
ToResident ==
  /\ Active /\ scope' = [scope EXCEPT !.phase = "resident"]
  /\ UNCHANGED <<size, Lists, value, timer, limit, records>>

\* Mutant: an index below the limit is admitted without a look at its value.
AdmitAny(i) ==
  /\ Resident /\ Resolved(i)
  /\ scope' = [scope EXCEPT !.keys = @ \cup {i}]
  /\ UNCHANGED <<size, Lists, value, timer, limit, records>>
\* resident::Scope::admit and front.
Admit(i) ==
  /\ Resident /\ Resolved(i) /\ i \in value
  /\ scope' = [scope EXCEPT !.keys = @ \cup {i}]
  /\ UNCHANGED <<size, Lists, value, timer, limit, records>>

\* resident::Entry, of a key or of the front, in every plane but one.
ResidentLink(p, i) ==
  /\ Resident /\ i \in scope.keys /\ p # Excluded
  /\ Link(p, i) \/ Leave(p, i)
  /\ Else
ResidentPop(p) ==
  LET i == chain[p].first IN
  /\ Resident /\ p # Excluded /\ i # END /\ Resolved(i) /\ i \in value
  /\ Change(p, Fronted(Here(p)))
  /\ scope' = [scope EXCEPT !.keys = @ \cup {i}]
  /\ UNCHANGED <<size, value, timer, limit, records>>
Holds(i) == (Active /\ Resolved(i)) \/ (Resident /\ i \in scope.keys)
\* select: the timer of a key is set or taken.
SetTimer(i) ==
  /\ Holds(i)
  /\ timer' \in {[timer EXCEPT !.armed = @ \cup {i}], [timer EXCEPT !.armed = @ \ {i}]}
  /\ UNCHANGED <<size, Lists, value, limit, records, scope>>

-----------------------------------------------------------------------------
(* Records.                                                                *)

\* runtime::Group::clear, row by row.
Cleared(i) ==
  LET first == i * N
      done[n \in 0..N] ==
        IF n = 0 THEN records
        ELSE IF Tagged!TagLinked(done[n - 1], first + n - 1)
             THEN Tagged!TagDetached(done[n - 1], first + n - 1) ELSE done[n - 1]
  IN done[N]
\* runtime::Group::insert: at the front of the bucket of its hash.
Filled(i, lanes) ==
  LET done[n \in 0..N] ==
        IF n = 0 THEN Cleared(i)
        ELSE IF lanes[n] = END THEN done[n - 1]
             ELSE Tagged!TagPushedFront(done[n - 1], lanes[n], i * N + n - 1)
  IN done[N]
SetGroup(i, lanes) ==
  /\ Holds(i)
  /\ records' = Filled(i, lanes)
  /\ UNCHANGED <<size, Lists, value, timer, limit, scope>>

\* Mutant: the records of the slot stay in their buckets.
IntoSelectKeeps(i) ==
  /\ Resident /\ i \in scope.keys
  /\ scope' = [phase |-> "terminal", keys |-> {i}, entry |-> i]
  /\ UNCHANGED <<size, Lists, value, timer, limit, records>>
\* into_select: the scope is used up, and the group of the slot is cleared.
IntoSelect(i) ==
  /\ Resident /\ i \in scope.keys
  /\ records' = Cleared(i)
  /\ scope' = [phase |-> "terminal", keys |-> {i}, entry |-> i]
  /\ UNCHANGED <<size, Lists, value, timer, limit>>
\* The terminal entry: out of a plane, its timer set or taken, its value taken.
TerminalUnlink(p) ==
  /\ scope.phase = "terminal" /\ p # Excluded
  /\ Leave(p, scope.entry) /\ Else
TerminalTimer ==
  /\ scope.phase = "terminal"
  /\ timer' \in {[timer EXCEPT !.armed = @ \cup {scope.entry}],
                [timer EXCEPT !.armed = @ \ {scope.entry}]}
  /\ UNCHANGED <<size, Lists, value, limit, records, scope>>
Take ==
  /\ scope.phase = "terminal"
  /\ value' = value \ {scope.entry}
  /\ scope' = [scope EXCEPT !.phase = "taken", !.keys = {}]
  /\ UNCHANGED <<size, Lists, timer, limit, records>>
TakenLink(p) == scope.phase = "taken" /\ Link(p, scope.entry) /\ Else

Next ==
  \/ \E p \in Planes :
       \/ \E i \in Entries : LinkBack(p, i) \/ Unlink(p, i) \/ ResidentLink(p, i)
       \/ MoveToBack(p) \/ Pop(p) \/ Clear(p) \/ ActivePop(p) \/ ResidentPop(p)
       \/ TerminalUnlink(p) \/ TakenLink(p)
  \/ \E l \in Limits : Replace(l) \/ ReplaceUncalled(l)
  \/ \E i \in Nodes :
       \/ FirstTimer(i) \/ ActiveTake(i) \/ Install(i) \/ Admit(i) \/ SetTimer(i)
       \/ IntoSelect(i)
       \/ \E some \in SUBSET (1..N) :   \* bound: record n has the hash n - 1
            SetGroup(i, [n \in 1..N |-> IF n \in some THEN (n - 1) % Buckets(limit) ELSE END])
  \/ Open \/ Close \/ ToResident \/ TerminalTimer \/ Take
Spec == Init /\ [][Next]_vars

-----------------------------------------------------------------------------
(* Properties.                                                             *)

Order(p) == Walk(hook[p], chain[p].first)

\* An index of any part is one of every part it is used in: a record's row names
\* a key (groups.rs:136), a key an entry, an entry a place of the heap; a
\* resident key has a value (resident/mod.rs:51); a slot on its way out has no
\* record left; every plane holds what its hooks say, once, and counts it.
PartsAgree ==
  /\ limit <= size /\ size <= timer.capacity /\ timer.armed \subseteq Entries
  /\ DOMAIN records.next = 0..(Rows(limit) - 1)
  /\ Tagged!TagsAreReciprocal(records)
  /\ scope.keys \subseteq value \cap 0..(limit - 1)
  /\ scope.entry # END => \A r \in Group(scope.entry) : ~ Tagged!TagLinked(records, r)
  /\ \A p \in Planes :
       /\ ToSet(Order(p)) = {i \in Nodes : In(p, i)} /\ ToSet(Order(p)) \subseteq Entries
       /\ Len(Order(p)) = count[p]
       /\ chain[p].last = IF Order(p) = <<>> THEN END ELSE Last(Order(p))
=============================================================================
