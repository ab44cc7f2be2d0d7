-------------------------------- MODULE UbList --------------------------------
(***************************************************************************)
(* The intrusive circular doubly-linked list of                            *)
(* src/ebpf_vm_executor/ub_list.h, at the level of its pointers.           *)
(*                                                                         *)
(* A list is a record of two functions, next and prev, over a set of link  *)
(* slots: the list head and one struct ub_list per entry.  NULL, which    *)
(* ub_list_remove leaves in a removed entry, is the value nil.  The        *)
(* operators are the header's inline functions and the walks its           *)
(* iteration macros perform; they take the head, the slots or nil as      *)
(* arguments.                                                              *)
(***************************************************************************)
EXTENDS Naturals, Sequences, FiniteSets
LOCAL INSTANCE SequencesExt

\* ub_list_init on head; every other slot is not on the list (nil links).
UbListInit(head, slots, nil) ==
  LET self == [s \in slots |-> IF s = head THEN head ELSE nil]
  IN  [next |-> self, prev |-> self]

\* __list_add: new goes between the consecutive entries prev and next.
ListAdd(l, new, prev, next) ==
  [next |-> [l.next EXCEPT ![prev] = new, ![new] = next],
   prev |-> [l.prev EXCEPT ![next] = new, ![new] = prev]]

\* Variant of ub_list_push_back called with its arguments the other way
\* round, as ub_list_push_head takes them (new first, then head).
UbListPushBackSwapped(l, head, new) == ListAdd(l, head, l.prev[new], new)

\* ub_list_push_back(head, new): new before head, at the tail.
UbListPushBack(l, head, new) == ListAdd(l, new, l.prev[head], head)

\* ub_list_push_head(new, head): new after head.
UbListPushHead(l, head, new) == ListAdd(l, new, head, l.next[head])

\* Variant of __list_del that forgets to point next back at prev.
ListDelNoPrev(l, prev, next) == [next |-> [l.next EXCEPT ![prev] = next], prev |-> l.prev]

\* __list_del: prev and next made to point to each other.
ListDel(l, prev, next) ==
  [next |-> [l.next EXCEPT ![prev] = next],
   prev |-> [l.prev EXCEPT ![next] = prev]]

\* ub_list_remove: unlink e, then set its own links to NULL.
UbListRemove(l, e, nil) ==
  LET d == ListDel(l, l.prev[e], l.next[e])
  IN  [next |-> [d.next EXCEPT ![e] = nil], prev |-> [d.prev EXCEPT ![e] = nil]]

\* ub_list_is_empty.
UbListIsEmpty(l, head) == l.next[head] = head

\* The entries UB_LIST_FOR_EACH visits, in order: next pointers from the
\* head's successor until the head comes round again.  The walk is cut
\* after as many steps as there are slots, so a broken ring ends it.
RECURSIVE WalkFrom(_, _, _, _)
WalkFrom(l, head, pos, fuel) ==
  IF pos = head \/ fuel = 0 \/ pos \notin DOMAIN l.next
    THEN << >>
    ELSE <<pos>> \o WalkFrom(l, head, l.next[pos], fuel - 1)

UbListWalk(l, head) == WalkFrom(l, head, l.next[head], Cardinality(DOMAIN l.next))

\* UB_LIST_FOR_EACH_SAFE whose body removes the current entry (the
\* teardown loops): n is read before the body runs, the next n after it.
RECURSIVE RemoveEachFrom(_, _, _, _, _, _)
RemoveEachFrom(l, head, pos, n, nil, fuel) ==
  IF pos = head \/ fuel = 0
    THEN l
    ELSE LET l2 == UbListRemove(l, pos, nil)
         IN  RemoveEachFrom(l2, head, n, l2.next[n], nil, fuel - 1)

UbListRemoveEach(l, head, nil) ==
  RemoveEachFrom(l, head, l.next[head], l.next[l.next[head]], nil,
                 Cardinality(DOMAIN l.next))

\* The links agree: the entries reached from the head by next pointers are
\* distinct, lead back to the head, and each one's prev is the one before;
\* every other slot has nil links.
UbListWellFormed(l, head, nil) ==
  LET w == UbListWalk(l, head)
      ring == <<head>> \o w
      k == Len(ring)
  IN  /\ \A i \in 1..k : /\ l.next[ring[i]] = ring[(i % k) + 1]
                         /\ l.prev[ring[(i % k) + 1]] = ring[i]
      /\ \A s \in DOMAIN l.next \ ({head} \cup {w[i] : i \in DOMAIN w}) :
           l.next[s] = nil /\ l.prev[s] = nil

\* The list that pushing the entries of s one by one onto an empty list
\* gives, with push(l, e) one of the push operations.
RECURSIVE PushAll(_, _, _, _)
PushAll(push(_, _), l, s, k) ==
  IF k > Len(s) THEN l ELSE PushAll(push, push(l, s[k]), s, k + 1)

\* The reference: a ub_list behaves as a sequence.  For every order of
\* distinct entries, push_back builds that sequence and push_head its
\* reverse; removing any entry leaves the others in order and nils the
\* entry's links; the safe removal loop empties the list; and every list
\* on the way is well formed.
UbListMatchesSeq(head, entries, nil) ==
  LET empty == UbListInit(head, {head} \cup entries, nil)
      AtTail(l, e) == UbListPushBack(l, head, e)
      AtHead(l, e) == UbListPushHead(l, head, e)
  IN  \A s \in SetToAllKPermutations(entries) :
        LET l == PushAll(AtTail, empty, s, 1)
        IN  /\ UbListWellFormed(l, head, nil)
            /\ UbListWalk(l, head) = s
            /\ UbListWalk(PushAll(AtHead, empty, s, 1), head) = Reverse(s)
            /\ UbListIsEmpty(l, head) <=> s = << >>
            /\ \A i \in 1..Len(s) :
                 LET r == UbListRemove(l, s[i], nil)
                 IN  /\ UbListWellFormed(r, head, nil)
                     /\ UbListWalk(r, head) = RemoveAt(s, i)
            /\ UbListRemoveEach(l, head, nil) = empty
=============================================================================
