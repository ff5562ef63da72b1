------------------------------- MODULE DnsCache -------------------------------
(***************************************************************************)
(* Names of addresses: pages ask for many at once and wait only so long,   *)
(* a bounded pool looks them up, a bounded cache keeps what was found and, *)
(* shorter, that nothing was.  A page's searches for a host name take      *)
(* their turn in the same pool.  What a page shows of the names is left    *)
(* out: it is what the cache had, and what came in time.                   *)
(***************************************************************************)
EXTENDS Naturals, Sequences, FiniteSets, FiniteSetsExt, SequencesExt

CONSTANTS
  Addresses,
  Lookupable,    \* not multicast, unspecified or reserved
  Pages,         \* requests, each asking again and again
  Workers,       \* threads of the pool (MAX_WORKERS)
  Positive, Negative,  \* how long a name, and a miss, is kept
  MaxEntries,    \* of the cache
  Share,         \* a full cache drops MaxEntries \div Share entries (10 in the code)
  MaxQueue       \* bound: lookups waiting in the pool

Forward == "forward"  \* in the queue, a search for a host name
Free == "free"
DnsAssumption ==
  /\ IsFiniteSet(Pages) /\ IsFiniteSet(Workers) /\ {Forward, Free} \cap Addresses = {}
  /\ Lookupable \subseteq Addresses /\ Negative \in Nat \ {0} /\ Positive \in Nat
  /\ Negative <= Positive /\ MaxEntries \in Nat /\ Share \in 1..MaxEntries

VARIABLES
  names,     \* _cache: per address what is known and for how long
  inflight,  \* _inflight
  queue,     \* of the pool: addresses, and Forward for a host name
  running,   \* per worker: what it looks up
  asking     \* per page: where it is, what it has still to submit and to wait for

dnsVars == <<names, inflight, queue, running, asking>>

Nothing == [found |-> "nothing", left |-> 0]
Idle == [at |-> "idle", submit |-> {}, wait |-> {}]

Init ==
  /\ names = [a \in Addresses |-> Nothing]
  /\ inflight = {} /\ queue = <<>>
  /\ running = [w \in Workers |-> Free]
  /\ asking = [p \in Pages |-> Idle]

\* Time: what is kept runs out.  An entry that has stays until it is evicted.
Tick ==
  /\ \E a \in Addresses : names[a].left > 0
  /\ names' = [a \in Addresses |-> [names[a] EXCEPT !.left = IF @ > 0 THEN @ - 1 ELSE 0]]
  /\ UNCHANGED <<inflight, queue, running, asking>>

Fresh(a) == names[a].left > 0

-----------------------------------------------------------------------------
(* A page.  What it wants is sorted out under the lock, submitted after.   *)

\* seeded fault: an address somebody is already looking up is looked up again
PendingTwice(wanted) == {a \in wanted \cap Lookupable : ~ Fresh(a)}
Pending(wanted) == {a \in wanted \cap Lookupable : ~ Fresh(a) /\ a \notin inflight}

ReverseMany(p) == \E wanted \in SUBSET Addresses \ {{}} :
  LET pending == Pending(wanted)
  IN  /\ asking[p].at = "idle" /\ Len(queue) + Cardinality(pending) <= MaxQueue
      /\ inflight' = inflight \cup pending
      /\ asking' = [asking EXCEPT ![p] = [at |-> IF pending = {} THEN "idle" ELSE "submit",
                                          submit |-> pending, wait |-> pending]]
      /\ UNCHANGED <<names, queue, running>>

Submit(p) == \E a \in asking[p].submit :
  /\ queue' = Append(queue, a)
  /\ asking' = [asking EXCEPT ![p].submit = @ \ {a}, ![p].at = IF asking[p].submit = {a} THEN "wait" ELSE "submit"]
  /\ UNCHANGED <<names, inflight, running>>

\* A page out of time goes without; the lookups go on.
GiveUp(p) ==
  /\ asking[p].at \in {"wait", "forward"}
  /\ asking' = [asking EXCEPT ![p] = Idle]
  /\ UNCHANGED <<names, inflight, queue, running>>

ForwardLookup(p) ==
  /\ asking[p].at = "idle" /\ Len(queue) < MaxQueue
  /\ queue' = Append(queue, Forward)
  /\ asking' = [asking EXCEPT ![p] = [Idle EXCEPT !.at = "forward"]]
  /\ UNCHANGED <<names, inflight, running>>

-----------------------------------------------------------------------------
(* The pool.                                                               *)

Start(w) ==
  /\ running[w] = Free /\ queue # <<>>
  /\ running' = [running EXCEPT ![w] = Head(queue)]
  /\ queue' = Tail(queue)
  /\ UNCHANGED <<names, inflight, asking>>

Cached == {a \in Addresses : names[a] # Nothing}
Soonest(n) == CHOOSE s \in kSubset(n, Cached) : \A a \in s, b \in Cached \ s : names[a].left <= names[b].left
AllKept == Cached  \* seeded fault: nothing leaves a full cache
Kept == IF Cardinality(Cached) >= MaxEntries THEN Cached \ Soonest(MaxEntries \div Share) ELSE Cached

Told(p, a) ==
  IF asking[p].at # "wait" \/ a \notin asking[p].wait THEN asking[p]
  ELSE IF asking[p].wait = {a} THEN Idle
  ELSE [asking[p] EXCEPT !.wait = @ \ {a}]

Resolve(w) == \E found \in {"name", "none"} :
  LET a == running[w]
  IN  /\ a \in Addresses
      /\ running' = [running EXCEPT ![w] = Free]
      /\ names' = [b \in Addresses |->
                     IF b = a THEN [found |-> found, left |-> IF found = "name" THEN Positive ELSE Negative]
                     ELSE IF b \in Kept THEN names[b] ELSE Nothing]
      /\ inflight' = inflight \ {a}
      /\ asking' = [p \in Pages |-> Told(p, a)]
      /\ UNCHANGED queue

ResolveForward(w) ==
  /\ running[w] = Forward
  /\ running' = [running EXCEPT ![w] = Free]
  /\ UNCHANGED <<names, inflight, queue, asking>>

Next ==
  \/ Tick
  \/ \E p \in Pages : ReverseMany(p) \/ Submit(p) \/ GiveUp(p) \/ ForwardLookup(p)
  \/ \E w \in Workers : Start(w) \/ Resolve(w) \/ ResolveForward(w)

Spec == Init /\ [][Next]_dnsVars

-----------------------------------------------------------------------------
\* The cache stays within its bound.
TypeOK ==
  /\ \A a \in Addresses : names[a].found \in {"nothing", "name", "none"} /\ names[a].left \in 0..Positive
  /\ Cardinality(Cached) <= MaxEntries
  /\ inflight \subseteq Lookupable
  /\ \A i \in DOMAIN queue : queue[i] \in Addresses \cup {Forward}
  /\ \A w \in Workers : running[w] \in Addresses \cup {Forward, Free}
  /\ \A p \in Pages : asking[p].at \in {"idle", "submit", "wait", "forward"}

\* An address is marked as being looked up exactly while one lookup of it is
\* under way, so no page ever leaves it to a lookup that does not exist and
\* no two do the same one (_inflight, reverse_many, _store).
Lookups(a) ==
  Cardinality({p \in Pages : a \in asking[p].submit})
    + Cardinality({i \in DOMAIN queue : queue[i] = a})
    + Cardinality({w \in Workers : running[w] = a})
InFlightIsLookedUp == \A a \in Addresses : Lookups(a) = IF a \in inflight THEN 1 ELSE 0

=============================================================================
