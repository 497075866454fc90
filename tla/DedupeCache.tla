----------------------------- MODULE DedupeCache ------------------------------
(***************************************************************************)
(* IdempotencyFilter (apps/ingestor/dedupe.py): an OrderedDict from a key  *)
(* to the time it was accepted.  A repeated key moves to the end but keeps *)
(* its time, and eviction only looks at the front, so the order is that of *)
(* the last question and the times need not be sorted.                     *)
(***************************************************************************)
EXTENDS Integers, Sequences, FiniteSets, SequencesExt

CONSTANTS Keys, Ttl, MaxSize,
          MaxTime   \* bound on the clock

ASSUME ParameterAssumption == Ttl \in Nat /\ MaxSize \in Nat \ {0} /\ MaxTime \in Nat

VARIABLES
    now,       \* time.time(), taken to be monotone
    entries,   \* the OrderedDict, front first
    answer,    \* what seen_recently last returned
    asked,     \* history: when each key was last asked about, Never at first
    accepted,  \* history: when each key was last entered
    since      \* history: the other keys asked about since then

vars == <<now, entries, answer, asked, accepted, since>>

Never == -1

Init ==
    /\ now = 0 /\ entries = <<>> /\ answer = FALSE
    /\ asked = [k \in Keys |-> Never] /\ accepted = [k \in Keys |-> Never]
    /\ since = [k \in Keys |-> {}]

Held(es) == {es[n].key : n \in DOMAIN es}
PlaceOf(es, k) == CHOOSE n \in DOMAIN es : es[n].key = k

\* Mutant of Evict: an "if" for the "while".
EvictMutOnce(es, cutoff) ==
    IF es # <<>> /\ Head(es).at < cutoff THEN Tail(es) ELSE es

\* _evict pops expired entries from the front and stops at the first fresh one.
Evict(es, cutoff) ==
    LET expired == Max({n \in 0 .. Len(es) : \A m \in 1 .. n : es[m].at < cutoff})
    IN  SubSeq(es, expired + 1, Len(es))

\* Mutant of MoveToEnd: a repeated key keeps its place.
MoveToEndMutStays(es, k) == es

MoveToEnd(es, k) == Append(RemoveAt(es, PlaceOf(es, k)), es[PlaceOf(es, k)])

\* Mutant of Trim: one entry too many.
TrimMutOffByOne(es) == IF Len(es) > MaxSize + 1 THEN Tail(es) ELSE es

Trim(es) == IF Len(es) > MaxSize THEN Tail(es) ELSE es

\* seen_recently(k)
Ask(k) ==
    LET live == Evict(entries, now - Ttl) IN
    /\ answer' = (k \in Held(live))
    /\ \/ /\ answer' /\ entries' = MoveToEnd(live, k) /\ UNCHANGED accepted
       \/ /\ ~answer' /\ entries' = Trim(Append(live, [key |-> k, at |-> now]))
          /\ accepted' = [accepted EXCEPT ![k] = now]
    /\ asked' = [asked EXCEPT ![k] = now]
    /\ since' = [j \in Keys |-> IF j = k THEN {} ELSE since[j] \cup {k}]
    /\ UNCHANGED now

Tick == now < MaxTime /\ now' = now + 1 /\ UNCHANGED <<entries, answer, asked, accepted, since>>

Next == Tick \/ \E k \in Keys : Ask(k)

Spec == Init /\ [][Next]_vars

-------------------------------------------------------------------------------
TypeOK ==
    /\ now \in 0 .. MaxTime /\ answer \in BOOLEAN
    /\ entries \in Seq([key : Keys, at : Nat]) /\ Len(entries) <= MaxSize
    /\ Cardinality(Held(entries)) = Len(entries)
    /\ asked \in [Keys -> {Never} \cup Nat] /\ accepted \in [Keys -> {Never} \cup Nat]
    /\ since \in [Keys -> SUBSET Keys]

\* An event is called a duplicate only when its key was asked about within the last
\* Ttl: although a repeated key keeps its old time and may stand behind fresher
\* entries, everything in front of it was asked about even earlier.
DuplicateMeansAskedWithinTtl ==
    [][\A k \in Keys : Ask(k) /\ answer' => asked[k] # Never /\ now - asked[k] <= Ttl]_vars

\* A key is forgotten only for a cause: it was entered more than Ttl ago, or MaxSize
\* other keys were asked about after it (the least recently asked key goes first).
ForgottenForCause ==
    [][\A k \in Keys : Ask(k) /\ ~answer' =>
          \/ asked[k] = Never
          \/ now - accepted[k] > Ttl
          \/ Cardinality(since[k]) >= MaxSize]_vars
===============================================================================
