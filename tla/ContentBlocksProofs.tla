------------------------- MODULE ContentBlocksProofs -------------------------
(***************************************************************************)
(* Proofs about the block walk of Sharing: the forms that the content      *)
(* blocks of conversations ship in, turn after turn, from one result cache *)
(* that they share; and, with the invariants of SharingProofs, that every  *)
(* part of Sharing keeps its types.                                        *)
(***************************************************************************)
EXTENDS SharingProofs, SequenceTheorems

\* A call in progress has a query and a hint, and the unit it computes was offered to the
\* cache, which had nothing of it when the computation began: what the unit shipped as is
\* settled under another key, or by an entry that changed since.
TurnSound ==
    \A c \in Convs :
        /\ turn[c].n > 0 => turn[c].hint \in Hints /\ turn[c].query \in Queries
        /\ turn[c].computing =>
            /\ Blocks!Walking(c)
            /\ ~Blocks!Verbatim(Units[walked[c] + 1], turn[c].n)
            /\ ~Blocks!Skipped(Units[walked[c] + 1], turn[c].hint)
            /\ \/ shipped[c][walked[c] + 1] = None
               \/ shipped[c][walked[c] + 1].key # Blocks!Wanted(c)
               \/ walked[c] + 1 \in moved[c]

\* A form is cached under the key it was compressed as.
ResultsSound ==
    \A k \in Blocks!Keys : results[k] # None => results[k].text = k.text /\ results[k].bias = k.bias

\* A decision made of a key.
Settled(d) ==
    /\ d.key = None => d.ships = None
    /\ d.key # None /\ d.ships = None => d.key \in skips
    /\ d.key # None /\ d.ships # None => d.key \notin skips /\ results[d.key] = d.ships

\* A decision whose entries did not change since is what the cache would answer again.
DecisionsSettled ==
    \A c \in Convs, i \in DOMAIN Units : shipped[c][i] # None =>
        LET d == shipped[c][i] IN
        /\ i \notin moved[c] => Settled(d)
        /\ d.ships # None => ~(d.tight /\ Units[i].text \in Borderline)

BlocksInv ==
    /\ Blocks!TypeOK
    /\ TurnSound
    /\ ResultsSound
    /\ DecisionsSettled
    /\ Blocks!OwnForm
    /\ Blocks!NeverTouched

LEMMA BlocksInit ==
    ASSUME Blocks!BlocksAssumption, Blocks!Init
    PROVE  BlocksInv
<1>1. Blocks!TypeOK
    BY DEF Blocks!BlocksAssumption, Blocks!Init, Blocks!TypeOK
<1>2. TurnSound
    BY DEF Blocks!Init, TurnSound
<1>3. ResultsSound
    BY DEF Blocks!Init, ResultsSound
<1>4. DecisionsSettled /\ Blocks!OwnForm /\ Blocks!NeverTouched
    BY DEF Blocks!Init, DecisionsSettled, Blocks!OwnForm, Blocks!NeverTouched
<1> QED BY <1>1, <1>2, <1>3, <1>4 DEF BlocksInv

\* The instance counts as this module does.
LEMMA BlocksCardinality == \A S : Blocks!Cardinality(S) = Cardinality(S)
BY DEF Cardinality, Blocks!Cardinality

\* A walk that is not over is at a unit of a call's messages.
LEMMA WalkAt ==
    ASSUME Blocks!BlocksAssumption, BlocksInv, NEW c \in Convs, Blocks!Walking(c)
    PROVE  /\ turn[c].n > 0
           /\ walked[c] + 1 \in DOMAIN Units /\ walked[c] + 1 \in 0..Len(Units)
           /\ Units[walked[c] + 1] \in Blocks!Unit
<1> DEFINE Before == {i \in DOMAIN Units : Units[i].msg <= turn[c].n}
<1>1. /\ Units \in Seq(Blocks!Unit) /\ Len(Units) \in Nat /\ DOMAIN Units = 1..Len(Units)
      /\ walked[c] \in 0..Len(Units) /\ turn[c].n \in 0..MaxTurns /\ MaxTurns \in Nat
    BY DEF Blocks!BlocksAssumption, BlocksInv, Blocks!TypeOK
<1>2. IsFiniteSet(1..Len(Units)) /\ Cardinality(1..Len(Units)) = Len(Units)
    <2>1. ASSUME NEW m \in Nat PROVE IsFiniteSet(1..m) /\ Cardinality(1..m) = m
        <3>1. 1 \in Int /\ m \in Int
            OBVIOUS
        <3>2. IsFiniteSet(1..m) /\ Cardinality(1..m) = IF 1 > m THEN 0 ELSE m - 1 + 1
            BY <3>1, FS_Interval
        <3> QED BY <3>2
    <2> QED BY <1>1, <2>1
<1>3. Before \subseteq 1..Len(Units)
    BY <1>1
<1>4. Cardinality(Before) <= Len(Units) /\ Cardinality(Before) \in Nat
    <2> HIDE DEF Before
    <2>1. Before \in SUBSET (1..Len(Units))
        BY <1>3
    <2>2. IsFiniteSet(Before) /\ Cardinality(Before) <= Cardinality(1..Len(Units))
        BY <1>2, <2>1, FS_Subset
    <2> QED BY <1>2, <2>2, FS_CardinalityType
<1>5. walked[c] < Cardinality(Before)
    BY BlocksCardinality DEF Blocks!Walking, Blocks!UnitsAt
<1>6. turn[c].n > 0
    <2> SUFFICES ASSUME turn[c].n = 0 PROVE FALSE
        BY <1>1
    <2>1. \A i \in DOMAIN Units : Units[i].msg \in Nat /\ Units[i].msg # 0
        <3>1. \A i \in DOMAIN Units : Units[i] \in Blocks!Unit
            BY <1>1
        <3> QED BY <3>1 DEF Blocks!Unit
    <2>2. Before = {}
        BY <1>1, <2>1
    <2> HIDE DEF Before
    <2> QED BY <1>1, <1>5, <2>2, FS_EmptySet
<1>7. walked[c] + 1 \in 1..Len(Units)
    <2> HIDE DEF Before
    <2> QED BY <1>1, <1>4, <1>5
<1> QED BY <1>1, <1>6, <1>7

\* What a unit is looked up as is a key of its own text, under its own tool's bias.
LEMMA KeyOfUnit ==
    ASSUME NEW u \in Blocks!Unit, NEW h \in Hints
    PROVE  /\ Blocks!KeyOf(u, h) \in Blocks!Keys
           /\ Blocks!KeyOf(u, h).text = u.text
           /\ \E g \in Hints \cup {1} : Blocks!KeyOf(u, h).bias =
                  (IF u.type = "text" THEN 1 ELSE BiasOf[u.tool] * g)
<1>1. u.text \in Texts /\ u.tool \in DOMAIN BiasOf
    BY DEF Blocks!Unit
<1> DEFINE b == IF u.type = "text" THEN 1 ELSE BiasOf[u.tool] * h
<1>2. b \in Blocks!Biases
    BY <1>1 DEF Blocks!Biases
<1>3. Blocks!KeyOf(u, h) = [text |-> u.text, bias |-> b]
    BY DEF Blocks!KeyOf
<1> QED BY <1>1, <1>2, <1>3 DEF Blocks!Keys

\* The same of the unit a walk is at, which ships nothing if it must stay verbatim.
LEMMA WantedSound ==
    ASSUME Blocks!BlocksAssumption, BlocksInv, NEW c \in Convs, Blocks!Walking(c)
    PROVE  /\ Blocks!Wanted(c) \in Blocks!Keys /\ Blocks!Wanted(c) # None
           /\ Blocks!Wanted(c).text = Units[walked[c] + 1].text
           /\ \E g \in Hints \cup {1} : Blocks!Wanted(c).bias =
                  (IF Units[walked[c] + 1].type = "text" THEN 1 ELSE BiasOf[Units[walked[c] + 1].tool] * g)
<1>1. Units[walked[c] + 1] \in Blocks!Unit /\ turn[c].hint \in Hints
    BY WalkAt DEF BlocksInv, TurnSound
<1>2. Blocks!Wanted(c) = Blocks!KeyOf(Units[walked[c] + 1], turn[c].hint)
    BY DEF Blocks!Wanted, Blocks!At
<1>3. None \notin Blocks!Keys
    BY DEF Blocks!BlocksAssumption
<1>4. /\ Blocks!Wanted(c) \in Blocks!Keys
      /\ Blocks!Wanted(c).text = Units[walked[c] + 1].text
      /\ \E g \in Hints \cup {1} : Blocks!Wanted(c).bias =
             (IF Units[walked[c] + 1].type = "text" THEN 1 ELSE BiasOf[Units[walked[c] + 1].tool] * g)
    <2> DEFINE u == Units[walked[c] + 1]
               h == turn[c].hint
    <2>1. u \in Blocks!Unit /\ h \in Hints /\ Blocks!Wanted(c) = Blocks!KeyOf(u, h)
        BY <1>1, <1>2
    <2> SUFFICES /\ Blocks!Wanted(c) \in Blocks!Keys
                 /\ Blocks!Wanted(c).text = u.text
                 /\ \E g \in Hints \cup {1} : Blocks!Wanted(c).bias =
                        (IF u.type = "text" THEN 1 ELSE BiasOf[u.tool] * g)
        OBVIOUS
    <2> HIDE DEF u, h
    <2> QED BY <2>1, KeyOfUnit
<1> QED BY <1>3, <1>4

\* A decision keeps the invariant if it is one the cache now answers, and the entries it
\* changes are the ones it names.
LEMMA DecideSound ==
    ASSUME Blocks!BlocksAssumption, BlocksInv, NEW c \in Convs, Blocks!Walking(c),
           NEW ships \in Blocks!Form \cup {None}, NEW key \in Blocks!Keys \cup {None},
           NEW keys \in SUBSET Blocks!Keys, Blocks!Decide(c, ships, key, keys),
           results' \in [Blocks!Keys -> Blocks!Form \cup {None}], skips' \subseteq Blocks!Keys,
           ResultsSound',
           \A k \in Blocks!Keys \ keys : results'[k] = results[k] /\ (k \in skips' <=> k \in skips),
           key = None => ships = None,
           key # None /\ ships = None => key \in skips',
           key # None /\ ships # None => results'[key] = ships /\ skips' = skips,
           ships # None =>
               /\ ~Blocks!Verbatim(Units[walked[c] + 1], turn[c].n) /\ ~Blocks!Rejects(c)
               /\ ships.text = Units[walked[c] + 1].text
               /\ \E h \in Hints \cup {1} : ships.bias =
                      (IF Units[walked[c] + 1].type = "text" THEN 1 ELSE BiasOf[Units[walked[c] + 1].tool] * h)
    PROVE  BlocksInv'
<1> DEFINE at == walked[c] + 1
           new == [ships |-> ships, key |-> key, tight |-> turn[c].tight]
<1>1. /\ shipped' = [shipped EXCEPT ![c][at] = new]
      /\ walked' = [walked EXCEPT ![c] = at]
      /\ turn' = [turn EXCEPT ![c].computing = FALSE]
      /\ moved' = [Blocks!Moving(keys) EXCEPT ![c] =
             IF ships # None /\ key \in skips THEN @ \cup {at} ELSE @ \ {at}]
    BY DEF Blocks!Decide, Blocks!At
<1>2. at \in DOMAIN Units /\ at \in 0..Len(Units) /\ Units[at] \in Blocks!Unit
    BY WalkAt
<1>3. Blocks!TypeOK
    BY DEF BlocksInv
<1>4. new \in Blocks!Decision /\ new # None
    BY <1>3 DEF Blocks!Decision, Blocks!TypeOK, Blocks!BlocksAssumption
<1> HIDE DEF at
<1>5. /\ shipped'[c][at] = new
      /\ \A d \in Convs, i \in DOMAIN Units : d # c \/ i # at => shipped'[d][i] = shipped[d][i]
      /\ \A d \in Convs : d # c => walked'[d] = walked[d] /\ turn'[d] = turn[d]
      /\ walked'[c] = at /\ turn'[c] = [turn[c] EXCEPT !.computing = FALSE]
    BY <1>1, <1>2, <1>3 DEF Blocks!TypeOK
<1>6. /\ \A d \in Convs, i \in DOMAIN Units : d # c \/ i # at =>
             (i \in moved'[d] <=> i \in moved[d] \/ (shipped[d][i] # None /\ shipped[d][i].key \in keys))
      /\ at \in moved'[c] <=> ships # None /\ key \in skips
    BY <1>1, <1>2, <1>3 DEF Blocks!TypeOK, Blocks!Moving
<1>7. Blocks!TypeOK'
    <2>1. shipped' \in [Convs -> [DOMAIN Units -> Blocks!Decision \cup {None}]]
        BY <1>1, <1>2, <1>3, <1>4 DEF Blocks!TypeOK
    <2>2. walked' \in [Convs -> 0..Len(Units)]
        BY <1>1, <1>2, <1>3 DEF Blocks!TypeOK
    <2>3. turn' \in [Convs -> [n : 0..MaxTurns, tight : BOOLEAN, query : Queries \cup {None},
                               hint : Hints \cup {None}, computing : BOOLEAN]]
        BY <1>1, <1>3 DEF Blocks!TypeOK
    <2>4. moved' \in [Convs -> SUBSET DOMAIN Units]
        <3>1. Blocks!Moving(keys) \in [Convs -> SUBSET DOMAIN Units]
            BY <1>3 DEF Blocks!TypeOK, Blocks!Moving
        <3> QED BY <1>1, <1>2, <3>1
    <2> QED BY <2>1, <2>2, <2>3, <2>4 DEF Blocks!TypeOK
<1>8. TurnSound'
    <2> SUFFICES ASSUME NEW d \in Convs
                 PROVE  /\ turn'[d].n > 0 => turn'[d].hint \in Hints /\ turn'[d].query \in Queries
                        /\ turn'[d].computing =>
                            /\ Blocks!Walking(d)'
                            /\ ~Blocks!Verbatim(Units[walked'[d] + 1], turn'[d].n)
                            /\ ~Blocks!Skipped(Units[walked'[d] + 1], turn'[d].hint)
                            /\ \/ shipped'[d][walked'[d] + 1] = None
                               \/ shipped'[d][walked'[d] + 1].key # Blocks!Wanted(d)'
                               \/ walked'[d] + 1 \in moved'[d]
        BY DEF TurnSound
    <2>1. CASE d = c
        <3>1. turn[c] \in [n : 0..MaxTurns, tight : BOOLEAN, query : Queries \cup {None},
                           hint : Hints \cup {None}, computing : BOOLEAN]
            BY <1>3 DEF Blocks!TypeOK
        <3>2. turn'[d].n = turn[c].n /\ turn'[d].hint = turn[c].hint /\ turn'[d].query = turn[c].query
              /\ turn'[d].computing = FALSE
            BY <1>5, <2>1, <3>1
        <3>3. turn[c].n > 0 => turn[c].hint \in Hints /\ turn[c].query \in Queries
            BY DEF BlocksInv, TurnSound
        <3> QED BY <3>2, <3>3
    <2>2. CASE d # c
        <3>1. turn'[d] = turn[d] /\ walked'[d] = walked[d]
            BY <1>5, <2>2
        <3>2. (Blocks!Walking(d)' <=> Blocks!Walking(d)) /\ Blocks!Wanted(d)' = Blocks!Wanted(d)
            BY <3>1 DEF Blocks!Walking, Blocks!Wanted, Blocks!At
        <3>3. ASSUME turn[d].computing
              PROVE  /\ shipped'[d][walked[d] + 1] = shipped[d][walked[d] + 1]
                     /\ walked[d] + 1 \in moved[d] => walked[d] + 1 \in moved'[d]
            <4>1. walked[d] + 1 \in DOMAIN Units
                BY <3>3, WalkAt DEF BlocksInv, TurnSound
            <4> QED BY <1>5, <1>6, <2>2, <4>1
        <3> QED BY <3>1, <3>2, <3>3 DEF BlocksInv, TurnSound
    <2> QED BY <2>1, <2>2
<1>9. DecisionsSettled'
    <2> SUFFICES ASSUME NEW d \in Convs, NEW i \in DOMAIN Units, NEW s, s = shipped'[d][i], s # None
                 PROVE  /\ i \notin moved'[d] =>
                            /\ s.key = None => s.ships = None
                            /\ s.key # None /\ s.ships = None => s.key \in skips'
                            /\ s.key # None /\ s.ships # None => s.key \notin skips' /\ results'[s.key] = s.ships
                        /\ s.ships # None => ~(s.tight /\ Units[i].text \in Borderline)
        BY DEF DecisionsSettled, Settled
    <2>1. CASE d = c /\ i = at
        <3>1. s = new /\ (i \in moved'[d] <=> ships # None /\ key \in skips)
            BY <1>5, <1>6, <2>1
        <3>2. ships # None => ~(turn[c].tight /\ Units[at].text \in Borderline)
            BY DEF Blocks!Rejects, Blocks!At, at
        <3> QED BY <2>1, <3>1, <3>2
    <2>2. CASE d # c \/ i # at
        <3>1. s = shipped[d][i]
            BY <1>5, <2>2
        <3>2. s \in Blocks!Decision
            BY <1>3, <3>1 DEF Blocks!TypeOK
        <3>3. s.ships # None => ~(s.tight /\ Units[i].text \in Borderline)
            BY <3>1 DEF BlocksInv, DecisionsSettled
        <3>4. ASSUME i \notin moved'[d] PROVE i \notin moved[d] /\ s.key \notin keys
            BY <1>6, <2>2, <3>1, <3>4
        <3>5. i \notin moved[d] => Settled(s)
            BY <3>1 DEF BlocksInv, DecisionsSettled
        <3>6. s.key # None => s.key \in Blocks!Keys
            BY <3>2 DEF Blocks!Decision
        <3> QED BY <3>3, <3>4, <3>5, <3>6 DEF Settled
    <2> QED BY <2>1, <2>2
<1>10. Blocks!OwnForm'
    <2> SUFFICES ASSUME NEW d \in Convs, NEW i \in DOMAIN Units, shipped'[d][i] # None, shipped'[d][i].ships # None
                 PROVE  /\ shipped'[d][i].ships.text = Units[i].text
                        /\ \E h \in Hints \cup {1} : shipped'[d][i].ships.bias =
                               (IF Units[i].type = "text" THEN 1 ELSE BiasOf[Units[i].tool] * h)
        BY DEF Blocks!OwnForm
    <2>1. CASE d = c /\ i = at
        BY <1>5, <2>1 DEF at
    <2>2. CASE d # c \/ i # at
        BY <1>5, <2>2 DEF BlocksInv, Blocks!OwnForm
    <2> QED BY <2>1, <2>2
<1>11. Blocks!NeverTouched'
    <2> SUFFICES ASSUME NEW d \in Convs, NEW i \in DOMAIN Units,
                        Units[i].marked \/ (Units[i].type = "tool_result" /\ Units[i].tool = Retrieval),
                        shipped'[d][i] # None
                 PROVE  shipped'[d][i].ships = None
        BY DEF Blocks!NeverTouched
    <2>1. CASE d = c /\ i = at
        <3>1. Blocks!Verbatim(Units[at], turn[c].n)
            BY <2>1 DEF Blocks!Verbatim, Blocks!ToolProtected, Blocks!BlocksAssumption
        <3> QED BY <1>5, <2>1, <3>1 DEF at
    <2>2. CASE d # c \/ i # at
        BY <1>5, <2>2 DEF BlocksInv, Blocks!NeverTouched
    <2> QED BY <2>1, <2>2
<1> QED BY <1>7, <1>8, <1>9, <1>10, <1>11 DEF BlocksInv

\* Units that stay verbatim, or that feedback protects, are decided without the cache.
LEMMA KeepStep ==
    ASSUME Blocks!BlocksAssumption, BlocksInv, NEW c \in Convs, Blocks!Keep(c)
    PROVE  BlocksInv'
<1>1. Blocks!Walking(c) /\ Blocks!Decide(c, None, None, {}) /\ UNCHANGED <<results, skips>>
    BY DEF Blocks!Keep
<1>2. results' \in [Blocks!Keys -> Blocks!Form \cup {None}] /\ skips' \subseteq Blocks!Keys /\ ResultsSound'
    BY <1>1 DEF BlocksInv, Blocks!TypeOK, ResultsSound
<1> QED BY <1>1, <1>2, DecideSound

LEMMA ServeOriginalStep ==
    ASSUME Blocks!BlocksAssumption, BlocksInv, NEW c \in Convs, Blocks!ServeOriginal(c)
    PROVE  BlocksInv'
<1> DEFINE k == Blocks!Wanted(c)
<1>1. Blocks!Walking(c) /\ Blocks!Decide(c, None, k, {}) /\ UNCHANGED <<results, skips>> /\ k \in skips
    BY DEF Blocks!ServeOriginal, Blocks!Offered
<1>2. results' \in [Blocks!Keys -> Blocks!Form \cup {None}] /\ skips' \subseteq Blocks!Keys /\ ResultsSound'
    BY <1>1 DEF BlocksInv, Blocks!TypeOK, ResultsSound
<1>3. k \in Blocks!Keys /\ k # None
    BY <1>1, WantedSound
<1> HIDE DEF k
<1> QED BY <1>1, <1>2, <1>3, DecideSound

LEMMA ServeCachedStep ==
    ASSUME Blocks!BlocksAssumption, BlocksInv, NEW c \in Convs, Blocks!ServeCached(c)
    PROVE  BlocksInv'
<1> DEFINE k == Blocks!Wanted(c)
           u == Units[walked[c] + 1]
           form == results[k]
<1>1. /\ Blocks!Walking(c) /\ Blocks!Decide(c, form, k, {}) /\ UNCHANGED <<results, skips>>
      /\ k \notin skips /\ form # None /\ ~Blocks!Rejects(c)
      /\ ~Blocks!Verbatim(u, turn[c].n)
    BY DEF Blocks!ServeCached, Blocks!Offered, Blocks!At
<1>2. results' \in [Blocks!Keys -> Blocks!Form \cup {None}] /\ skips' \subseteq Blocks!Keys /\ ResultsSound'
    BY <1>1 DEF BlocksInv, Blocks!TypeOK, ResultsSound
<1>3. /\ k \in Blocks!Keys /\ k # None /\ k.text = u.text
      /\ \E h \in Hints \cup {1} : k.bias = (IF u.type = "text" THEN 1 ELSE BiasOf[u.tool] * h)
    BY <1>1, WantedSound
<1>4. form \in Blocks!Form \cup {None} /\ results'[k] = form
    BY <1>1, <1>3 DEF BlocksInv, Blocks!TypeOK
<1>5. form.text = k.text /\ form.bias = k.bias
    BY <1>1, <1>3 DEF BlocksInv, ResultsSound
<1>6. /\ form.text = u.text
      /\ \E h \in Hints \cup {1} : form.bias = (IF u.type = "text" THEN 1 ELSE BiasOf[u.tool] * h)
    BY <1>3, <1>5
<1> HIDE DEF k, form
<1> QED BY <1>1, <1>2, <1>3, <1>4, <1>6, DecideSound DEF u

LEMMA DemoteStep ==
    ASSUME Blocks!BlocksAssumption, BlocksInv, NEW c \in Convs, Blocks!Demote(c)
    PROVE  BlocksInv'
<1> DEFINE k == Blocks!Wanted(c)
<1>1. /\ Blocks!Walking(c) /\ Blocks!Decide(c, None, k, {k})
      /\ results' = [results EXCEPT ![k] = None] /\ skips' = skips \cup {k}
    BY DEF Blocks!Demote, Blocks!Offered
<1>2. k \in Blocks!Keys /\ k # None
    BY <1>1, WantedSound
<1> HIDE DEF k
<1>3. /\ results' \in [Blocks!Keys -> Blocks!Form \cup {None}] /\ skips' \subseteq Blocks!Keys
      /\ \A j \in Blocks!Keys \ {k} : results'[j] = results[j] /\ (j \in skips' <=> j \in skips)
      /\ results'[k] = None
    BY <1>1, <1>2 DEF BlocksInv, Blocks!TypeOK
<1>4. ResultsSound'
    BY <1>3 DEF BlocksInv, ResultsSound
<1> QED BY <1>1, <1>2, <1>3, <1>4, DecideSound

\* A computation that ends with a form puts it in the cache, whatever is there by now.
LEMMA AcceptStep ==
    ASSUME Blocks!BlocksAssumption, BlocksInv, NEW c \in Convs, Blocks!Accept(c)
    PROVE  BlocksInv'
<1> DEFINE k == Blocks!Wanted(c)
           u == Units[walked[c] + 1]
           form == [text |-> u.text, bias |-> k.bias, query |-> turn[c].query]
           keys == IF results[k] = form THEN {} ELSE {k}
<1>1. /\ Blocks!Decide(c, form, k, keys) /\ results' = [results EXCEPT ![k] = form] /\ skips' = skips
      /\ ~Blocks!Rejects(c) /\ turn[c].computing
    BY DEF Blocks!Accept, Blocks!At
<1>2. Blocks!Walking(c) /\ ~Blocks!Verbatim(u, turn[c].n) /\ turn[c].n > 0
    BY <1>1, WalkAt DEF BlocksInv, TurnSound
<1>3. /\ k \in Blocks!Keys /\ k # None /\ k.text = u.text
      /\ \E h \in Hints \cup {1} : k.bias = (IF u.type = "text" THEN 1 ELSE BiasOf[u.tool] * h)
    BY <1>2, WantedSound
<1>4. turn[c].query \in Queries /\ k.text \in Texts /\ k.bias \in Blocks!Biases
    BY <1>2, <1>3 DEF BlocksInv, TurnSound, Blocks!Keys
<1>5. form \in Blocks!Form /\ form # None /\ form.text = k.text /\ form.bias = k.bias
    BY <1>3, <1>4 DEF Blocks!Form, Blocks!BlocksAssumption
<1>6. form.text = u.text /\ \E h \in Hints \cup {1} : form.bias = (IF u.type = "text" THEN 1 ELSE BiasOf[u.tool] * h)
    BY <1>3, <1>5
<1> HIDE DEF k, form
<1>7. /\ results' \in [Blocks!Keys -> Blocks!Form \cup {None}] /\ skips' \subseteq Blocks!Keys
      /\ \A j \in Blocks!Keys \ {k} : results'[j] = results[j]
      /\ results'[k] = form
    BY <1>1, <1>3, <1>5 DEF BlocksInv, Blocks!TypeOK
<1>8. ResultsSound'
    BY <1>5, <1>7 DEF BlocksInv, ResultsSound
<1>9. keys \in SUBSET Blocks!Keys /\ \A j \in Blocks!Keys \ keys : results'[j] = results[j] /\ (j \in skips' <=> j \in skips)
    BY <1>1, <1>3, <1>7
<1> HIDE DEF keys
<1> QED BY <1>1, <1>2, <1>3, <1>5, <1>6, <1>7, <1>8, <1>9, DecideSound DEF u

LEMMA RejectStep ==
    ASSUME Blocks!BlocksAssumption, BlocksInv, NEW c \in Convs, Blocks!Reject(c)
    PROVE  BlocksInv'
<1> DEFINE k == Blocks!Wanted(c)
           keys == IF k \in skips THEN {} ELSE {k}
<1>1. /\ Blocks!Decide(c, None, k, keys) /\ results' = results /\ skips' = skips \cup {k}
      /\ turn[c].computing
    BY DEF Blocks!Reject
<1>2. Blocks!Walking(c)
    BY <1>1 DEF BlocksInv, TurnSound
<1>3. k \in Blocks!Keys /\ k # None
    BY <1>2, WantedSound
<1> HIDE DEF k
<1>4. /\ results' \in [Blocks!Keys -> Blocks!Form \cup {None}] /\ skips' \subseteq Blocks!Keys /\ ResultsSound'
      /\ keys \in SUBSET Blocks!Keys
      /\ \A j \in Blocks!Keys \ keys : results'[j] = results[j] /\ (j \in skips' <=> j \in skips)
    BY <1>1, <1>3 DEF BlocksInv, Blocks!TypeOK, ResultsSound
<1> HIDE DEF keys
<1> QED BY <1>1, <1>2, <1>3, <1>4, DecideSound

LEMMA NextTurnStep ==
    ASSUME Blocks!BlocksAssumption, BlocksInv, NEW c \in Convs, NEW tight \in BOOLEAN, NEW q \in Queries,
           NEW h \in Hints, Blocks!NextTurn(c, tight, q, h)
    PROVE  BlocksInv'
<1>1. /\ turn[c].n < MaxTurns /\ walked' = [walked EXCEPT ![c] = 0]
      /\ turn' = [turn EXCEPT ![c] = [n |-> turn[c].n + 1, tight |-> tight, query |-> q, hint |-> h, computing |-> FALSE]]
      /\ UNCHANGED <<results, skips, shipped, moved>>
    BY DEF Blocks!NextTurn
<1>2. /\ turn \in [Convs -> [n : 0..MaxTurns, tight : BOOLEAN, query : Queries \cup {None},
                             hint : Hints \cup {None}, computing : BOOLEAN]]
      /\ walked \in [Convs -> 0..Len(Units)] /\ MaxTurns \in Nat /\ Len(Units) \in Nat
    BY DEF BlocksInv, Blocks!TypeOK, Blocks!BlocksAssumption
<1>3. turn[c].n \in 0..MaxTurns
    BY <1>2
<1>4. turn[c].n + 1 \in 0..MaxTurns
    BY <1>1, <1>2, <1>3
<1>5. /\ turn'[c] = [n |-> turn[c].n + 1, tight |-> tight, query |-> q, hint |-> h, computing |-> FALSE]
      /\ \A d \in Convs : d # c => turn'[d] = turn[d] /\ walked'[d] = walked[d]
    BY <1>1, <1>2
<1>6. Blocks!TypeOK'
    <2>1. walked' \in [Convs -> 0..Len(Units)]
        BY <1>1, <1>2
    <2>2. [n |-> turn[c].n + 1, tight |-> tight, query |-> q, hint |-> h, computing |-> FALSE]
              \in [n : 0..MaxTurns, tight : BOOLEAN, query : Queries \cup {None},
                   hint : Hints \cup {None}, computing : BOOLEAN]
        BY <1>4
    <2>3. turn' \in [Convs -> [n : 0..MaxTurns, tight : BOOLEAN, query : Queries \cup {None},
                             hint : Hints \cup {None}, computing : BOOLEAN]]
        BY <1>1, <1>2, <2>2
    <2> QED BY <1>1, <2>1, <2>3 DEF BlocksInv, Blocks!TypeOK
<1>7. TurnSound'
    <2> SUFFICES ASSUME NEW d \in Convs
                 PROVE  /\ turn'[d].n > 0 => turn'[d].hint \in Hints /\ turn'[d].query \in Queries
                        /\ turn'[d].computing =>
                            /\ Blocks!Walking(d)'
                            /\ ~Blocks!Verbatim(Units[walked'[d] + 1], turn'[d].n)
                            /\ ~Blocks!Skipped(Units[walked'[d] + 1], turn'[d].hint)
                            /\ \/ shipped'[d][walked'[d] + 1] = None
                               \/ shipped'[d][walked'[d] + 1].key # Blocks!Wanted(d)'
                               \/ walked'[d] + 1 \in moved'[d]
        BY DEF TurnSound
    <2>1. CASE d = c
        BY <1>5, <2>1
    <2>2. CASE d # c
        <3>1. turn'[d] = turn[d] /\ walked'[d] = walked[d]
            BY <1>5, <2>2
        <3>2. (Blocks!Walking(d)' <=> Blocks!Walking(d)) /\ Blocks!Wanted(d)' = Blocks!Wanted(d)
            BY <3>1 DEF Blocks!Walking, Blocks!Wanted, Blocks!At
        <3> QED BY <1>1, <3>1, <3>2 DEF BlocksInv, TurnSound
    <2> QED BY <2>1, <2>2
<1> QED BY <1>1, <1>6, <1>7 DEF BlocksInv, ResultsSound, DecisionsSettled, Settled, Blocks!OwnForm,
           Blocks!NeverTouched

\* A computation begins only with nothing in the cache: what the unit shipped as rests on
\* no entry of its key.
LEMMA MissStep ==
    ASSUME Blocks!BlocksAssumption, BlocksInv, NEW c \in Convs, Blocks!Miss(c)
    PROVE  BlocksInv'
<1> DEFINE at == walked[c] + 1
           k == Blocks!Wanted(c)
<1>1. /\ Blocks!Walking(c) /\ ~Blocks!Verbatim(Units[at], turn[c].n) /\ ~Blocks!Skipped(Units[at], turn[c].hint)
      /\ k \notin skips /\ results[k] = None
      /\ turn' = [turn EXCEPT ![c].computing = TRUE]
      /\ UNCHANGED <<results, skips, walked, shipped, moved>>
    BY DEF Blocks!Miss, Blocks!Offered, Blocks!At
<1>2. turn \in [Convs -> [n : 0..MaxTurns, tight : BOOLEAN, query : Queries \cup {None},
                          hint : Hints \cup {None}, computing : BOOLEAN]]
    BY DEF BlocksInv, Blocks!TypeOK
<1>3. /\ turn'[c] = [turn[c] EXCEPT !.computing = TRUE]
      /\ \A d \in Convs : d # c => turn'[d] = turn[d]
      /\ \A d \in Convs : turn'[d].n = turn[d].n /\ turn'[d].hint = turn[d].hint /\ turn'[d].query = turn[d].query
    BY <1>1, <1>2
<1>4. Blocks!TypeOK'
    <2>1. turn' \in [Convs -> [n : 0..MaxTurns, tight : BOOLEAN, query : Queries \cup {None},
                             hint : Hints \cup {None}, computing : BOOLEAN]]
        BY <1>1, <1>2
    <2> QED BY <1>1, <2>1 DEF BlocksInv, Blocks!TypeOK
<1>5. \A d \in Convs : (Blocks!Walking(d)' <=> Blocks!Walking(d)) /\ Blocks!Wanted(d)' = Blocks!Wanted(d)
    BY <1>1, <1>3 DEF Blocks!Walking, Blocks!Wanted, Blocks!At
<1>6. shipped[c][at] = None \/ shipped[c][at].key # k \/ at \in moved[c]
    <2> SUFFICES ASSUME shipped[c][at] # None, shipped[c][at].key = k, at \notin moved[c] PROVE FALSE
        OBVIOUS
    <2>1. at \in DOMAIN Units /\ k \in Blocks!Keys /\ k # None
        BY <1>1, WalkAt, WantedSound
    <2>2. Settled(shipped[c][at])
        BY <2>1 DEF BlocksInv, DecisionsSettled
    <2> QED BY <1>1, <2>1, <2>2 DEF Settled
<1>7. TurnSound'
    <2> SUFFICES ASSUME NEW d \in Convs
                 PROVE  /\ turn'[d].n > 0 => turn'[d].hint \in Hints /\ turn'[d].query \in Queries
                        /\ turn'[d].computing =>
                            /\ Blocks!Walking(d)'
                            /\ ~Blocks!Verbatim(Units[walked'[d] + 1], turn'[d].n)
                            /\ ~Blocks!Skipped(Units[walked'[d] + 1], turn'[d].hint)
                            /\ \/ shipped'[d][walked'[d] + 1] = None
                               \/ shipped'[d][walked'[d] + 1].key # Blocks!Wanted(d)'
                               \/ walked'[d] + 1 \in moved'[d]
        BY DEF TurnSound
    <2> HIDE DEF k
    <2>1. CASE d = c
        BY <1>1, <1>3, <1>5, <1>6, <2>1 DEF BlocksInv, TurnSound, k
    <2>2. CASE d # c
        BY <1>1, <1>3, <1>5, <2>2 DEF BlocksInv, TurnSound
    <2> QED BY <2>1, <2>2
<1> QED BY <1>1, <1>4, <1>7 DEF BlocksInv, ResultsSound, DecisionsSettled, Settled, Blocks!OwnForm,
           Blocks!NeverTouched

LEMMA ForgetStep ==
    ASSUME Blocks!BlocksAssumption, BlocksInv, NEW key \in Blocks!Keys, Blocks!Forget(key)
    PROVE  BlocksInv'
<1>1. /\ moved' = Blocks!Moving({key}) /\ UNCHANGED <<turn, walked, shipped>>
      /\ \/ skips' = skips \ {key} /\ results' = results
         \/ results' = [results EXCEPT ![key] = None] /\ skips' = skips
    BY DEF Blocks!Forget
<1>2. /\ results' \in [Blocks!Keys -> Blocks!Form \cup {None}] /\ skips' \subseteq Blocks!Keys
      /\ \A k \in Blocks!Keys : k # key => results'[k] = results[k] /\ (k \in skips' <=> k \in skips)
      /\ results'[key] \in {results[key], None}
    BY <1>1 DEF BlocksInv, Blocks!TypeOK
<1>3. \A d \in Convs, i \in DOMAIN Units :
          i \in moved'[d] <=> i \in moved[d] \/ (shipped[d][i] # None /\ shipped[d][i].key = key)
    BY <1>1 DEF Blocks!Moving
<1>4. Blocks!TypeOK'
    <2>1. moved' \in [Convs -> SUBSET DOMAIN Units]
        BY <1>1 DEF BlocksInv, Blocks!TypeOK, Blocks!Moving
    <2> QED BY <1>1, <1>2, <2>1 DEF BlocksInv, Blocks!TypeOK
<1>5. ResultsSound'
    BY <1>2 DEF BlocksInv, ResultsSound
<1>6. TurnSound'
    <2>1. \A d \in Convs : (Blocks!Walking(d)' <=> Blocks!Walking(d)) /\ Blocks!Wanted(d)' = Blocks!Wanted(d)
        BY <1>1 DEF Blocks!Walking, Blocks!Wanted, Blocks!At
    <2>2. \A d \in Convs : turn[d].computing /\ walked[d] + 1 \in moved[d] => walked[d] + 1 \in moved'[d]
        BY <1>3, WalkAt DEF BlocksInv, TurnSound
    <2> QED BY <1>1, <2>1, <2>2 DEF BlocksInv, TurnSound
<1>7. DecisionsSettled'
    <2> SUFFICES ASSUME NEW d \in Convs, NEW i \in DOMAIN Units, NEW s, s = shipped[d][i], s # None
                 PROVE  /\ i \notin moved'[d] =>
                            /\ s.key = None => s.ships = None
                            /\ s.key # None /\ s.ships = None => s.key \in skips'
                            /\ s.key # None /\ s.ships # None => s.key \notin skips' /\ results'[s.key] = s.ships
                        /\ s.ships # None => ~(s.tight /\ Units[i].text \in Borderline)
        BY <1>1 DEF DecisionsSettled, Settled
    <2>1. s \in Blocks!Decision
        BY DEF BlocksInv, Blocks!TypeOK
    <2>2. s.ships # None => ~(s.tight /\ Units[i].text \in Borderline)
        BY DEF BlocksInv, DecisionsSettled
    <2>3. ASSUME i \notin moved'[d] PROVE i \notin moved[d] /\ s.key # key
        BY <1>3, <2>3
    <2>4. i \notin moved[d] => Settled(s)
        BY DEF BlocksInv, DecisionsSettled
    <2>5. s.key # None => s.key \in Blocks!Keys
        BY <2>1 DEF Blocks!Decision
    <2> QED BY <1>2, <2>2, <2>3, <2>4, <2>5 DEF Settled
<1>8. Blocks!OwnForm' /\ Blocks!NeverTouched'
    BY <1>1 DEF BlocksInv, Blocks!OwnForm, Blocks!NeverTouched
<1> QED BY <1>4, <1>5, <1>6, <1>7, <1>8 DEF BlocksInv

LEMMA BlocksStep ==
    ASSUME Blocks!BlocksAssumption, BlocksInv, [Blocks!Next]_(Blocks!blockVars)
    PROVE  BlocksInv'
<1>1. CASE UNCHANGED Blocks!blockVars
    <2>1. UNCHANGED <<results, skips, turn, walked, shipped, moved>>
        BY <1>1 DEF Blocks!blockVars
    <2>2. TurnSound'
        <3>1. \A d \in Convs : (Blocks!Walking(d)' <=> Blocks!Walking(d)) /\ Blocks!Wanted(d)' = Blocks!Wanted(d)
            BY <2>1 DEF Blocks!Walking, Blocks!Wanted, Blocks!At
        <3> QED BY <2>1, <3>1 DEF BlocksInv, TurnSound
    <2> QED BY <2>1, <2>2 DEF BlocksInv, Blocks!TypeOK, ResultsSound, DecisionsSettled, Settled,
               Blocks!OwnForm, Blocks!NeverTouched
<1> QED BY <1>1, KeepStep, ServeOriginalStep, ServeCachedStep, DemoteStep, AcceptStep, RejectStep,
           NextTurnStep,
           MissStep, ForgetStep DEF Blocks!Next

\* A decision ships the unit as its last one did, or says why not.
LEMMA DecisionStable ==
    ASSUME Blocks!BlocksAssumption, BlocksInv, NEW c \in Convs, NEW i, i = walked[c] + 1,
           NEW ships, NEW key, NEW keys, Blocks!Walking(c), Blocks!Decide(c, ships, key, keys),
           \/ key = None /\ ships = None
           \/ key \in skips /\ ships = None
           \/ key # None /\ key \notin skips /\ ships # None /\ ships = results[key]
           \/ key # None /\ key \notin skips /\ Blocks!Rejects(c)
           \/ shipped[c][i] = None \/ shipped[c][i].key # key \/ i \in moved[c],
           shipped[c][i] # None, shipped'[c][i].ships # shipped[c][i].ships
    PROVE  \/ shipped'[c][i].tight # shipped[c][i].tight
           \/ shipped'[c][i].key # shipped[c][i].key
           \/ i \in moved[c]
<1>1. i \in DOMAIN Units
    BY WalkAt
<1>2. shipped' = [shipped EXCEPT ![c][i] = [ships |-> ships, key |-> key, tight |-> turn[c].tight]]
    BY DEF Blocks!Decide, Blocks!At
<1>3. shipped \in [Convs -> [DOMAIN Units -> Blocks!Decision \cup {None}]]
    BY DEF BlocksInv, Blocks!TypeOK
<1>4. shipped'[c][i] = [ships |-> ships, key |-> key, tight |-> turn[c].tight]
    BY <1>1, <1>2, <1>3
<1> DEFINE s == shipped[c][i]
<1>5. s.key = key /\ i \notin moved[c] => Settled(s)
    BY <1>1 DEF BlocksInv, DecisionsSettled
<1>6. Blocks!Rejects(c) /\ s.tight = turn[c].tight => s.ships = None
    BY <1>1 DEF BlocksInv, DecisionsSettled, Blocks!Rejects, Blocks!At
<1>7. None \notin skips
    BY DEF BlocksInv, Blocks!TypeOK, Blocks!BlocksAssumption
<1> SUFFICES ASSUME s.tight = turn[c].tight, s.key = key, i \notin moved[c] PROVE FALSE
    BY <1>4
<1>8. ships # s.ships /\ Settled(s)
    BY <1>4, <1>5
<1> HIDE DEF s
<1> QED BY <1>5, <1>6, <1>7, <1>8 DEF Settled, s

\* A decision of a unit repeats the last one, or the threshold, its key or the entry it was
\* decided by changed.
LEMMA FormsStable ==
    ASSUME Blocks!BlocksAssumption, BlocksInv, Blocks!Next
    PROVE  Blocks!StableStep
<1> SUFFICES ASSUME Blocks!Next, NEW c \in Convs, walked'[c] = walked[c] + 1, NEW i, i = walked[c] + 1,
                    shipped[c][i] # None, shipped'[c][i].ships # shipped[c][i].ships
             PROVE  \/ shipped'[c][i].tight # shipped[c][i].tight
                    \/ shipped'[c][i].key # shipped[c][i].key
                    \/ i \in moved[c]
    BY DEF Blocks!StableStep, Blocks!At
<1>1. walked[c] \in Nat /\ walked \in [Convs -> 0..Len(Units)]
    BY DEF BlocksInv, Blocks!TypeOK, Blocks!BlocksAssumption
<1>2. ASSUME NEW d \in Convs, NEW ships, NEW key, NEW keys, Blocks!Decide(d, ships, key, keys) PROVE d = c
    BY <1>1, <1>2 DEF Blocks!Decide
<1>3. \A d \in Convs, tight \in BOOLEAN, q \in Queries, h \in Hints : ~Blocks!NextTurn(d, tight, q, h)
    BY <1>1 DEF Blocks!NextTurn
<1>4. \A d \in Convs : ~Blocks!Miss(d)
    BY <1>1 DEF Blocks!Miss
<1>5. \A k \in Blocks!Keys : ~Blocks!Forget(k)
    BY <1>1 DEF Blocks!Forget
<1>6. CASE \E d \in Convs : Blocks!Keep(d)
    <2>1. Blocks!Walking(c) /\ Blocks!Decide(c, None, None, {})
        BY <1>2, <1>6 DEF Blocks!Keep
    <2> QED BY <2>1, DecisionStable
<1>7. CASE \E d \in Convs : Blocks!ServeOriginal(d)
    <2>1. Blocks!Walking(c) /\ Blocks!Decide(c, None, Blocks!Wanted(c), {}) /\ Blocks!Wanted(c) \in skips
        BY <1>2, <1>7 DEF Blocks!ServeOriginal, Blocks!Offered
    <2> QED BY <2>1, DecisionStable
<1>8. CASE \E d \in Convs : Blocks!ServeCached(d)
    <2>1. /\ Blocks!Walking(c) /\ Blocks!Decide(c, results[Blocks!Wanted(c)], Blocks!Wanted(c), {})
          /\ Blocks!Wanted(c) \notin skips /\ results[Blocks!Wanted(c)] # None
        BY <1>2, <1>8 DEF Blocks!ServeCached, Blocks!Offered
    <2>2. Blocks!Wanted(c) # None
        BY <2>1, WantedSound
    <2> QED BY <2>1, <2>2, DecisionStable
<1>9. CASE \E d \in Convs : Blocks!Demote(d)
    <2>1. /\ Blocks!Walking(c) /\ Blocks!Decide(c, None, Blocks!Wanted(c), {Blocks!Wanted(c)})
          /\ Blocks!Wanted(c) \notin skips /\ Blocks!Rejects(c)
        BY <1>2, <1>9 DEF Blocks!Demote, Blocks!Offered
    <2>2. Blocks!Wanted(c) # None
        BY <2>1, WantedSound
    <2> QED BY <2>1, <2>2, DecisionStable
<1>10. CASE \E d \in Convs : Blocks!Accept(d) \/ Blocks!Reject(d)
    <2>1. PICK d \in Convs : Blocks!Accept(d) \/ Blocks!Reject(d)
        BY <1>10
    <2>2. turn[d].computing /\ \E ships, keys : Blocks!Decide(d, ships, Blocks!Wanted(d), keys)
        BY <2>1 DEF Blocks!Accept, Blocks!Reject
    <2>3. d = c
        BY <1>2, <2>2
    <2>4. PICK ships, keys : Blocks!Decide(c, ships, Blocks!Wanted(c), keys)
        BY <2>2, <2>3
    <2>5. Blocks!Walking(c) /\ (shipped[c][i] = None \/ shipped[c][i].key # Blocks!Wanted(c) \/ i \in moved[c])
        BY <2>2, <2>3 DEF BlocksInv, TurnSound
    <2> QED BY <2>4, <2>5, DecisionStable
<1> QED BY <1>3, <1>4, <1>5, <1>6, <1>7, <1>8, <1>9, <1>10 DEF Blocks!Next

-----------------------------------------------------------------------------

BlocksPart == part = "blocks" => BlocksInv

\* A step is one of the block walk while it runs, or changes nothing of it.
LEMMA BlocksOnly ==
    ASSUME [Next]_vars
    PROVE  /\ part' = part
           /\ part = "blocks" => [Blocks!Next]_(Blocks!blockVars)
<1>1. CASE Next
    <2>1. part' = part
        BY <1>1 DEF Next
    <2>2. part = "blocks" => Blocks!Next
        BY <1>1 DEF Next
    <2> QED BY <2>1, <2>2
<1>2. CASE UNCHANGED vars
    <2>1. part' = part /\ UNCHANGED blockVars
        BY <1>2 DEF vars
    <2> QED BY <2>1 DEF blockVars, Blocks!blockVars
<1> QED BY <1>1, <1>2

\* The block walk, for any conversations, tools, biases and hints: a form that ships was made
\* of the unit's own payload under its own tool's bias, whatever entries other shapes and
\* other calls left in the shared cache; the retrieval tool's output and what is under
\* cache_control never ship compressed, however old the block is; and a unit ships the form
\* it shipped last turn, whatever the query, its place and the length of the conversation,
\* unless the threshold, its key or the entry it was decided by changed.
THEOREM BlocksAlwaysHold ==
    Spec => BlocksHold
<1>1. Init => BlocksPart
    BY BlocksInit, SharingAssumption DEF Init, BlocksPart
<1>2. BlocksPart /\ [Next]_vars => BlocksPart'
    BY BlocksOnly, BlocksStep, SharingAssumption DEF BlocksPart
<1>3. BlocksPart => (part = "blocks" => Blocks!OwnForm /\ Blocks!NeverTouched)
    BY DEF BlocksPart, BlocksInv
<1>4. BlocksPart /\ [Next]_vars => [part = "blocks" => Blocks!StableStep]_vars
    <2> SUFFICES ASSUME BlocksPart, Next, part = "blocks" PROVE Blocks!StableStep
        OBVIOUS
    <2>1. Blocks!Next
        BY DEF Next
    <2> QED BY <2>1, FormsStable, SharingAssumption DEF BlocksPart
<1> QED BY <1>1, <1>2, <1>3, <1>4, PTL DEF Spec, BlocksHold

-----------------------------------------------------------------------------
(* The types of the retrieval signals *)

\* What FeedbackInv leaves open of the type invariant of RetrievalFeedback: the bound on the
\* clock, the callers, the last answer and the number of shapes that are known.
Registered ==
    /\ clockNow <= LastTime
    /\ read \in [Threads -> [records : BOOLEAN, shape : Shapes, time : 0..LastTime] \cup {None}]
    /\ hints = None \/ hints.shape \in Shapes
    /\ IsFiniteSet(Feedback!Known) /\ Cardinality(Feedback!Known) <= MaxShapes

\* Times up to the clock are within the bound.
LEMMA TimesBounded ==
    ASSUME NEW q \in Seq(Nat), NEW time \in Nat, TimesBy(q, time), NEW last \in Nat, time <= last
    PROVE  q \in Seq(0..last)
<1>1. \A i \in 1..Len(q) : q[i] \in 0..last
    <2> SUFFICES ASSUME NEW i \in 1..Len(q) PROVE q[i] \in 0..last
        OBVIOUS
    <2>1. q[i] \in Nat /\ q[i] <= time
        BY DEF TimesBy
    <2> QED BY <2>1
<1> QED BY <1>1

\* A deque that is the end of its history has no other times and is no longer.
LEMMA EndsTimes ==
    ASSUME NEW q \in Seq(Nat), NEW d \in Seq(Nat), NEW k, EndsIn(q, d, k), NEW time, TimesBy(q, time)
    PROVE  TimesBy(d, time) /\ Len(d) <= Len(q)
<1>1. /\ k \in Nat /\ Len(q) \in Nat /\ Len(d) \in Nat /\ Len(q) = Len(d) + k
      /\ \A i \in 1..Len(d) : d[i] = q[i + k]
    BY DEF EndsIn
<1>2. ASSUME NEW i \in 1..Len(d) PROVE d[i] <= time
    <2>1. i + k \in 1..Len(q)
        BY <1>1
    <2> QED BY <1>1, <2>1 DEF TimesBy
<1> QED BY <1>1, <1>2 DEF TimesBy

LEMMA FeedbackTypes ==
    ASSUME Feedback!FeedbackAssumption, FeedbackInv, Registered
    PROVE  Feedback!TypeOK
<1>1. clockNow \in Nat /\ LastTime \in Nat /\ clockNow <= LastTime /\ MaxPer \in Nat
    BY DEF Feedback!FeedbackAssumption, FeedbackInv, Registered
<1>2. ASSUME NEW s \in Shapes
      PROVE  events[s] \in Seq(0..LastTime) /\ recent[s] \in Seq(0..LastTime) /\ Len(events[s]) <= MaxPer
    <2>1. PICK q, d : q = recent[s] /\ d = events[s]
        OBVIOUS
    <2>2. q \in Seq(Nat) /\ d \in Seq(Nat) /\ TimesBy(q, clockNow) /\ Len(q) <= MaxPer /\ Retained(q, d, clockNow)
        BY <2>1 DEF FeedbackInv, ShapeSound
    <2>3. PICK k : EndsIn(q, d, k)
        BY <2>2 DEF Retained
    <2>4. TimesBy(d, clockNow) /\ Len(d) <= Len(q)
        BY <2>2, <2>3, EndsTimes
    <2>5. q \in Seq(0..LastTime) /\ d \in Seq(0..LastTime)
        BY <1>1, <2>2, <2>4, TimesBounded
    <2>6. Len(d) \in Nat /\ Len(q) \in Nat
        BY <2>2
    <2> QED BY <1>1, <2>1, <2>2, <2>4, <2>5, <2>6
<1>3. events \in [Shapes -> Seq(0..LastTime)] /\ recent \in [Shapes -> Seq(0..LastTime)]
    BY <1>2 DEF FeedbackInv
<1>4. Feedback!Cardinality({s \in Shapes : events[s] # <<>>}) <= MaxShapes
    BY FeedbackCardinality DEF Registered, Feedback!Known
<1> QED BY <1>1, <1>2, <1>3, <1>4 DEF Registered, Feedback!TypeOK

LEMMA RegisteredInit ==
    ASSUME Feedback!FeedbackAssumption, Feedback!Init
    PROVE  Registered
<1>1. Feedback!Known = {}
    BY DEF Feedback!Init, Feedback!Known
<1>2. IsFiniteSet(Feedback!Known) /\ Cardinality(Feedback!Known) = 0
    BY <1>1, FS_EmptySet
<1> QED BY <1>2 DEF Feedback!Init, Registered, Feedback!FeedbackAssumption

\* A recording makes room before it adds a shape.
LEMMA RoomMade ==
    ASSUME Feedback!FeedbackAssumption, FeedbackInv, Registered,
           NEW t \in Threads, Feedback!RecordRetrieval(t)
    PROVE  IsFiniteSet(Feedback!Known') /\ Cardinality(Feedback!Known') <= MaxShapes
<1>1. PICK s, e, K : s = read[t].shape /\ e = read[t].time /\ K = Feedback!Known
    OBVIOUS
<1>2. /\ s \in Shapes /\ IsFiniteSet(K) /\ Cardinality(K) \in Nat /\ Cardinality(K) <= MaxShapes
      /\ MaxShapes \in Nat /\ K \subseteq Shapes /\ 1 <= MaxShapes /\ DOMAIN events = Shapes
    BY <1>1, FS_CardinalityType
    DEF Feedback!RecordRetrieval, FeedbackInv, ReadSound, Registered, Feedback!FeedbackAssumption, Feedback!Known
<1>3. PICK gone \in IF s \notin K /\ Cardinality(K) >= MaxShapes THEN Feedback!Victims(e) ELSE {{}} :
         events' = [Feedback!Forget(events, gone) EXCEPT ![s] = Feedback!Bounded(Append(@, e))]
    BY <1>1, FeedbackCardinality DEF Feedback!RecordRetrieval
<1>4. Feedback!Known' \subseteq (K \ gone) \cup {s}
    <2> SUFFICES ASSUME NEW r \in Shapes, events'[r] # <<>>, r # s PROVE r \in K \ gone
        BY DEF Feedback!Known
    <2>1. events'[r] = Feedback!Forget(events, gone)[r]
        BY <1>3 DEF Feedback!Forget
    <2>2. events'[r] = IF r \in gone THEN <<>> ELSE events[r]
        BY <2>1 DEF Feedback!Forget
    <2> QED BY <1>1, <2>2 DEF Feedback!Known
<1>5. /\ IsFiniteSet(K \ gone) /\ Cardinality(K \ gone) \in Nat /\ Cardinality(K \ gone) <= Cardinality(K)
      /\ IsFiniteSet((K \ gone) \cup {s}) /\ Cardinality((K \ gone) \cup {s}) \in Nat
      /\ Cardinality((K \ gone) \cup {s}) <= Cardinality(K \ gone) + 1
    <2>1. IsFiniteSet(K \ gone) /\ Cardinality(K \ gone) <= Cardinality(K)
        BY <1>2, FS_Subset
    <2>2. /\ IsFiniteSet((K \ gone) \cup {s})
          /\ Cardinality((K \ gone) \cup {s}) =
                IF s \in K \ gone THEN Cardinality(K \ gone) ELSE Cardinality(K \ gone) + 1
        BY <2>1, FS_AddElement
    <2>3. Cardinality(K \ gone) \in Nat
        BY <2>1, FS_CardinalityType
    <2> QED BY <2>1, <2>2, <2>3
<1>6. Cardinality((K \ gone) \cup {s}) <= MaxShapes
    <2>1. CASE s \in K
        <3>1. (K \ gone) \cup {s} \subseteq K
            BY <2>1
        <3> QED BY <1>2, <1>5, <3>1, FS_Subset
    <2>2. CASE ~(Cardinality(K) >= MaxShapes)
        BY <1>2, <1>5, <2>2
    <2>3. CASE s \notin K /\ Cardinality(K) >= MaxShapes
        <3>1. gone \in Feedback!Victims(e)
            BY <1>3, <2>3
        <3>2. PICK decayed : /\ decayed = {r \in K : Feedback!Aged(Feedback!Last(events[r]), e)}
                             /\ \/ Cardinality(K \ decayed) < MaxShapes /\ gone = decayed
                                \/ \E r \in K \ decayed : gone = decayed \cup {r}
            BY <1>1, <3>1, FeedbackCardinality DEF Feedback!Victims
        <3>3. IsFiniteSet(K \ decayed) /\ Cardinality(K \ decayed) <= Cardinality(K) /\ Cardinality(K \ decayed) \in Nat
            BY <1>2, FS_Subset, FS_CardinalityType
        <3>4. ASSUME NEW r \in K \ decayed, gone = decayed \cup {r} PROVE Cardinality(K \ gone) < MaxShapes
            <4>1. K \ gone = (K \ decayed) \ {r}
                BY <3>4
            <4>2. Cardinality((K \ decayed) \ {r}) = Cardinality(K \ decayed) - 1
                BY <3>3, <3>4, FS_RemoveElement
            <4> QED BY <1>2, <3>3, <4>1, <4>2
        <3>5. Cardinality(K \ gone) < MaxShapes
            BY <3>2, <3>4
        <3> QED BY <1>2, <1>5, <3>5
    <2> QED BY <2>1, <2>2, <2>3
<1>7. IsFiniteSet(Feedback!Known') /\ Cardinality(Feedback!Known') <= Cardinality((K \ gone) \cup {s})
    BY <1>4, <1>5, FS_Subset
<1>8. Cardinality(Feedback!Known') \in Nat
    BY <1>7, FS_CardinalityType
<1> QED BY <1>2, <1>5, <1>6, <1>7, <1>8

\* A step that adds no shape.
LEMMA KnownShrinks ==
    ASSUME Feedback!FeedbackAssumption, Registered, Feedback!Known' \subseteq Feedback!Known
    PROVE  IsFiniteSet(Feedback!Known') /\ Cardinality(Feedback!Known') <= MaxShapes
<1>1. PICK K, L : K = Feedback!Known /\ L = Feedback!Known'
    OBVIOUS
<1>2. IsFiniteSet(K) /\ Cardinality(K) <= MaxShapes /\ L \subseteq K /\ MaxShapes \in Nat
    BY <1>1 DEF Registered, Feedback!FeedbackAssumption
<1>3. /\ IsFiniteSet(L) /\ Cardinality(L) <= Cardinality(K)
      /\ Cardinality(L) \in Nat /\ Cardinality(K) \in Nat
    BY <1>2, FS_Subset, FS_CardinalityType
<1>4. Cardinality(L) <= MaxShapes
    BY <1>2, <1>3
<1> QED BY <1>1, <1>3, <1>4

LEMMA RegisteredStep ==
    ASSUME Feedback!FeedbackAssumption, FeedbackInv, Registered, [Feedback!Next]_(Feedback!feedbackVars)
    PROVE  Registered'
<1>1. /\ clockNow \in Nat /\ LastTime \in Nat /\ clockNow <= LastTime /\ clockNow \in 0..LastTime
      /\ read \in [Threads -> [records : BOOLEAN, shape : Shapes, time : 0..LastTime] \cup {None}]
    BY DEF Registered, FeedbackInv, Feedback!FeedbackAssumption
<1>2. ASSUME UNCHANGED events PROVE Feedback!Known' \subseteq Feedback!Known
    BY <1>2 DEF Feedback!Known
<1>3. CASE UNCHANGED Feedback!feedbackVars
    <2>1. UNCHANGED <<clockNow, read, hints, events>>
        BY <1>3 DEF Feedback!feedbackVars
    <2> QED BY <1>2, <2>1, KnownShrinks DEF Registered
<1>4. CASE Feedback!Tick
    <2>1. UNCHANGED <<read, hints, events>> /\ clockNow' <= LastTime
        BY <1>1, <1>4 DEF Feedback!Tick
    <2> QED BY <1>2, <2>1, KnownShrinks DEF Registered
<1>5. CASE Feedback!Clear
    <2>1. UNCHANGED <<clockNow, read, hints>> /\ Feedback!Known' = {}
        BY <1>5 DEF Feedback!Clear, Feedback!Known
    <2>2. Feedback!Known' \subseteq Feedback!Known
        BY <2>1
    <2> QED BY <2>1, <2>2, KnownShrinks DEF Registered
<1>6. ASSUME NEW t \in Threads, NEW records \in BOOLEAN, NEW s \in Shapes, Feedback!ReadClock(t, records, s)
      PROVE  Registered'
    <2>1. UNCHANGED <<clockNow, hints, events>>
        BY <1>6 DEF Feedback!ReadClock
    <2>2. read' \in [Threads -> [records : BOOLEAN, shape : Shapes, time : 0..LastTime] \cup {None}]
        BY <1>1, <1>6 DEF Feedback!ReadClock
    <2> QED BY <1>2, <2>1, <2>2, KnownShrinks DEF Registered
<1>7. ASSUME NEW t \in Threads, Feedback!RecordRetrieval(t)
      PROVE  Registered'
    <2>1. UNCHANGED <<clockNow, hints>>
        BY <1>7 DEF Feedback!RecordRetrieval
    <2>2. read' \in [Threads -> [records : BOOLEAN, shape : Shapes, time : 0..LastTime] \cup {None}]
        BY <1>1, <1>7 DEF Feedback!RecordRetrieval
    <2> QED BY <1>7, <2>1, <2>2, RoomMade DEF Registered
<1>8. ASSUME NEW t \in Threads, Feedback!GetHints(t)
      PROVE  Registered'
    <2>1. clockNow' = clockNow /\ hints'.shape = read[t].shape /\ read[t] # None
        BY <1>8 DEF Feedback!GetHints
    <2>2. hints'.shape \in Shapes
        BY <2>1 DEF FeedbackInv, ReadSound
    <2>3. read' \in [Threads -> [records : BOOLEAN, shape : Shapes, time : 0..LastTime] \cup {None}]
        BY <1>1, <1>8 DEF Feedback!GetHints
    <2>4. Feedback!Known' \subseteq Feedback!Known
        <3> SUFFICES ASSUME NEW r \in Shapes, events[r] = <<>> PROVE events'[r] = <<>>
            BY DEF Feedback!Known
        <3>1. DOMAIN events[r] = {}
            OBVIOUS
        <3>2. {i \in DOMAIN events[r] : ~Feedback!Aged(events[r][i], read[t].time)} = {}
            BY <3>1
        <3>3. Feedback!Decayed(r, read[t].time) = <<>>
            BY <3>2 DEF Feedback!Decayed
        <3> QED BY <1>8, <3>3 DEF Feedback!GetHints
    <2> QED BY <2>1, <2>2, <2>3, <2>4, KnownShrinks DEF Registered
<1> QED BY <1>3, <1>4, <1>5, <1>6, <1>7, <1>8 DEF Feedback!Next

-----------------------------------------------------------------------------
(* The types of the questions *)

Steps == {"read", "exists", "clock", "status", "keys", "decode", "open", "page", "done"}

Answers == {"none", "found", "unmatched", "missing", "expired", "available", "refused", "listed"}

\* What a call witnesses of a step has its type.
LEMMA WitnessTyped ==
    ASSUME NEW CONSTANT c \in Questions!Asks \cup {None}, NEW CONSTANT grows \in BOOLEAN,
           NEW CONSTANT moves \in BOOLEAN
    PROVE  Questions!Witness(c, grows, moves) \in Questions!Asks \cup {None}
<1>1. Questions!Live' \subseteq Hashes
    BY DEF Questions!Live
<1>2. CASE c = None \/ c.step = "done"
    BY <1>2 DEF Questions!Witness
<1>3. CASE ~(c = None \/ c.step = "done")
    <2>1. PICK e : e = [c EXCEPT !.seen = @ \cup Questions!Live', !.lost = @ \cup (Hashes \ Questions!Live'),
                                 !.grew = @ \/ grows, !.moved = @ \/ moves]
        OBVIOUS
    <2>2. c \in Questions!Asks
        BY <1>3
    <2>3. PICK seen, missed : seen = c.seen \cup Questions!Live' /\ missed = c.lost \cup (Hashes \ Questions!Live')
        OBVIOUS
    <2>4. PICK grew, shifted : grew = (c.grew \/ grows) /\ shifted = (c.moved \/ moves)
        OBVIOUS
    <2>5. seen \in SUBSET Hashes /\ missed \in SUBSET Hashes
        BY <1>1, <2>2, <2>3 DEF Questions!Asks
    <2>6. grew \in BOOLEAN /\ shifted \in BOOLEAN
        BY <2>4
    <2>7. e = [c EXCEPT !.seen = seen, !.lost = missed, !.grew = grew, !.moved = shifted]
        BY <2>1, <2>3, <2>4
    <2>8. e \in Questions!Asks
        BY <2>2, <2>5, <2>6, <2>7 DEF Questions!Asks
    <2> QED BY <1>3, <2>1, <2>8 DEF Questions!Witness
<1> QED BY <1>2, <1>3

AsksTyped == ask \in [Askers -> Questions!Asks \cup {None}]

\* A call that goes on.
LEMMA ContinueTyped ==
    ASSUME AsksTyped, NEW w \in Askers, NEW CONSTANT c \in Questions!Asks, Questions!Continue(w, c)
    PROVE  AsksTyped'
<1>1. PICK no : no = FALSE
    OBVIOUS
<1>2. ask' = [v \in Askers |-> Questions!Witness(IF v = w THEN c ELSE ask[v], no, no)]
    BY <1>1, Zenon DEF Questions!Continue
<1>3. ASSUME NEW v \in Askers
      PROVE  Questions!Witness(IF v = w THEN c ELSE ask[v], no, no) \in Questions!Asks \cup {None}
    <2>1. PICK d : d = IF v = w THEN c ELSE ask[v]
        OBVIOUS
    <2>2. d \in Questions!Asks \cup {None}
        BY <2>1 DEF AsksTyped
    <2>3. no \in BOOLEAN
        BY <1>1
    <2>4. Questions!Witness(d, no, no) \in Questions!Asks \cup {None}
        BY <2>2, <2>3, WitnessTyped
    <2> QED BY <2>1, <2>4
<1> QED BY <1>2, <1>3 DEF AsksTyped

\* A step of others that the calls witness.
LEMMA OthersTyped ==
    ASSUME AsksTyped, NEW CONSTANT grows \in BOOLEAN, NEW CONSTANT moves \in BOOLEAN,
           ask' = [w \in Askers |-> Questions!Witness(ask[w], grows, moves)]
    PROVE  AsksTyped'
<1>1. ASSUME NEW v \in Askers PROVE Questions!Witness(ask[v], grows, moves) \in Questions!Asks \cup {None}
    <2>1. PICK d : d = ask[v]
        OBVIOUS
    <2>2. d \in Questions!Asks \cup {None}
        BY <2>1 DEF AsksTyped
    <2>3. Questions!Witness(d, grows, moves) \in Questions!Asks \cup {None}
        BY <2>2, WitnessTyped
    <2> QED BY <2>1, <2>3
<1> QED BY <1>1 DEF AsksTyped

\* An answer.
LEMMA AnswerTyped ==
    ASSUME AsksTyped, NEW w \in Askers, Questions!Running(w), NEW CONSTANT got \in Seq(Hashes),
           NEW CONSTANT answer \in Answers, Questions!Answer(w, answer, got)
    PROVE  AsksTyped'
<1>1. PICK c, e : c = ask[w] /\ e = [c EXCEPT !.step = "done", !.answer = answer, !.got = got, !.todo = {}]
    OBVIOUS
<1>2. c \in Questions!Asks
    BY <1>1 DEF AsksTyped, Questions!Running
<1>3. e \in Questions!Asks
    BY <1>1, <1>2 DEF Questions!Asks, Answers
<1>4. ask' = [ask EXCEPT ![w] = e]
    BY <1>1 DEF Questions!Answer
<1> QED BY <1>3, <1>4 DEF AsksTyped

\* A tool call's first step.
LEMMA BeginTyped ==
    ASSUME Questions!QueriesAssumption, AsksTyped, tick \in 0..LastTick, NEW w \in Askers,
           NEW CONSTANT tool \in Questions!Tools, NEW CONSTANT h \in Hashes \cup {None}, NEW CONSTANT limit \in Nat,
           NEW CONSTANT step \in Steps, Questions!Begin(w, tool, h, limit, step)
    PROVE  AsksTyped'
<1>1. PICK e : e = [tool |-> tool, hash |-> h, limit |-> limit, clock |-> tick, step |-> step,
            todo |-> {}, got |-> <<>>, total |-> 0,
            answer |-> IF step = "done" THEN "refused" ELSE "none",
            seen |-> Questions!Live, lost |-> Hashes \ Questions!Live, grew |-> FALSE, moved |-> FALSE]
    OBVIOUS
<1>2. ask' = [ask EXCEPT ![w] = e]
    BY <1>1 DEF Questions!Begin
<1>3. Questions!Live \subseteq Hashes
    BY DEF Questions!Live
<1>4. PICK answer, seen, missed, no : /\ answer = IF step = "done" THEN "refused" ELSE "none"
                                    /\ seen = Questions!Live /\ missed = Hashes \ Questions!Live /\ no = FALSE
    OBVIOUS
<1>5. answer \in Answers /\ seen \in SUBSET Hashes /\ missed \in SUBSET Hashes /\ no \in BOOLEAN
    BY <1>3, <1>4 DEF Answers
<1>6. e = [tool |-> tool, hash |-> h, limit |-> limit, clock |-> tick, step |-> step,
           todo |-> {}, got |-> <<>>, total |-> 0, answer |-> answer,
           seen |-> seen, lost |-> missed, grew |-> no, moved |-> no]
    BY <1>1, <1>4, Zenon
<1>7. {} \in SUBSET Hashes /\ <<>> \in Seq(Hashes) /\ 0 \in Nat
    OBVIOUS
<1>8. e \in Questions!Asks
    BY <1>5, <1>6, <1>7 DEF Questions!Asks, Steps, Answers
<1> QED BY <1>2, <1>8 DEF AsksTyped

RowsTyping ==
    /\ tick \in 0..LastTick
    /\ entries \in [Hashes -> (0..LastTick) \cup {None}]
    /\ count \in [Hashes -> Nat] /\ shown \in [Hashes -> Nat]
    /\ changes \in 0..MaxChanges

\* A row goes, or is counted, or nothing happens to it.
LEMMA RowsTypingStep ==
    ASSUME RowsTyping, UNCHANGED <<tick, changes>>, NEW h \in Hashes,
           entries' = entries \/ entries' = [entries EXCEPT ![h] = None],
           count' = count \/ count' = [count EXCEPT ![h] = 0] \/ count' = [count EXCEPT ![h] = @ + 1],
           shown' = shown \/ shown' = [shown EXCEPT ![h] = @ + 1]
    PROVE  RowsTyping'
BY DEF RowsTyping

\* The call that a lock section is of.
LEMMA CallTyped ==
    ASSUME QueriesInv, ListsInv, AsksTyped, NEW w \in Askers, Questions!Running(w), NEW c, c = ask[w]
    PROVE  /\ c \in Questions!Asks /\ c # None /\ c.step # "done"
           /\ c.tool \in {"retrieve", "query"} \/ c.step \in {"exists", "clock", "status"} => c.hash \in Hashes
           /\ c.tool \in ListTools => Underway(c)
<1>1. c \in Questions!Asks /\ c # None /\ c.step # "done" /\ AskSound(c)
    BY DEF AsksTyped, Questions!Running, QueriesInv
<1>2. c.tool \in {"retrieve", "query"} \/ c.step \in {"exists", "clock", "status"} => c.hash \in Hashes
    BY <1>1 DEF AskSound, HashSound
<1> QED BY <1>1, <1>2, ListRuns

\* A call whose step, and clock, alone change.
LEMMA StepTyped ==
    ASSUME NEW CONSTANT c \in Questions!Asks, NEW CONSTANT step \in Steps, NEW CONSTANT time \in 0..LastTick,
           NEW CONSTANT todo \in SUBSET Hashes, NEW CONSTANT got \in Seq(Hashes), NEW CONSTANT total \in Nat
    PROVE  /\ [c EXCEPT !.step = step] \in Questions!Asks
           /\ [c EXCEPT !.clock = time, !.step = step] \in Questions!Asks
           /\ [c EXCEPT !.todo = todo, !.step = step] \in Questions!Asks
           /\ [c EXCEPT !.todo = todo, !.got = got] \in Questions!Asks
           /\ [c EXCEPT !.got = got, !.total = total, !.step = step] \in Questions!Asks
BY DEF Questions!Asks, Steps

QueriesTyping == RowsTyping /\ AsksTyped

\* Stores, removals and the clock.
LEMMA OthersType ==
    ASSUME Questions!QueriesAssumption, QueriesTyping,
           Questions!Tick \/ \E h \in Hashes : Questions!Store(h) \/ Questions!Drop(h)
    PROVE  QueriesTyping'
<1>1. /\ tick \in 0..LastTick /\ entries \in [Hashes -> (0..LastTick) \cup {None}]
      /\ count \in [Hashes -> Nat] /\ shown \in [Hashes -> Nat] /\ changes \in 0..MaxChanges
      /\ LastTick \in Nat /\ MaxChanges \in Nat /\ AsksTyped
    BY DEF QueriesTyping, RowsTyping, Questions!QueriesAssumption
<1>2. CASE Questions!Tick
    <2>1. RowsTyping'
        BY <1>1, <1>2 DEF Questions!Tick, RowsTyping
    <2>2. PICK no, moves : no = FALSE /\ moves = (Questions!Live' # Questions!Live)
        OBVIOUS
    <2>3. ask' = [w \in Askers |-> Questions!Witness(ask[w], no, moves)]
        BY <1>2, <2>2, Zenon DEF Questions!Tick
    <2>4. no \in BOOLEAN /\ moves \in BOOLEAN
        BY <2>2
    <2> QED BY <1>1, <2>1, <2>3, <2>4, OthersTyped DEF QueriesTyping
<1>3. ASSUME NEW h \in Hashes, Questions!Store(h) PROVE QueriesTyping'
    <2>1. RowsTyping'
        BY <1>1, <1>3 DEF Questions!Store, RowsTyping
    <2>2. PICK grows, moves : grows = (entries[h] = None) /\ moves = (entries[h] # None)
        OBVIOUS
    <2>3. ask' = [w \in Askers |-> Questions!Witness(ask[w], grows, moves)]
        BY <1>3, <2>2, Zenon DEF Questions!Store
    <2>4. grows \in BOOLEAN /\ moves \in BOOLEAN
        BY <2>2
    <2> QED BY <1>1, <2>1, <2>3, <2>4, OthersTyped DEF QueriesTyping
<1>4. ASSUME NEW h \in Hashes, Questions!Drop(h) PROVE QueriesTyping'
    <2>1. RowsTyping'
        BY <1>1, <1>4 DEF Questions!Drop, RowsTyping
    <2>2. PICK no, yes : no = FALSE /\ yes = TRUE
        OBVIOUS
    <2>3. ask' = [w \in Askers |-> Questions!Witness(ask[w], no, yes)]
        BY <1>4, <2>2, Zenon DEF Questions!Drop
    <2>4. no \in BOOLEAN /\ yes \in BOOLEAN
        BY <2>2
    <2> QED BY <1>1, <2>1, <2>3, <2>4, OthersTyped DEF QueriesTyping
<1> QED BY <1>2, <1>3, <1>4

\* What changes no row.
LEMMA RowsStay ==
    ASSUME RowsTyping, UNCHANGED <<tick, entries, count, changes, shown>>
    PROVE  RowsTyping'
BY DEF RowsTyping

\* The beginning of a tool call.
LEMMA AskTypes ==
    ASSUME Questions!QueriesAssumption, QueriesTyping, NEW w \in Askers,
           \/ \E h \in Hashes \cup {None}, query \in BOOLEAN, filters \in {"none", "some", "bad"} :
                 Questions!AskRetrieve(w, h, query, filters)
           \/ \E limit \in Limits, tool \in {"find", "list"} : Questions!AskPage(w, tool, limit)
    PROVE  QueriesTyping'
<1>1. PICK tool \in Questions!Tools, h \in Hashes \cup {None}, limit \in Nat, step \in Steps :
         Questions!Begin(w, tool, h, limit, step)
    <2>1. ASSUME NEW h \in Hashes \cup {None}, NEW query \in BOOLEAN, NEW filters,
                 Questions!AskRetrieve(w, h, query, filters)
          PROVE  \E tool \in Questions!Tools, limit \in Nat, step \in Steps : Questions!Begin(w, tool, h, limit, step)
        <3>1. PICK tool, refused :
                 /\ tool = IF h = None THEN "rank" ELSE IF query THEN "query" ELSE "retrieve"
                 /\ refused = (filters = "bad" \/ (query /\ filters # "none") \/ (h = None /\ ~query))
            OBVIOUS
        <3>2. PICK step : step = IF refused THEN "done" ELSE IF h = None THEN "keys" ELSE "read"
            OBVIOUS
        <3>3. Questions!Begin(w, tool, h, MaxResults, step)
            BY <2>1, <3>1, <3>2, Zenon DEF Questions!AskRetrieve
        <3>4. tool \in Questions!Tools /\ step \in Steps /\ MaxResults \in Nat
            BY <3>1, <3>2 DEF Questions!Tools, Steps, Questions!QueriesAssumption
        <3> QED BY <3>3, <3>4
    <2>2. ASSUME NEW raw \in Limits, NEW tool \in {"find", "list"}, Questions!AskPage(w, tool, raw)
          PROVE  \E limit \in Nat, step \in Steps : Questions!Begin(w, tool, None, limit, step)
        <3>1. PICK step, limit : step = (IF raw < 1 THEN "done" ELSE "open") /\ limit = Questions!Limit(raw)
            OBVIOUS
        <3>2. Questions!Begin(w, tool, None, limit, step)
            BY <2>2, <3>1, Zenon DEF Questions!AskPage
        <3>3. raw \in Nat /\ LimitCap \in Nat
            BY DEF Questions!QueriesAssumption
        <3>4. limit \in Nat
            BY <3>1, <3>3, MinOfTwo DEF Questions!Limit
        <3>5. step \in Steps
            BY <3>1 DEF Steps
        <3> QED BY <3>2, <3>4, <3>5
    <2> QED BY <2>1, <2>2 DEF Questions!Tools
<1>2. RowsTyping /\ AsksTyped /\ tick \in 0..LastTick
    BY DEF QueriesTyping, RowsTyping
<1>3. RowsTyping'
    BY <1>1, <1>2, RowsStay DEF Questions!Begin
<1>4. AsksTyped'
    BY <1>1, <1>2, BeginTyped
<1> QED BY <1>3, <1>4 DEF QueriesTyping

\* The lock sections of a call about one hash.
LEMMA HashTypes ==
    ASSUME Questions!QueriesAssumption, QueriesInv, ListsInv, QueriesTyping, NEW w \in Askers,
           \/ Questions!Retrieve(w) \/ Questions!Search(w) \/ Questions!Results(w) \/ Questions!Exists(w)
           \/ Questions!StatusClock(w) \/ Questions!Status(w)
    PROVE  QueriesTyping'
<1>1. PICK c, h : c = ask[w] /\ h = c.hash
    OBVIOUS
<1>2. RowsTyping /\ AsksTyped /\ tick \in 0..LastTick
    BY DEF QueriesTyping, RowsTyping
<1>3. Questions!Running(w) /\ (c.tool \in {"retrieve", "query"} \/ c.step \in {"exists", "clock", "status"})
    BY <1>1 DEF Questions!Retrieve, Questions!Search, Questions!Results, Questions!Exists,
                Questions!StatusClock, Questions!Status, Questions!At
<1>4. c \in Questions!Asks /\ c # None /\ h \in Hashes
    BY <1>1, <1>2, <1>3, CallTyped
<1>5. PICK one, none : one = <<h>> /\ none = <<>>
    OBVIOUS
<1>6. one \in Seq(Hashes) /\ none \in Seq(Hashes)
    BY <1>4, <1>5
<1>7. ASSUME NEW answer \in Answers, NEW got \in {one, none}, Questions!Answer(w, answer, got)
      PROVE  AsksTyped'
    BY <1>2, <1>3, <1>6, <1>7, AnswerTyped
<1>8. ASSUME NEW step \in Steps, Questions!Continue(w, [c EXCEPT !.step = step])
      PROVE  AsksTyped'
    <2>1. PICK e : e = [c EXCEPT !.step = step]
        OBVIOUS
    <2>2. e \in Questions!Asks
        BY <1>2, <1>4, <1>6, <2>1, StepTyped
    <2>3. Questions!Continue(w, e)
        BY <1>8, <2>1
    <2> QED BY <1>2, <2>2, <2>3, ContinueTyped
<1>9. ASSUME Questions!Reap(h)
      PROVE  entries' = [entries EXCEPT ![h] = None] /\ count' = [count EXCEPT ![h] = 0]
    BY <1>9 DEF Questions!Reap
<1>10. CASE Questions!Retrieve(w)
    <2>1. RowsTyping'
        <3>1. /\ UNCHANGED <<tick, changes>> /\ (entries' = entries \/ entries' = [entries EXCEPT ![h] = None])
              /\ count' = count \/ count' = [count EXCEPT ![h] = 0] \/ count' = [count EXCEPT ![h] = @ + 1]
              /\ shown' = shown \/ shown' = [shown EXCEPT ![h] = @ + 1]
            BY <1>1, <1>9, <1>10 DEF Questions!Retrieve
        <3> QED BY <1>2, <1>4, <3>1, RowsTypingStep
    <2>2. \/ Questions!Answer(w, "found", one)
          \/ Questions!Continue(w, [c EXCEPT !.step = "clock"])
        BY <1>1, <1>5, <1>10 DEF Questions!Retrieve
    <2>3. "found" \in Answers /\ "clock" \in Steps
        BY DEF Answers, Steps
    <2> QED BY <1>7, <1>8, <2>1, <2>2, <2>3 DEF QueriesTyping
<1>11. CASE Questions!Search(w)
    <2>1. RowsTyping'
        <3>1. /\ UNCHANGED <<tick, changes>> /\ (entries' = entries \/ entries' = [entries EXCEPT ![h] = None])
              /\ count' = count \/ count' = [count EXCEPT ![h] = 0]
              /\ shown' = shown
            BY <1>1, <1>9, <1>11 DEF Questions!Search
        <3> QED BY <1>2, <1>4, <3>1, RowsTypingStep
    <2>2. PICK step : step = IF Questions!LiveAt(h, tick) /\ Questions!HasItems(h) THEN "decode" ELSE "exists"
        OBVIOUS
    <2>3. Questions!Continue(w, [c EXCEPT !.step = step]) /\ step \in Steps
        BY <1>1, <1>11, <2>2 DEF Questions!Search, Steps
    <2> QED BY <1>8, <2>1, <2>3 DEF QueriesTyping
<1>12. CASE Questions!Results(w)
    <2>1. RowsTyping'
        <3>1. /\ UNCHANGED <<tick, changes>> /\ entries' = entries
              /\ count' = count \/ count' = [count EXCEPT ![h] = @ + 1]
              /\ shown' = [shown EXCEPT ![h] = @ + 1]
            BY <1>1, <1>12 DEF Questions!Results
        <3> QED BY <1>2, <1>4, <3>1, RowsTypingStep
    <2>2. Questions!Answer(w, "found", one) /\ "found" \in Answers
        BY <1>1, <1>5, <1>12 DEF Questions!Results, Answers
    <2> QED BY <1>7, <2>1, <2>2 DEF QueriesTyping
<1>13. CASE Questions!Exists(w)
    <2>1. RowsTyping'
        BY <1>2, <1>13, RowsStay DEF Questions!Exists
    <2>2. \/ Questions!Answer(w, "unmatched", none)
          \/ Questions!Continue(w, [c EXCEPT !.step = "clock"])
        BY <1>1, <1>5, <1>13 DEF Questions!Exists
    <2>3. "unmatched" \in Answers /\ "clock" \in Steps
        BY DEF Answers, Steps
    <2> QED BY <1>7, <1>8, <2>1, <2>2, <2>3 DEF QueriesTyping
<1>14. CASE Questions!StatusClock(w)
    <2>1. RowsTyping'
        BY <1>2, <1>14, RowsStay DEF Questions!StatusClock
    <2>2. PICK e, time, step : e = [c EXCEPT !.clock = time, !.step = step] /\ time = tick /\ step = "status"
        OBVIOUS
    <2>3. Questions!Continue(w, e)
        BY <1>1, <1>14, <2>2 DEF Questions!StatusClock
    <2>4. step \in Steps /\ time \in 0..LastTick /\ 0 \in Nat /\ {} \in SUBSET Hashes
        BY <1>2, <2>2 DEF Steps
    <2>5. e \in Questions!Asks
        BY <1>4, <1>6, <2>2, <2>4, StepTyped
    <2>6. AsksTyped'
        BY <1>2, <2>3, <2>5, ContinueTyped
    <2> QED BY <2>1, <2>6 DEF QueriesTyping
<1>15. CASE Questions!Status(w)
    <2>1. PICK cause : cause = IF entries[h] = None THEN "missing"
                               ELSE IF Questions!Expired(h, c.clock) THEN "expired" ELSE "available"
        OBVIOUS
    <2>2. /\ IF cause = "expired" THEN Questions!Reap(h) ELSE UNCHANGED <<entries, count>>
          /\ Questions!Answer(w, cause, none) /\ UNCHANGED <<tick, changes, shown>>
        BY <1>1, <1>5, <1>15, <2>1 DEF Questions!Status
    <2>3. RowsTyping'
        <3>1. /\ UNCHANGED <<tick, changes>> /\ (entries' = entries \/ entries' = [entries EXCEPT ![h] = None])
              /\ count' = count \/ count' = [count EXCEPT ![h] = 0]
              /\ shown' = shown
            BY <1>9, <2>2
        <3> QED BY <1>2, <1>4, <3>1, RowsTypingStep
    <2>4. cause \in Answers
        BY <2>1 DEF Answers
    <2> QED BY <1>7, <2>2, <2>3, <2>4 DEF QueriesTyping
<1> QED BY <1>10, <1>11, <1>12, <1>13, <1>14, <1>15

\* The lock sections of a ranking.
LEMMA RankTypes ==
    ASSUME Questions!QueriesAssumption, QueriesInv, ListsInv, QueriesTyping, NEW w \in Askers,
           Questions!Snapshot(w) \/ Questions!Decode(w) \/ Questions!Rank(w)
    PROVE  QueriesTyping'
<1>1. PICK c : c = ask[w]
    OBVIOUS
<1>2. RowsTyping /\ AsksTyped
    BY DEF QueriesTyping
<1>3. /\ Questions!Running(w) /\ RowsTyping'
      /\ Questions!Decode(w) \/ Questions!Rank(w) => c.tool = "rank"
    BY <1>1, <1>2, RowsStay DEF Questions!Snapshot, Questions!Decode, Questions!Rank, Questions!At
<1>4. c \in Questions!Asks /\ c # None /\ (c.tool = "rank" => HasSeen(c) /\ Ranking(c))
    BY <1>1, <1>2, <1>3, CallTyped DEF Underway, ListTools
<1>5. c.todo \in SUBSET Hashes /\ c.got \in Seq(Hashes) /\ c.total \in Nat /\ c.clock \in 0..LastTick
    BY <1>4 DEF Questions!Asks
<1>6. CASE Questions!Snapshot(w)
    <2>1. PICK todo, step, e : /\ todo = {h \in Hashes : entries[h] # None} /\ step = "decode"
                               /\ e = [c EXCEPT !.todo = todo, !.step = step]
        OBVIOUS
    <2>2. Questions!Continue(w, e)
        BY <1>1, <1>6, <2>1 DEF Questions!Snapshot
    <2>3. todo \in SUBSET Hashes /\ step \in Steps
        BY <2>1 DEF Steps
    <2>4. e \in Questions!Asks
        BY <1>4, <1>5, <2>1, <2>3, StepTyped
    <2> QED BY <1>2, <1>3, <2>2, <2>4, ContinueTyped DEF QueriesTyping
<1>7. CASE Questions!Decode(w)
    <2>1. PICK h \in c.todo :
             Questions!Continue(w, [c EXCEPT !.todo = @ \ {h},
                 !.got = IF Questions!LiveAt(h, c.clock) THEN Append(@, h) ELSE @])
        BY <1>1, <1>7 DEF Questions!Decode
    <2>2. PICK todo, got, e : /\ todo = c.todo \ {h}
                              /\ got = IF Questions!LiveAt(h, c.clock) THEN Append(c.got, h) ELSE c.got
                              /\ e = [c EXCEPT !.todo = todo, !.got = got]
        OBVIOUS
    <2>3. Questions!Continue(w, e)
        BY <2>1, <2>2
    <2>4. todo \in SUBSET Hashes
        BY <1>5, <2>2
    <2>5. got \in Seq(Hashes)
        <3>1. PICK old : old = c.got
            OBVIOUS
        <3>2. old \in Seq(Hashes) /\ h \in Hashes
            BY <1>5, <3>1
        <3>3. Append(old, h) \in Seq(Hashes)
            BY <3>2
        <3> QED BY <2>2, <3>1, <3>2, <3>3
    <2>6. "read" \in Steps
        BY DEF Steps
    <2>7. e \in Questions!Asks
        BY <1>4, <1>5, <2>2, <2>4, <2>5, <2>6, StepTyped
    <2> QED BY <1>2, <1>3, <2>3, <2>7, ContinueTyped DEF QueriesTyping
<1>8. CASE Questions!Rank(w)
    <2>1. PICK old, got, answer : old = c.got /\ got = Questions!Best(old) /\ answer = "listed"
        OBVIOUS
    <2>2. Questions!Answer(w, answer, got)
        BY <1>1, <1>8, <2>1 DEF Questions!Rank
    <2>3. old \in Seq(Hashes) /\ Distinct(old)
        BY <1>3, <1>4, <1>5, <1>8, <2>1 DEF Ranking
    <2>4. got \in Seq(Hashes)
        BY <2>1, <2>3, BestIsBest
    <2>5. answer \in Answers
        BY <2>1 DEF Answers
    <2> QED BY <1>2, <1>3, <2>2, <2>4, <2>5, AnswerTyped DEF QueriesTyping
<1> QED BY <1>6, <1>7, <1>8

\* The lock sections of a search and of a listing.
LEMMA PageTypes ==
    ASSUME Questions!QueriesAssumption, QueriesInv, ListsInv, QueriesTyping, NEW w \in Askers,
           Questions!Open(w) \/ Questions!Find(w) \/ Questions!List(w)
    PROVE  QueriesTyping'
<1>1. PICK c : c = ask[w]
    OBVIOUS
<1>2. RowsTyping /\ AsksTyped /\ tick \in 0..LastTick
    BY DEF QueriesTyping, RowsTyping
<1>3. /\ Questions!Running(w) /\ RowsTyping'
      /\ Questions!Find(w) => c.tool = "find"
      /\ Questions!List(w) => c.tool = "list"
    BY <1>1, <1>2, RowsStay DEF Questions!Open, Questions!Find, Questions!List, Questions!At
<1>4. c \in Questions!Asks /\ c # None
    BY <1>1, <1>2, <1>3, CallTyped
<1>5. PICK old, time, limit : old = c.got /\ time = c.clock /\ limit = c.limit
    OBVIOUS
<1>6. /\ c.todo \in SUBSET Hashes /\ old \in Seq(Hashes) /\ c.total \in Nat /\ time \in 0..LastTick
      /\ limit \in Nat /\ Len(old) \in Nat
    BY <1>4, <1>5 DEF Questions!Asks
<1>7. EntriesTyped
    BY ListsAre
<1>8. CASE Questions!Open(w)
    <2>1. PICK end, step, e : end = tick /\ step = "page" /\ e = [c EXCEPT !.clock = end, !.step = step]
        OBVIOUS
    <2>2. Questions!Continue(w, e)
        BY <1>1, <1>8, <2>1 DEF Questions!Open
    <2>3. end \in 0..LastTick /\ step \in Steps
        BY <1>2, <2>1 DEF Steps
    <2>4. e \in Questions!Asks
        BY <1>4, <1>6, <2>1, <2>3, StepTyped
    <2> QED BY <1>2, <1>3, <2>2, <2>4, ContinueTyped DEF QueriesTyping
<1>9. CASE Questions!Find(w)
    <2>1. PICK S, before, hits, n, got, answer :
            /\ S = {h \in Hashes : Questions!LiveAt(h, time) /\ Questions!Matching(h)}
            /\ before = Questions!NewestFirst /\ hits = Questions!InOrder(S, before)
            /\ n = Questions!Min({limit, Len(hits)}) /\ got = SubSeq(hits, 1, n) /\ answer = "listed"
        OBVIOUS
    <2>2. Questions!Answer(w, answer, got)
        BY <1>1, <1>5, <1>9, <2>1 DEF Questions!Find
    <2>3. S \subseteq Hashes /\ \A h \in S : entries[h] # None
        BY <2>1 DEF Questions!LiveAt, Questions!Expired
    <2>4. OrdersAll(before, S) /\ IsFiniteSet(S)
        BY <1>7, <2>1, <2>3, NewestOrders, QueriesFinite, FS_Subset DEF Questions!QueriesAssumption
    <2>5. hits \in Seq(S) /\ Len(hits) \in Nat
        <3>1. PICK size : size = Cardinality(S)
            OBVIOUS
        <3> QED BY <2>1, <2>4, <3>1, OrderKept
    <2>6. n \in Nat /\ n <= Len(hits)
        BY <1>6, <2>1, <2>5, MinOfTwo
    <2>7. got \in Seq(S)
        BY <2>1, <2>5, <2>6, FirstOf
    <2>8. got \in Seq(Hashes)
        BY <2>3, <2>7
    <2>9. answer \in Answers
        BY <2>1 DEF Answers
    <2> QED BY <1>2, <1>3, <2>2, <2>8, <2>9, AnswerTyped DEF QueriesTyping
<1>10. CASE Questions!List(w)
    <2>1. PICK S, L, a, b, page :
            /\ S = LiveBy(time) /\ L = Questions!Listing(time) /\ a = Len(old) + 1
            /\ b = Questions!Min({Len(old) + limit, Len(L)}) /\ page = SubSeq(L, a, b)
        OBVIOUS
    <2>2. /\ page = <<>> => Questions!Answer(w, "listed", old)
          /\ page # <<>> => Questions!Continue(w, [c EXCEPT !.got = @ \o page, !.total = Len(L), !.step = "open"])
        BY <1>1, <1>5, <1>10, <2>1 DEF Questions!List, Questions!NextPage
    <2>3. L \in Seq(S) /\ Len(L) \in Nat /\ S \subseteq Hashes
        <3>1. PICK size : size = Cardinality(S)
            OBVIOUS
        <3>2. Lists(L, size, S)
            BY <1>7, <2>1, <3>1, ListingPlaces
        <3>3. L \in Seq(S) /\ S \subseteq Hashes
            BY <3>2 DEF Lists
        <3> QED BY <3>3
    <2>4. Len(old) + limit \in Nat /\ a \in Nat \ {0}
        BY <1>6, <2>1
    <2>5. b \in Nat /\ b <= Len(L)
        BY <2>1, <2>3, <2>4, MinOfTwo
    <2>6. page \in Seq(S)
        BY <2>1, <2>3, <2>4, <2>5, Slice
    <2>7. CASE page = <<>>
        <3>1. PICK answer : answer = "listed"
            OBVIOUS
        <3>2. Questions!Answer(w, answer, old) /\ answer \in Answers
            BY <2>2, <2>7, <3>1 DEF Answers
        <3> QED BY <1>2, <1>3, <1>6, <3>2, AnswerTyped DEF QueriesTyping
    <2>8. CASE page # <<>>
        <3>1. PICK got, total, step, e :
                /\ got = old \o page /\ total = Len(L) /\ step = "open"
                /\ e = [c EXCEPT !.got = got, !.total = total, !.step = step]
            OBVIOUS
        <3>2. Questions!Continue(w, e)
            BY <1>5, <2>2, <2>8, <3>1
        <3>3. page \in Seq(Hashes)
            BY <2>3, <2>6
        <3>4. got \in Seq(Hashes)
            BY <1>6, <3>1, <3>3
        <3>5. total \in Nat /\ step \in Steps
            BY <2>3, <3>1 DEF Steps
        <3>6. e \in Questions!Asks
            BY <1>4, <1>6, <3>1, <3>4, <3>5, StepTyped
        <3> QED BY <1>2, <1>3, <3>2, <3>6, ContinueTyped DEF QueriesTyping
    <2> QED BY <2>7, <2>8
<1> QED BY <1>8, <1>9, <1>10

LEMMA QueriesTypingStep ==
    ASSUME Questions!QueriesAssumption, QueriesInv, ListsInv, QueriesTyping,
           [Questions!Next]_(Questions!queryVars)
    PROVE  QueriesTyping'
<1>1. CASE UNCHANGED Questions!queryVars
    BY <1>1 DEF Questions!queryVars, QueriesTyping, RowsTyping, AsksTyped
<1> QED BY <1>1, OthersType, AskTypes, HashTypes, RankTypes, PageTypes DEF Questions!Next

LEMMA QueriesTypingInit ==
    ASSUME Questions!QueriesAssumption, Questions!Init
    PROVE  QueriesTyping
<1>1. RowsTyping
    BY DEF Questions!Init, Questions!QueriesAssumption, RowsTyping
<1>2. AsksTyped
    BY DEF Questions!Init, AsksTyped
<1> QED BY <1>1, <1>2 DEF QueriesTyping

-----------------------------------------------------------------------------
(* The types of every part *)

\* What each part keeps, with its types.
SharedInv ==
    /\ part = "backend" => BackendInv
    /\ part = "stats" => StatsInv
    /\ part = "workers" => WorkersInv
    /\ part = "rows" => RowsInv
    /\ part = "feedback" => FeedbackInv /\ Registered
    /\ part = "namespaces" => SpacesInv
    /\ part = "blocks" => BlocksInv
    /\ part = "queries" => QueriesInv /\ ListsInv /\ QueriesTyping

\* A step of the parts that are not in PartStep.
LEMMA SignalsOnly ==
    ASSUME [Next]_vars
    PROVE  /\ part = "feedback" => [Feedback!Next]_(Feedback!feedbackVars)
           /\ part = "queries" => [Questions!Next]_(Questions!queryVars)
<1>1. CASE Next
    <2>1. (part = "feedback" => Feedback!Next) /\ (part = "queries" => Questions!Next)
        BY <1>1 DEF Next
    <2> QED BY <2>1
<1>2. CASE UNCHANGED vars
    <2>1. UNCHANGED feedbackVars /\ UNCHANGED queryVars
        BY <1>2 DEF vars
    <2> QED BY <2>1 DEF feedbackVars, queryVars, Feedback!feedbackVars, Questions!queryVars
<1> QED BY <1>1, <1>2

\* However the processes, threads and calls interleave, every variable of every part keeps
\* its type, for any constants the assumptions allow; among the types are the bounds of the
\* aggregator of retrieval signals: no more shapes than max_shapes and no longer deque than
\* max_events_per_shape, whatever shapes a new one pushes out (retrieval_feedback.py:301).
THEOREM SharedTypesHold ==
    Spec => []TypeOK
<1>1. Init => SharedInv
    <2> SUFFICES ASSUME Init PROVE SharedInv
        OBVIOUS
    <2>1. (part = "backend" => BackendInv) /\ (part = "stats" => StatsInv) /\ (part = "workers" => WorkersInv)
        BY PartInit, BackendInit, StatsInit, WorkersInit, SharingAssumption
    <2>2. part = "rows" => RowsInv
        BY PartInit, SharingAssumption
        DEF Rows!Init, RowsInv, Rows!TypeOK, RowsLocked, Rows!SnapshotsKept, Holding,
            Rows!PostgresAssumption, Rows!States
    <2>3. ASSUME part = "feedback" PROVE FeedbackInv /\ Registered
        <3>1. Feedback!Init
            BY <2>3 DEF Init
        <3> QED BY <3>1, FeedbackInit, RegisteredInit, SharingAssumption DEF Feedback!Init
    <2>4. (part = "namespaces" => SpacesInv) /\ (part = "blocks" => BlocksInv)
        BY PartInit, SpacesInit, BlocksInit, SharingAssumption DEF Init
    <2>5. part = "queries" => QueriesInv /\ ListsInv /\ QueriesTyping
        BY QueriesInit, ListsInit, QueriesTypingInit, SharingAssumption DEF Init
    <2> QED BY <2>1, <2>2, <2>3, <2>4, <2>5 DEF SharedInv
<1>2. SharedInv /\ [Next]_vars => SharedInv'
    <2> SUFFICES ASSUME SharedInv, [Next]_vars PROVE SharedInv'
        OBVIOUS
    <2>1. /\ part' = "backend" => BackendInv'
          /\ part' = "stats" => StatsInv'
          /\ part' = "workers" => WorkersInv'
        BY PartStep, BackendStep, StatsStep, WorkersStep, SharingAssumption DEF SharedInv
    <2>2. /\ part' = "rows" => RowsInv'
          /\ part' = "namespaces" => SpacesInv'
          /\ part' = "blocks" => BlocksInv'
        BY PartStep, RowsStep, SpacesStep, BlocksOnly, BlocksStep, SharingAssumption DEF SharedInv
    <2>3. part' = "feedback" => FeedbackInv' /\ Registered'
        BY PartStep, SignalsOnly, FeedbackStep, RegisteredStep, SharingAssumption DEF SharedInv
    <2>4. part' = "queries" => QueriesInv' /\ ListsInv' /\ QueriesTyping'
        BY PartStep, SignalsOnly, QueriesStep, ListsStep, QueriesTypingStep, SharingAssumption DEF SharedInv
    <2> QED BY <2>1, <2>2, <2>3, <2>4 DEF SharedInv
<1>3. SharedInv => TypeOK
    <2> SUFFICES ASSUME SharedInv PROVE TypeOK
        OBVIOUS
    <2>1. /\ part = "backend" => Backend!TypeOK
          /\ part = "stats" => Stats!TypeOK
          /\ part = "workers" => Workers!TypeOK
          /\ part = "rows" => Rows!TypeOK
        BY DEF SharedInv, BackendInv, StatsInv, WorkersInv, RowsInv
    <2>2. part = "namespaces" => Spaces!TypeOK
        BY DEF SharedInv, SpacesInv
    <2>3. part = "blocks" => Blocks!TypeOK
        BY DEF SharedInv, BlocksInv
    <2>4. part = "feedback" => Feedback!TypeOK
        BY FeedbackTypes, SharingAssumption DEF SharedInv
    <2>5. part = "queries" => Questions!TypeOK
        BY DEF SharedInv, QueriesTyping, RowsTyping, AsksTyped, Questions!TypeOK
    <2> QED BY <2>1, <2>2, <2>3, <2>4, <2>5 DEF TypeOK
<1> QED BY <1>1, <1>2, <1>3, PTL DEF Spec

=============================================================================
