----------------------------- MODULE DashboardProofs -----------------------------
(***************************************************************************)
(* Proofs about Dashboard, for every set of miners and any number of       *)
(* rounds: what a record that is posted holds, and that no client is left  *)
(* open. The invariant says, for each position in a round, which fields    *)
(* were assigned, under which address, and which clients are open.         *)
(***************************************************************************)
EXTENDS Dashboard, TLAPS

Addrs == Actors \cup {NoActor}
Strings == Addrs \cup {Unparsed}
Words == {"value", "zero", "error", "short", "misfit", "panic", "default"}
Entries == [val : Words, of : Strings, fresh : BOOLEAN]
DashType ==
  /\ phase \in {"fetch", "close", "post", "sleep", "hung"} /\ step \in 1..8
  /\ addr \in Addrs
  /\ lotus \in [Fields -> Entries]

\* The field that call number k of a round fills; the size waits for the count.
FieldOf == <<"addrs", "id", "head", "miner", "power", "balance", "none", "size">>

\* The field of call k was assigned in this round; addr was parsed from the string
\* in "miner", and the calls behind that for the actor have used it.
About(k, of, a) == /\ k = 4 => NewFromString(of) = a
                   /\ k > 4 => of = a
Filled(k) ==
  FieldOf[k] # "none" => /\ lotus[FieldOf[k]].fresh
                         /\ About(k, lotus[FieldOf[k]].of, addr)

RecordInv ==
  /\ phase = "fetch" => \A k \in 1..(step - 1) : Filled(k)
  /\ phase \in {"close", "post"} => \A k \in 1..8 : Filled(k)

OpenInv ==
  /\ phase = "fetch" /\ crashed = "no" => open = {Calls[k] : k \in 1..(step - 1)}
  /\ phase \in {"post", "sleep"} => step = 1

DashInv == DashType /\ RecordInv /\ OpenInv /\ NoClientLeak

-----------------------------------------------------------------------------
\* No field is filled by two calls.
LEMMA FieldOfFacts ==
  /\ \A k \in 1..8 : FieldOf[k] \in Fields \cup {"none"}
  /\ \A k \in 1..8 : FieldOf[k] = "none" <=> k = 7
  /\ \A j, k \in 1..8 : FieldOf[j] = FieldOf[k] => j = k
  /\ FieldOf[4] = "miner" /\ FieldOf[5] = "power" /\ FieldOf[6] = "balance" /\ FieldOf[8] = "size"
  /\ \A f \in Fields : \E k \in 1..8 : FieldOf[k] = f
BY DEF FieldOf, Fields

\* What a call comes back with is one of the words of the model.
LEMMA ResultsAreWords == ASSUME NEW c PROVE Results(c) \subseteq Words
BY DEF Results, Words

\* An assignment to one field of the record.
LEMMA PutFacts ==
  ASSUME lotus \in [Fields -> Entries],
         NEW f \in Fields, NEW v \in Words, NEW a \in Strings, Put(f, v, a)
  PROVE  /\ lotus' \in [Fields -> Entries]
         /\ lotus'[f].fresh /\ lotus'[f].of = a
         /\ \A g \in Fields \ {f} : lotus'[g] = lotus[g]
BY DEF Put, Entries

\* A call whose result does not panic fills its field, if it has one, under the
\* address in force afterwards; only the call for the actor changes that.
LEMMA FetchFills ==
  ASSUME DashType, fetch, crashed' = crashed, crashed = "no"
  PROVE  /\ open' = open \cup {Calls[step]} /\ Advance(Calls, "close")
         /\ addr' \in Addrs /\ (step # 4 => addr' = addr)
         /\ IF step = 7 THEN lotus' = lotus
            ELSE \E v \in Words, a \in Strings :
                   About(step, a, addr') /\ Put(FieldOf[step], v, a)
<1>1. PICK r \in Results(Calls[step]) :
        /\ open' = open \cup {Calls[step]} /\ Advance(Calls, "close")
        /\ IF Calls[step] = "actor" THEN fetchActor(r)
           ELSE Store(Calls[step], r) /\ UNCHANGED addr
  BY DEF fetch, PanicOf
<1>2. r \in Words
  BY <1>1, ResultsAreWords
<1>3. step \in 1..8 /\ addr \in Addrs
  BY DEF DashType
<1>4. CASE step = 4
  <2>1. fetchActor(r)
    BY <1>1, <1>4 DEF Calls
  <2>2. PICK a \in Strings : Put("miner", r, a) /\ addr' = NewFromString(a)
    BY <2>1 DEF fetchActor, Names, Strings, Addrs
  <2>3. FieldOf[step] = "miner"
    BY <1>4 DEF FieldOf
  <2>4. addr' \in Addrs /\ About(step, a, addr')
    BY <1>4, <2>2 DEF NewFromString, Addrs, About
  <2> QED
    BY <1>1, <1>2, <1>4, <2>2, <2>3, <2>4
<1>5. CASE step = 7
  <2>1. Store("size", r) /\ UNCHANGED addr
    BY <1>1, <1>5 DEF Calls
  <2> QED
    BY <1>1, <1>3, <1>5, <2>1 DEF Store
<1>6. CASE step = 8
  <2>1. Store("count", r) /\ UNCHANGED addr
    BY <1>1, <1>6 DEF Calls
  <2>2. Put("size", r, addr)
    BY <2>1 DEF Store
  <2>3. FieldOf[step] = "size"
    BY <1>6 DEF FieldOf
  <2>4. addr \in Strings /\ About(step, addr, addr')
    BY <1>3, <1>6, <2>1 DEF Strings, About
  <2> QED
    BY <1>1, <1>2, <1>3, <1>6, <2>1, <2>2, <2>3, <2>4
<1>7. CASE step \in {1, 2, 3, 5, 6}
  <2>1. /\ Calls[step] = FieldOf[step]
        /\ FieldOf[step] \notin {"actor", "size", "count"}
    BY <1>7 DEF Calls, FieldOf
  <2>2. Store(FieldOf[step], r) /\ UNCHANGED addr
    BY <1>1, <2>1
  <2>3. \E v \in Words : Put(FieldOf[step], v, addr)
    BY <1>2, <2>1, <2>2 DEF Store, Words
  <2>4. addr \in Strings /\ About(step, addr, addr')
    BY <1>3, <1>7, <2>2 DEF Strings, About
  <2> QED
    BY <1>1, <1>3, <1>7, <2>2, <2>3, <2>4
<1> QED
  BY <1>3, <1>4, <1>5, <1>6, <1>7

\* A call of the round.
LEMMA FetchStep ==
  ASSUME DashInv, fetch, crashed = "no"
  PROVE  DashInv'
<1>1. CASE crashed' # "no"
  <2>1. phase = "fetch" /\ UNCHANGED <<phase, step, addr, sizeData, lotus>>
    BY <1>1 DEF fetch
  <2> QED
    BY <1>1, <2>1 DEF DashInv, DashType, RecordInv, Filled, OpenInv, NoClientLeak
<1>2. CASE crashed' = "no"
  <2>1. phase = "fetch" /\ step \in 1..8 /\ DashType
    BY DEF fetch, DashInv, DashType
  <2>2. /\ open' = open \cup {Calls[step]}
        /\ step' = IF step = 8 THEN 1 ELSE step + 1
        /\ phase' = IF step = 8 THEN "close" ELSE "fetch"
        /\ addr' \in Addrs /\ (step # 4 => addr' = addr)
        /\ IF step = 7 THEN lotus' = lotus
           ELSE \E v \in Words, a \in Strings :
                  About(step, a, addr') /\ Put(FieldOf[step], v, a)
    <3>1. Len(Calls) = 8
      BY DEF Calls
    <3> QED
      BY <1>2, <2>1, <3>1, FetchFills DEF Advance
  <2>3. /\ lotus' \in [Fields -> Entries]
        /\ step # 7 => lotus'[FieldOf[step]].fresh /\ About(step, lotus'[FieldOf[step]].of, addr')
        /\ \A g \in Fields : g # FieldOf[step] => lotus'[g] = lotus[g]
    <3>1. CASE step = 7
      BY <2>1, <2>2, <3>1 DEF DashType
    <3>2. CASE step # 7
      <4>1. PICK v \in Words, a \in Strings : About(step, a, addr') /\ Put(FieldOf[step], v, a)
        BY <2>2, <3>2
      <4>2. FieldOf[step] \in Fields /\ lotus \in [Fields -> Entries]
        BY <2>1, <3>2, FieldOfFacts DEF DashType
      <4> QED
        BY <4>1, <4>2, PutFacts
    <3> QED
      BY <3>1, <3>2
  <2>t. DashType'
    BY <2>1, <2>2, <2>3 DEF DashType
  <2>4. \A k \in 1..step : Filled(k)'
    <3> SUFFICES ASSUME NEW k \in 1..step, FieldOf[k] # "none"
                 PROVE  /\ lotus'[FieldOf[k]].fresh
                        /\ About(k, lotus'[FieldOf[k]].of, addr')
      BY DEF Filled
    <3>1. k \in 1..8 /\ FieldOf[k] \in Fields
      BY <2>1, FieldOfFacts
    <3>2. CASE k = step
      BY <2>1, <2>3, <3>1, <3>2, FieldOfFacts
    <3>3. CASE k < step
      <4>1. lotus'[FieldOf[k]] = lotus[FieldOf[k]]
        BY <2>1, <2>3, <3>1, <3>3, FieldOfFacts
      <4>2. Filled(k)
        BY <2>1, <3>3 DEF DashInv, RecordInv
      <4>3. k >= 4 => addr' = addr
        BY <2>1, <2>2, <3>3
      <4> QED
        BY <4>1, <4>2, <4>3 DEF Filled, About
    <3> QED
      BY <2>1, <3>2, <3>3
  <2>5. RecordInv'
    BY <2>1, <2>2, <2>4 DEF RecordInv
  <2>6. open' = {Calls[k] : k \in 1..step}
    BY <1>2, <2>1, <2>2 DEF DashInv, OpenInv
  <2>7. OpenInv'
    BY <2>1, <2>2, <2>6 DEF OpenInv
  <2>8. NoClientLeak'
    <3>1. {Calls[k] : k \in 1..8} = {CloseOrder[k] : k \in 1..8}
      BY DEF Calls, CloseOrder
    <3>2. Len(CloseOrder) = 8
      BY DEF CloseOrder
    <3> QED
      BY <2>1, <2>2, <2>6, <3>1, <3>2 DEF NoClientLeak
  <2> QED
    BY <2>t, <2>5, <2>7, <2>8 DEF DashInv
<1> QED
  BY <1>1, <1>2

\* A client is closed.
LEMMA CloseStep ==
  ASSUME DashInv, closeClient
  PROVE  DashInv'
<1>1. /\ phase = "close" /\ step \in 1..8 /\ Len(CloseOrder) = 8
      /\ open' = open \ {CloseOrder[step]}
      /\ step' = IF step = 8 THEN 1 ELSE step + 1
      /\ phase' = IF step = 8 THEN "post" ELSE "close"
      /\ UNCHANGED <<addr, sizeData, lotus, crashed>>
  BY DEF closeClient, Advance, CloseOrder, DashInv, DashType
<1>2. DashType' /\ RecordInv'
  BY <1>1 DEF DashInv, DashType, RecordInv, Filled
<1>3. open' = {CloseOrder[k] : k \in (step + 1)..8}
  <2>1. open = {CloseOrder[k] : k \in step..8}
    BY <1>1 DEF DashInv, NoClientLeak
  <2>2. \A j, k \in 1..8 : CloseOrder[j] = CloseOrder[k] => j = k
    BY DEF CloseOrder
  <2> QED
    BY <1>1, <2>1, <2>2
<1>4. OpenInv' /\ NoClientLeak'
  BY <1>1, <1>3 DEF OpenInv, NoClientLeak
<1> QED
  BY <1>2, <1>4 DEF DashInv

\* Every step preserves the invariant.
LEMMA NextDash == DashInv /\ [Next]_vars => DashInv'
<1> SUFFICES ASSUME DashInv, [Next]_vars PROVE DashInv'
  OBVIOUS
<1>1. CASE Next /\ fetch
  BY <1>1, FetchStep DEF Next
<1>2. CASE closeClient
  BY <1>2, CloseStep
<1>3. CASE dialFails
  BY <1>3 DEF dialFails, DashInv, DashType, RecordInv, Filled, OpenInv, NoClientLeak
<1>4. CASE NewTransmitClient
  BY <1>4 DEF NewTransmitClient, DashInv, DashType, RecordInv, Filled, OpenInv, NoClientLeak
<1>5. CASE nextRound
  <2>1. lotus' \in [Fields -> Entries]
    BY <1>5 DEF nextRound, DashInv, DashType, Entries
  <2>2. DashType' /\ RecordInv'
    BY <1>5, <2>1 DEF nextRound, DashInv, DashType, RecordInv, OpenInv
  <2>3. OpenInv' /\ NoClientLeak'
    BY <1>5 DEF nextRound, DashInv, OpenInv, NoClientLeak
  <2> QED
    BY <2>2, <2>3 DEF DashInv
<1>6. CASE callHangs \/ clientDies \/ closerHangs
  BY <1>6 DEF callHangs, clientDies, closerHangs, DashInv, DashType, RecordInv, Filled, OpenInv,
     NoClientLeak
<1>7. CASE UNCHANGED vars
  BY <1>7 DEF vars, DashInv, DashType, RecordInv, Filled, OpenInv, NoClientLeak
<1> QED
  BY <1>1, <1>2, <1>3, <1>4, <1>5, <1>6, <1>7 DEF Next

\* The position in the round determines what is filled and open, always.
THEOREM DashInductive == Spec => []DashInv
<1>1. Init => DashInv
  BY DEF Init, DashInv, DashType, Addrs, Strings, Entries, Words, RecordInv, OpenInv, NoClientLeak
<1> QED
  BY <1>1, NextDash, PTL DEF Spec

\* The record that NewTransmitClient posts holds nothing of an earlier round.
THEOREM DashFreshRecord == Spec => []FreshRecord
<1>1. DashInv => FreshRecord
  BY FieldOfFacts DEF DashInv, RecordInv, Filled, FreshRecord, Fields
<1> QED
  BY <1>1, DashInductive, PTL

\* What a posted record says of power, balance and sectors is about the address
\* that the name in it parses to (address.Undef if it does not), in every round.
THEOREM DashOneMiner == Spec => []OneMiner
<1>1. DashInv => OneMiner
  BY FieldOfFacts DEF DashInv, RecordInv, Filled, About, OneMiner
<1> QED
  BY <1>1, DashInductive, PTL

\* No client that main opened in a round is still open when the record is
\* posted, and none is closed twice.
THEOREM DashNoClientLeak == Spec => []NoClientLeak
<1>1. DashInv => NoClientLeak
  BY DEF DashInv
<1> QED
  BY <1>1, DashInductive, PTL
=============================================================================
