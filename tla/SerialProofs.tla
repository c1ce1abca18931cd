----------------------------- MODULE SerialProofs -----------------------------
(***************************************************************************)
(* Proofs about the programs of samples/drone_control (MCSerial), for any  *)
(* number of drones, words of a state, states, losses and steps.           *)
(*                                                                         *)
(* The text protocol: a drone's request is in one place at a time, on the  *)
(* line, with main, with its worker, or answered on the way back, and in   *)
(* none when the host may send the next (OneRequest), until a line is      *)
(* accepted with another drone's id.  So main never stores into a state    *)
(* that its worker reads.                                                  *)
(*                                                                         *)
(* The setup: at each point of a program its matrices, references and      *)
(* measurements are those of the steps done so far (SetupInv).             *)
(*                                                                         *)
(* The binary line: a worker's copy differs from main's state only while   *)
(* main writes or has told the worker to copy again, and the bytes to the  *)
(* host are whole responses and the beginning of at most one (LineInv).    *)
(***************************************************************************)
EXTENDS MCSerial, Integers, TLAPS

\* What the numbers are.
LEMMA SerialNumbers ==
    /\ NUM_DRONES \in Nat /\ NUM_DRONES >= 1 /\ NSTATES \in Nat /\ NSTATES >= 1
    /\ HDR_LEN \in Nat /\ HDR_LEN >= 1 /\ ACT_BYTES \in Nat /\ ACT_BYTES >= 1
    /\ NS_BYTES \in Nat /\ NS_BYTES >= 1 /\ STEPS \in Nat /\ STEPS >= 1
    /\ CYCLES \in Nat /\ CYCLES >= 1 /\ MAX_PACKETS \in Nat /\ MAX_LOSS \in Nat
    /\ MAX_STATES \in Nat /\ NHORIZON \in Nat /\ NHORIZON >= 2
BY SerialAssumption

-----------------------------------------------------------------------------
(* SerialText *)

TextLine   == [of : Drones, id : Text!Ids, k : Nat, end : BOOLEAN]
TextAction == [kind : {"u"}, id : Drones, k : Nat]
TextOut    == TextAction \union [kind : {"invalid", "end", "rest"}]

TextTypes ==
    /\ tfw \in {"mt", "single"} /\ tfleet \in 1 .. NUM_DRONES /\ (tfw = "single" => tfleet = 1)
    /\ tline \in Seq(TextLine) /\ tlost \in Nat
    /\ mpc \in {"recv", "check", "invalid", "store", "solve", "sent", "outside"}
    /\ mid \in Text!Ids /\ mstate \in Nat /\ mj \in 1 .. NSTATES + 1
    /\ tobs \in [Drones -> [Places -> Nat]] /\ start_sem \in [Drones -> {0, 1}]
    /\ twpc \in [Drones -> {"take", "load", "lock", "send"}]
    /\ tcur \in [Drones -> [Places -> Nat]] /\ twj \in [Drones -> 1 .. NSTATES + 1]
    /\ tout \in Seq(TextOut) /\ hnext \in 0 .. tfleet + 1
    /\ pending \in [Drones -> BOOLEAN] /\ sentState \in [Drones -> Nat]
    /\ acted \in [Drones -> Nat] /\ misread \in SUBSET {"id", "state", "action"}

\* The words that main has stored, and with which firmware it does what.
MainStores ==
    /\ \A n \in DOMAIN tline : tline[n].of < tfleet
    /\ mpc = "store" => /\ mj <= NSTATES /\ mstate # 0 /\ tfw = "mt" /\ mid \in Drones
                        /\ \A j \in 1 .. mj - 1 : tobs[mid][j] = mstate
    /\ mpc = "solve" => tfw = "single" /\ mstate # 0
    /\ tfw = "single" => mid = 0 /\ \A d \in Drones : start_sem[d] = 0 /\ twpc[d] = "take"
    /\ \A d \in Drones : twpc[d] = "load" => twj[d] <= NSTATES

\* Nothing is misread before a line was damaged or cut.
Undamaged ==
    tlost = 0 =>
        /\ misread = {} /\ mpc \notin {"invalid", "outside"} /\ (mpc = "check" => mstate # 0)
        /\ mid \in Drones
        /\ \A n \in DOMAIN tline :
              tline[n].id = tline[n].of /\ tline[n].k \notin {0, Text!Garbage} /\ tline[n].end

\* What holds whatever the line did.
TextBase == TextTypes /\ MainStores /\ Undamaged

\* Where the request of drone d may be.
InLine(d)   == \E n \in DOMAIN tline : tline[n].of = d
AtMain(d)   == mpc \in {"check", "store", "solve"} /\ mid = d /\ mstate # 0
AtWorker(d) == start_sem[d] = 1 \/ twpc[d] \in {"load", "lock"}
IsFor(l, d) == l.kind = "u" /\ l.id = d
InOut(d)    == \E n \in DOMAIN tout : IsFor(tout[n], d)

\* It is in one place, and in none once the host has its action.
OneRequest ==
    \A d \in Drones :
        /\ \A n, h \in DOMAIN tline : tline[n].of = d /\ tline[h].of = d => n = h
        /\ \A n, h \in DOMAIN tout : IsFor(tout[n], d) /\ IsFor(tout[h], d) => n = h
        /\ InLine(d) => ~AtMain(d) /\ ~AtWorker(d) /\ ~InOut(d)
        /\ AtMain(d) => ~AtWorker(d) /\ ~InOut(d)
        /\ AtWorker(d) => ~InOut(d)
        /\ start_sem[d] = 1 => twpc[d] \notin {"load", "lock"}
        /\ InLine(d) \/ AtMain(d) \/ AtWorker(d) \/ InOut(d) => ~pending[d]

\* Number k is that of the state sent last to drone d, as long as nothing was misread.
Last(d, k) == misread = {} => k = sentState[d]

\* Wherever it is, it is the one sent last, and whole.
RequestIsLast ==
    /\ \A n \in DOMAIN tline : tline[n].k \in {0, Text!Garbage, sentState[tline[n].of]}
    /\ \A n \in DOMAIN tout : tout[n].kind = "u" => Last(tout[n].id, tout[n].k)
    /\ \A d \in Drones :
          /\ AtMain(d) => Last(d, mstate)
          /\ AtWorker(d) => Last(d, tobs[d][1]) /\ \A j \in Places : tobs[d][j] = tobs[d][1]
          /\ twpc[d] = "load" => \A j \in 1 .. twj[d] - 1 : tcur[d][j] = tobs[d][1]
          /\ twpc[d] = "lock" => \A j \in Places : tcur[d][j] = tobs[d][1]
          /\ twpc[d] = "send" => \A j \in Places : tcur[d][j] = tcur[d][1]
          /\ d < tfleet /\ pending[d] => Last(d, acted[d])

\* A request is lost only with a line.
LostWithLine ==
    tlost = 0 => \A d \in Drones : d < tfleet /\ ~pending[d] =>
                    InLine(d) \/ AtMain(d) \/ AtWorker(d) \/ InOut(d)

\* What holds until a line is accepted with the id of another drone.
TextRel == OneRequest /\ RequestIsLast /\ LostWithLine
TextInv == TextBase /\ ("id" \notin misread => TextRel)

\* What a sequence is after an element, or two, came to its end.
LEMMA Appended ==
    ASSUME NEW T, NEW s \in Seq(T), NEW e \in T
    PROVE  /\ Append(s, e) \in Seq(T) /\ Len(Append(s, e)) = Len(s) + 1
           /\ \A i \in 1 .. Len(s) : Append(s, e)[i] = s[i]
           /\ Append(s, e)[Len(s) + 1] = e
OBVIOUS

\* The same for two.
LEMMA AppendedTwo ==
    ASSUME NEW T, NEW s \in Seq(T), NEW e \in T, NEW f \in T
    PROVE  /\ s \o <<e, f>> \in Seq(T) /\ Len(s \o <<e, f>>) = Len(s) + 2
           /\ \A i \in 1 .. Len(s) : (s \o <<e, f>>)[i] = s[i]
           /\ (s \o <<e, f>>)[Len(s) + 1] = e /\ (s \o <<e, f>>)[Len(s) + 2] = f
OBVIOUS

\* What a sequence is without its first n elements.
LEMMA Dropped ==
    ASSUME NEW T, NEW s \in Seq(T), NEW n \in 1 .. Len(s)
    PROVE  /\ SubSeq(s, n + 1, Len(s)) \in Seq(T) /\ Len(SubSeq(s, n + 1, Len(s))) = Len(s) - n
           /\ \A i \in 1 .. Len(s) - n : SubSeq(s, n + 1, Len(s))[i] = s[i + n]
OBVIOUS

\* What a sequence is without its first element.
LEMMA DroppedOne ==
    ASSUME NEW T, NEW s \in Seq(T), Len(s) >= 1
    PROVE  /\ Tail(s) \in Seq(T) /\ Len(Tail(s)) = Len(s) - 1
           /\ \A i \in 1 .. Len(s) - 1 : Tail(s)[i] = s[i + 1]
OBVIOUS

\* What a sequence is without its first two elements.
LEMMA DroppedTwo ==
    ASSUME NEW T, NEW s \in Seq(T), Len(s) >= 2
    PROVE  /\ Tail(Tail(s)) \in Seq(T) /\ Len(Tail(Tail(s))) = Len(s) - 2
           /\ \A i \in 1 .. Len(s) - 2 : Tail(Tail(s))[i] = s[i + 2]
<1>1. /\ Tail(s) \in Seq(T) /\ Len(Tail(s)) = Len(s) - 1 /\ Len(s) \in Nat
      /\ \A i \in 1 .. Len(s) - 1 : Tail(s)[i] = s[i + 1]
  BY DroppedOne
<1> DEFINE t == Tail(s)
<1>2. t \in Seq(T) /\ Len(t) >= 1
  BY <1>1
<1> HIDE DEF t
<1>3. /\ Tail(t) \in Seq(T) /\ Len(Tail(t)) = Len(t) - 1
      /\ \A i \in 1 .. Len(t) - 1 : Tail(t)[i] = t[i + 1]
  BY <1>2, DroppedOne
<1> QED
  BY <1>1, <1>3 DEF t

\* What a sequence is with one element replaced.
LEMMA Replaced ==
    ASSUME NEW T, NEW s \in Seq(T), NEW n \in DOMAIN s, NEW e \in T
    PROVE  /\ [s EXCEPT ![n] = e] \in Seq(T) /\ DOMAIN [s EXCEPT ![n] = e] = DOMAIN s
           /\ [s EXCEPT ![n] = e][n] = e
           /\ \A i \in DOMAIN s \ {n} : [s EXCEPT ![n] = e][i] = s[i]
OBVIOUS

\* The domain of a sequence, in the form the proofs use.
LEMMA Indices == ASSUME NEW T, NEW s \in Seq(T) PROVE Len(s) \in Nat /\ DOMAIN s = 1 .. Len(s)
OBVIOUS

\* A product grows with its factor.
LEMMA Grows == ASSUME NEW a \in Nat, NEW b \in Nat, NEW n \in Nat, a <= b PROVE a * n <= b * n
OBVIOUS

\* The drones of the text protocol are those of the binary one.
LEMMA TextNames ==
    /\ Text!Drones = Drones /\ Text!Places = Places /\ Text!Nobody = NUM_DRONES
    /\ Drones = 0 .. NUM_DRONES - 1 /\ Places = 1 .. NSTATES /\ NUM_DRONES \in Nat
    /\ NSTATES \in Nat /\ NUM_DRONES >= 1 /\ NSTATES >= 1
    /\ Text!Ids = -1 .. NUM_DRONES /\ Text!Garbage = MAX_STATES + 1 /\ MAX_STATES \in Nat
    /\ Text!Garbage \in Nat /\ Text!Garbage # 0 /\ Drones \subseteq Text!Ids
BY SerialNumbers DEF Text!Drones, Text!Places, Text!Nobody, Text!Ids, Text!Garbage, Drones, Places

\* The host's steps keep the base: its turns, and what it takes from the line.
LEMMA HostKeepsBase ==
    ASSUME TextBase, Text!SendState \/ Text!NotPending \/ Text!ReadAction \/ Text!TimeOut \/ Text!CutAction
    PROVE  TextBase'
<1>1. /\ UNCHANGED <<tfw, tfleet, mpc, mid, mstate, mj, tobs, start_sem, twpc, tcur, twj, tmutex>>
      /\ tlost' \in {tlost, tlost + 1} /\ (tlost' = tlost => misread' = misread)
  BY DEF TextBase, TextTypes, Text!SendState, Text!NotPending, Text!ReadAction, Text!TimeOut, Text!CutAction, Text!board, Text!shared, Text!solvers
<1>2. TextTypes
  BY DEF TextBase
<1>3. tlost \in Nat /\ tfleet \in Nat /\ tfleet >= 1 /\ tfleet <= NUM_DRONES /\ hnext \in 0 .. tfleet + 1
  BY <1>2, TextNames DEF TextTypes
<1>4. hnext' \in 0 .. tfleet + 1
  BY <1>3 DEF Text!SendState, Text!NotPending, Text!ReadAction, Text!TimeOut, Text!CutAction
<1>5. misread' \in SUBSET {"id", "state", "action"}
  BY <1>2 DEF TextTypes, Text!SendState, Text!NotPending, Text!ReadAction, Text!TimeOut, Text!CutAction
<1>6. tout' \in Seq(TextOut)
  <2>1. CASE Text!ReadAction
    <3>1. Len(tout) >= 2 /\ tout' = Tail(Tail(tout)) /\ tout \in Seq(TextOut)
      BY <2>1, <1>2 DEF Text!ReadAction, TextTypes
    <3> QED
      BY <3>1, DroppedTwo
  <2>2. CASE Text!CutAction
    <3>1. [kind |-> "rest"] \in TextOut /\ tout' = <<[kind |-> "rest"]>>
      BY <2>2 DEF TextOut, Text!CutAction
    <3> QED
      BY <3>1
  <2>3. CASE Text!SendState \/ Text!NotPending \/ Text!TimeOut
    BY <2>3, <1>2 DEF Text!SendState, Text!NotPending, Text!TimeOut, TextTypes
  <2> QED
    BY <2>1, <2>2, <2>3
<1>7. pending' \in [Drones -> BOOLEAN] /\ sentState' \in [Drones -> Nat] /\ acted' \in [Drones -> Nat]
  <2>1. ASSUME NEW a \in TextAction, NEW n \in Nat, Text!Apply(a, n)
        PROVE  pending' \in [Drones -> BOOLEAN] /\ acted' \in [Drones -> Nat]
    <3>1. \/ UNCHANGED <<acted, pending>>
          \/ acted' = [acted EXCEPT ![a.id] = n] /\ pending' = [pending EXCEPT ![a.id] = TRUE]
      BY <2>1 DEF Text!Apply
    <3>2. a.id \in Drones
      BY DEF TextAction
    <3>3. PICK d \in Drones : d = a.id
      BY <3>2
    <3>4. /\ acted \in [Drones -> Nat] /\ pending \in [Drones -> BOOLEAN]
          /\ \/ UNCHANGED <<acted, pending>>
             \/ acted' = [acted EXCEPT ![d] = n] /\ pending' = [pending EXCEPT ![d] = TRUE]
      BY <3>1, <3>3, <1>2 DEF TextTypes
    <3> QED
      BY <3>4
  <2>2. CASE Text!ReadAction
    <3>1. sentState' = sentState
      BY <2>2 DEF Text!ReadAction
    <3>2. CASE tout[1].kind = "u"
      <4>1. 1 \in DOMAIN tout /\ tout \in Seq(TextOut)
        BY <2>2, <1>2 DEF Text!ReadAction, TextTypes
      <4>2. tout[1] \in TextOut
        BY <4>1
      <4>3. tout[1] \in TextAction /\ tout[1].k \in Nat /\ Text!Apply(tout[1], tout[1].k)
        BY <4>2, <3>2, <2>2 DEF TextOut, TextAction, Text!ReadAction, Text!IsAction
      <4> QED
        BY <4>3, <2>1, <3>1, <1>2 DEF TextTypes
    <3>3. CASE tout[1].kind # "u"
      BY <3>1, <3>3, <2>2, <1>2 DEF Text!ReadAction, Text!IsAction, TextTypes
    <3> QED
      BY <3>2, <3>3
  <2>3. CASE Text!CutAction
    <3>1. sentState' = sentState
      BY <2>3 DEF Text!CutAction
    <3>2. 1 \in DOMAIN tout /\ tout \in Seq(TextOut) /\ tout[1].kind = "u"
      BY <2>3, <1>2 DEF Text!CutAction, Text!IsAction, TextTypes
    <3>3. tout[1] \in TextOut
      BY <3>2
    <3>4. tout[1] \in TextAction /\ tout[1].k \in Nat /\ Text!Garbage \in Nat
      BY <3>2, <3>3, TextNames DEF TextOut, TextAction
    <3>5. UNCHANGED <<acted, pending>> \/ Text!Apply(tout[1], tout[1].k) \/ Text!Apply(tout[1], Text!Garbage)
      BY <2>3 DEF Text!CutAction
    <3> QED
      BY <3>1, <3>4, <3>5, <2>1, <1>2 DEF TextTypes
  <2>4. CASE Text!NotPending \/ Text!TimeOut
    BY <2>4, <1>2 DEF Text!NotPending, Text!TimeOut, TextTypes
  <2>5. CASE Text!SendState
    <3>1. /\ acted' = acted /\ pending' = [pending EXCEPT ![hnext] = FALSE]
          /\ sentState' = [sentState EXCEPT ![hnext] = @ + 1] /\ hnext \in Drones
      BY <2>5, <1>3, TextNames DEF Text!SendState
    <3>2. sentState[hnext] + 1 \in Nat
      BY <3>1, <1>2 DEF TextTypes
    <3> QED
      BY <3>1, <3>2, <1>2 DEF TextTypes
  <2> QED
    BY <2>2, <2>3, <2>4, <2>5
<1>8. CASE Text!SendState
  <2> DEFINE e == [of |-> hnext, id |-> hnext, k |-> sentState[hnext] + 1, end |-> TRUE]
  <2>1. hnext \in Drones /\ hnext < tfleet /\ tline' = Append(tline, e) /\ tlost' = tlost /\ sentState[hnext] < MAX_STATES
    BY <1>8, <1>3, TextNames DEF Text!SendState
  <2>2. sentState[hnext] + 1 \in Nat /\ sentState[hnext] + 1 \notin {0, Text!Garbage}
    <3>1. sentState[hnext] \in Nat
      BY <2>1, <1>2 DEF TextTypes
    <3> QED
      BY <3>1, <2>1, TextNames
  <2>3. e \in TextLine /\ e.of = hnext /\ e.id = e.of /\ e.k \notin {0, Text!Garbage} /\ e.end
    BY <2>1, <2>2, TextNames DEF TextLine
  <2>4. e.of < tfleet
    BY <2>1
  <2> HIDE DEF e
  <2>5. tline \in Seq(TextLine)
    BY <1>2 DEF TextTypes
  <2>6. /\ tline' \in Seq(TextLine) /\ Len(tline') = Len(tline) + 1
        /\ \A n \in 1 .. Len(tline) : tline'[n] = tline[n]
        /\ tline'[Len(tline) + 1] = e
    BY <2>1, <2>3, <2>5, Appended
  <2>7. \A n \in DOMAIN tline' : (n \in DOMAIN tline /\ tline'[n] = tline[n]) \/ tline'[n] = e
    BY <2>5, <2>6, Indices
  <2>8. TextTypes'
    BY <1>1, <1>2, <1>3, <1>4, <1>5, <1>6, <1>7, <2>1, <2>6 DEF TextTypes
  <2>9. MainStores'
    BY <1>1, <2>4, <2>7 DEF TextBase, MainStores
  <2>10. Undamaged'
    BY <1>1, <2>1, <2>3, <2>7 DEF TextBase, Undamaged
  <2> QED
    BY <2>8, <2>9, <2>10 DEF TextBase
<1>9. CASE tline' = tline
  <2>1. tlost' \in Nat /\ (tlost' = 0 => tlost = 0 /\ misread' = misread)
    BY <1>1, <1>3
  <2>2. TextTypes'
    BY <1>1, <1>2, <1>3, <1>4, <1>5, <1>6, <1>7, <1>9, <2>1 DEF TextTypes
  <2> QED
    BY <2>1, <2>2, <1>1, <1>9 DEF TextBase, MainStores, Undamaged
<1> QED
  BY <1>8, <1>9 DEF Text!NotPending, Text!ReadAction, Text!TimeOut, Text!CutAction

\* What damage does to a line: it is still one, of the drone it was sent for.
LEMMA Damage ==
    ASSUME TextTypes, Text!DamageLine
    PROVE  /\ tline' \in Seq(TextLine) /\ DOMAIN tline' = DOMAIN tline /\ tlost' = tlost + 1
           /\ \A h \in DOMAIN tline : /\ tline'[h].of = tline[h].of
                                      /\ tline'[h].k \in {0, Text!Garbage, tline[h].k}
           /\ UNCHANGED <<tfw, tfleet, mpc, mid, mstate, mj, tobs, start_sem, twpc, tcur, twj, tmutex, tout,
                          hnext, pending, sentState, acted, misread>>
<1>1. PICK n \in DOMAIN tline :
         \/ tline' = [tline EXCEPT ![n].end = FALSE]
         \/ \E a \in Text!Ids, b \in {0, tline[n].k, Text!Garbage} : tline' = [tline EXCEPT ![n].id = a, ![n].k = b]
  BY DEF Text!DamageLine
<1>2. tline \in Seq(TextLine) /\ tline[n] \in TextLine
  BY DEF TextTypes
<1>3. PICK e \in TextLine : /\ tline' = [tline EXCEPT ![n] = e] /\ e.of = tline[n].of
                            /\ e.k \in {0, Text!Garbage, tline[n].k}
  <2>1. CASE tline' = [tline EXCEPT ![n].end = FALSE]
    <3> DEFINE e == [tline[n] EXCEPT !.end = FALSE]
    <3>1. e \in TextLine /\ tline' = [tline EXCEPT ![n] = e] /\ e.of = tline[n].of /\ e.k = tline[n].k
      BY <2>1, <1>2 DEF TextLine
    <3> QED
      BY <3>1
  <2>2. ASSUME NEW a \in Text!Ids, NEW b \in {0, tline[n].k, Text!Garbage},
               tline' = [tline EXCEPT ![n].id = a, ![n].k = b]
        PROVE  \E e \in TextLine : /\ tline' = [tline EXCEPT ![n] = e] /\ e.of = tline[n].of
                                   /\ e.k \in {0, Text!Garbage, tline[n].k}
    <3> DEFINE e == [tline[n] EXCEPT !.id = a, !.k = b]
    <3>1. b \in Nat
      BY <1>2, TextNames DEF TextLine
    <3>2. e \in TextLine /\ e.of = tline[n].of /\ e.k = b
      BY <3>1, <1>2 DEF TextLine
    <3>3. tline' = [tline EXCEPT ![n] = e]
      BY <2>2, <1>2
    <3> QED
      BY <3>2, <3>3
  <2> QED
    BY <1>1, <2>1, <2>2
<1>4. /\ tline' \in Seq(TextLine) /\ DOMAIN tline' = DOMAIN tline /\ tline'[n] = e
      /\ \A h \in DOMAIN tline \ {n} : tline'[h] = tline[h]
  BY <1>2, <1>3, Replaced
<1> QED
  BY <1>3, <1>4 DEF Text!DamageLine, Text!board, Text!shared, Text!solvers, Text!hil

\* Damage keeps the base: it counts.
LEMMA DamageKeepsBase == ASSUME TextBase, Text!DamageLine PROVE TextBase'
<1>1. TextTypes /\ tlost \in Nat
  BY DEF TextBase, TextTypes
<1>2. tlost' \in Nat /\ tlost' # 0 /\ tline' \in Seq(TextLine)
  BY <1>1, Damage
<1>3. TextTypes'
  BY <1>1, <1>2, Damage DEF TextTypes
<1> QED
  BY <1>1, <1>2, <1>3, Damage DEF TextBase, MainStores, Undamaged

\* What recv_str does with lines 1 to n, of which those after the first are taken for parts
\* of it.
Reads(n) ==
    /\ mpc = "recv" /\ mpc' = "check"
    /\ tline[n].end /\ \A h \in 1 .. n - 1 : ~tline[h].end
    /\ mid' = IF tfw = "mt" THEN tline[1].id ELSE tline[1].of
    /\ mstate' \in Nat /\ mstate' \in {tline[1].k, Text!Garbage} /\ (n = 1 => mstate' = tline[1].k)
    /\ misread \subseteq misread' /\ misread' \in SUBSET {"id", "state", "action"}
    /\ (misread' = {} => misread = {})
    /\ ("id" \in misread' /\ "id" \notin misread => mid' # tline[1].of)
    /\ ("id" \notin misread' /\ mstate' # 0 /\ mid' \in Drones => mid' = tline[1].of)
    /\ (mid' \in Drones /\ mstate' = Text!Garbage => misread' # {})
    /\ (mstate' # Text!Garbage /\ mid' = tline[1].of => misread' = misread)
    /\ tline' \in Seq(TextLine) /\ Len(tline') = Len(tline) - n /\ DOMAIN tline' = 1 .. Len(tline) - n
    /\ \A h \in DOMAIN tline' : tline'[h] = tline[h + n] /\ h + n \in DOMAIN tline /\ h + n # 1
    /\ 1 \in DOMAIN tline /\ tline[1] \in TextLine /\ DOMAIN tline = 1 .. Len(tline) /\ Len(tline) \in Nat
    /\ UNCHANGED <<tfw, tfleet, tlost, mj, tobs, start_sem, twpc, tcur, twj, tmutex, tout, hnext, pending, sentState, acted>>

\* recv_str reads the first line so.
LEMMA Received == ASSUME TextTypes, Text!RecvStr PROVE \E n \in 1 .. Len(tline) : Reads(n)
<1>1. PICK n \in DOMAIN tline :
          /\ tline[n].end /\ \A h \in 1 .. n - 1 : ~tline[h].end
          /\ mid' = IF tfw = "mt" THEN tline[1].id ELSE tline[1].of
          /\ mstate' \in (IF n = 1 THEN {tline[1].k} ELSE IF tline[1].k = 0 THEN {0, Text!Garbage} ELSE {Text!Garbage})
          /\ misread' = misread
                \union {w \in {"id"} : mid' # tline[1].of /\ Text!Valid(mid', mstate')}
                \union {w \in {"state"} : mstate' = Text!Garbage /\ Text!Valid(mid', mstate')}
          /\ tline' = SubSeq(tline, n + 1, Len(tline))
  BY DEF Text!RecvStr
<1>2. /\ mpc = "recv" /\ mpc' = "check"
      /\ UNCHANGED <<tfw, tfleet, tlost, mj, tobs, start_sem, twpc, tcur, twj, tmutex, tout, hnext, pending, sentState, acted>>
  BY DEF Text!RecvStr, Text!shared, Text!solvers, Text!hil
<1>3. /\ Len(tline) \in Nat /\ DOMAIN tline = 1 .. Len(tline) /\ n \in 1 .. Len(tline)
      /\ tline \in Seq(TextLine) /\ n \in Nat /\ n >= 1 /\ misread \in SUBSET {"id", "state", "action"}
  BY Indices DEF TextTypes
<1>4. /\ tline' \in Seq(TextLine) /\ Len(tline') = Len(tline) - n
      /\ \A h \in 1 .. Len(tline) - n : tline'[h] = tline[h + n]
  BY <1>1, <1>3, Dropped
<1>5. /\ DOMAIN tline' = 1 .. Len(tline) - n
      /\ \A h \in DOMAIN tline' : tline'[h] = tline[h + n] /\ h + n \in DOMAIN tline /\ h + n # 1
  BY <1>3, <1>4
<1>6. 1 \in DOMAIN tline /\ tline[1] \in TextLine
  BY <1>3
<1>7. mstate' \in Nat /\ mstate' \in {tline[1].k, Text!Garbage} /\ (n = 1 => mstate' = tline[1].k)
  BY <1>1, <1>6, TextNames DEF TextLine
<1>8. mid' \in Drones => (Text!Valid(mid', mstate') <=> mstate' # 0)
  BY TextNames DEF Text!Valid
<1>9. Text!Garbage # 0
  BY TextNames
<1>10. /\ misread \subseteq misread' /\ misread' \in SUBSET {"id", "state", "action"}
       /\ (misread' = {} => misread = {})
       /\ ("id" \in misread' /\ "id" \notin misread => mid' # tline[1].of)
       /\ ("id" \notin misread' /\ mstate' # 0 /\ mid' \in Drones => mid' = tline[1].of)
       /\ (mid' \in Drones /\ mstate' = Text!Garbage => misread' # {})
       /\ (mstate' # Text!Garbage /\ mid' = tline[1].of => misread' = misread)
  <2> HIDE DEF Text!Valid
  <2> QED
    BY <1>1, <1>3, <1>8, <1>9
<1> QED
  BY <1>1, <1>2, <1>3, <1>4, <1>5, <1>6, <1>7, <1>10 DEF Reads

\* Reading a line keeps the base.
LEMMA RecvKeepsBase == ASSUME TextBase, Text!RecvStr PROVE TextBase'
<1>1. TextTypes
  BY DEF TextBase
<1>2. PICK n \in 1 .. Len(tline) : Reads(n)
  BY <1>1, Received
<1> USE <1>2 DEF Reads
<1>3. mid' \in Text!Ids /\ (tfw = "single" => mid' = 0)
  <2>1. tline[1].id \in Text!Ids /\ tline[1].of \in Drones /\ tline[1].of < tfleet
    BY <1>2 DEF TextLine, TextBase, MainStores
  <2>2. tline[1].of \in Text!Ids /\ (tfw = "single" => tline[1].of = 0)
    <3>1. tfw = "single" => tfleet = 1
      BY <1>1 DEF TextTypes
    <3>2. \A d \in Drones : d \in Text!Ids /\ (d < 1 => d = 0)
      BY TextNames
    <3> QED
      BY <3>1, <3>2, <2>1
  <2> QED
    BY <2>1, <2>2, <1>2
<1>4. TextTypes'
  BY <1>1, <1>2, <1>3 DEF TextTypes
<1>5. MainStores'
  BY <1>1, <1>2, <1>3 DEF TextTypes, TextBase, MainStores
<1>6. Undamaged'
  <2> SUFFICES ASSUME tlost = 0 PROVE Undamaged'
    BY <1>2 DEF Undamaged
  <2>1. /\ misread = {} /\ tline[1].id = tline[1].of /\ tline[1].k \notin {0, Text!Garbage}
        /\ \A h \in DOMAIN tline : tline[h].end
    BY <1>2 DEF TextBase, Undamaged
  <2>2. n = 1
    <3> SUFFICES ASSUME n # 1 PROVE FALSE
      OBVIOUS
    <3>1. 1 \in 1 .. n - 1
      BY <1>2
    <3> QED
      BY <3>1, <2>1, <1>2
  <2>3. mid' = tline[1].of /\ mid' \in Drones /\ mstate' \notin {0, Text!Garbage}
    BY <2>1, <2>2, <1>2 DEF TextLine
  <2>4. misread' = {}
    BY <2>1, <2>3, <1>2
  <2> QED
    BY <2>3, <2>4, <1>2 DEF TextBase, Undamaged
<1> QED
  BY <1>4, <1>5, <1>6 DEF TextBase

\* The steps of main after a line was read keep the base.
LEMMA MainKeepsBase ==
    ASSUME TextBase, Text!CheckLine \/ Text!SendInvalid \/ Text!SolveAndSend \/ Text!EndAnswer \/ Text!StoreState
    PROVE  TextBase'
<1>1. TextTypes
  BY DEF TextBase
<1>2. CASE Text!CheckLine
  <2>1. /\ mpc = "check" /\ mj' = 1
        /\ UNCHANGED <<tfw, tfleet, tline, tlost, mid, mstate, tobs, start_sem, twpc, tcur, twj, tmutex, tout, hnext, pending, sentState, acted, misread>>
    BY <1>2 DEF Text!CheckLine, Text!shared, Text!solvers, Text!hil
  <2>2. mid \in -1 .. NUM_DRONES /\ NUM_DRONES \in Nat /\ Drones = 0 .. NUM_DRONES - 1
    BY <1>1, TextNames DEF TextTypes
  <2>3. /\ mpc' \in {"invalid", "solve", "outside", "store"}
        /\ mpc' = "store" => mstate # 0 /\ tfw = "mt" /\ mid \in Drones
        /\ mpc' = "solve" => mstate # 0 /\ tfw = "single"
        /\ mstate # 0 /\ mid \in Drones => mpc' \notin {"invalid", "outside"}
    BY <1>1, <1>2, <2>2 DEF Text!CheckLine, Text!Valid, TextTypes
  <2>4. mj' \in 1 .. NSTATES + 1 /\ mj' <= NSTATES /\ \A j \in 1 .. mj' - 1 : FALSE
    BY <2>1, TextNames
  <2>5. TextTypes'
    BY <1>1, <2>1, <2>3, <2>4 DEF TextTypes
  <2>6. MainStores'
    BY <2>1, <2>3, <2>4 DEF TextBase, MainStores
  <2>7. Undamaged'
    BY <2>1, <2>3 DEF TextBase, Undamaged
  <2> QED
    BY <2>5, <2>6, <2>7 DEF TextBase
<1>3. CASE Text!SendInvalid \/ Text!SolveAndSend \/ Text!EndAnswer
  <2>1. /\ mpc' \in {"recv", "sent"}
        /\ UNCHANGED <<tfw, tfleet, tline, tlost, mid, mstate, mj, tobs, start_sem, twpc, tcur, twj, tmutex, hnext, pending, sentState, acted, misread>>
    BY <1>3 DEF Text!SendInvalid, Text!SolveAndSend, Text!EndAnswer, Text!shared, Text!solvers, Text!hil
  <2>2. tout' \in Seq(TextOut)
    <3>1. /\ [kind |-> "invalid"] \in TextOut /\ [kind |-> "end"] \in TextOut
          /\ [kind |-> "u", id |-> 0, k |-> mstate] \in TextOut
      <4>1. 0 \in Drones /\ mstate \in Nat
        BY <1>1, TextNames DEF TextTypes
      <4> QED
        BY <4>1 DEF TextOut, TextAction
    <3>2. tout \in Seq(TextOut)
      BY <1>1 DEF TextTypes
    <3>3. CASE Text!SendInvalid
      BY <3>1, <3>2, <3>3, AppendedTwo DEF Text!SendInvalid
    <3>4. CASE Text!SolveAndSend
      BY <3>1, <3>2, <3>4, Appended DEF Text!SolveAndSend
    <3>5. CASE Text!EndAnswer
      BY <3>1, <3>2, <3>5, Appended DEF Text!EndAnswer
    <3> QED
      BY <1>3, <3>3, <3>4, <3>5
  <2>3. TextTypes'
    BY <1>1, <2>1, <2>2 DEF TextTypes
  <2> QED
    BY <2>1, <2>3 DEF TextBase, MainStores, Undamaged
<1>4. CASE Text!StoreState
  <2>0. PICK d \in Drones : d = mid
    BY <1>4 DEF TextBase, MainStores, Text!StoreState
  <2>1. /\ mpc = "store" /\ tobs' = [tobs EXCEPT ![d][mj] = mstate]
        /\ start_sem' = IF mj = NSTATES THEN [start_sem EXCEPT ![d] = 1] ELSE start_sem
        /\ mj' = mj + 1 /\ mpc' = IF mj = NSTATES THEN "recv" ELSE "store"
        /\ UNCHANGED <<tfw, tfleet, tline, tlost, mid, mstate, twpc, tcur, twj, tmutex, tout, hnext, pending, sentState, acted, misread>>
    BY <1>4, <2>0 DEF Text!StoreState, Text!solvers, Text!hil
  <2>2. mstate # 0 /\ tfw = "mt" /\ (\A j \in 1 .. mj - 1 : tobs[d][j] = mstate) /\ mj <= NSTATES
    BY <2>0, <2>1 DEF TextBase, MainStores
  <2>3. mj \in Nat /\ mj >= 1
    BY <1>1, TextNames DEF TextTypes
  <2>4. /\ tobs' \in [Drones -> [Places -> Nat]] /\ tobs'[d][mj] = mstate
        /\ \A j \in Places \ {mj} : tobs'[d][j] = tobs[d][j]
    <3>1. mj \in Places
      BY <2>2, <2>3, TextNames
    <3> QED
      BY <3>1, <1>1, <2>1 DEF TextTypes
  <2>5. ASSUME NEW j \in 1 .. mj PROVE tobs'[d][j] = mstate
    <3>1. j = mj \/ (j \in 1 .. mj - 1 /\ j \in Places \ {mj})
      BY <2>2, <2>3, TextNames
    <3> QED
      BY <3>1, <2>2, <2>4
  <2>6. start_sem' \in [Drones -> {0, 1}] /\ mj' \in 1 .. NSTATES + 1
    <3>1. mj + 1 \in 1 .. NSTATES + 1
      BY <2>2, <2>3, TextNames
    <3> QED
      BY <3>1, <1>1, <2>1 DEF TextTypes
  <2>7. TextTypes'
    BY <1>1, <2>1, <2>4, <2>6 DEF TextTypes
  <2>8. MainStores'
    <3>1. mpc' = "store" => mj' <= NSTATES /\ \A j \in 1 .. mj' - 1 : tobs'[mid'][j] = mstate'
      BY <2>0, <2>1, <2>2, <2>3, <2>5, TextNames
    <3> QED
      BY <3>1, <2>0, <2>1, <2>2 DEF TextBase, MainStores
  <2> QED
    BY <2>1, <2>7, <2>8 DEF TextBase, Undamaged
<1> QED
  BY <1>2, <1>3, <1>4

\* A worker's steps keep the base.
LEMMA WorkerKeepsBase ==
    ASSUME TextBase, NEW d \in Drones, Text!TakeSem(d) \/ Text!LoadWord(d) \/ Text!BeginLine(d) \/ Text!EndLine(d)
    PROVE  TextBase'
<1>1. TextTypes /\ tfw = "mt"
  BY DEF TextBase, TextTypes, MainStores, Text!TakeSem, Text!LoadWord, Text!BeginLine, Text!EndLine
<1>2. UNCHANGED <<tfw, tfleet, tline, tlost, mpc, mid, mstate, mj, tobs, hnext, pending, sentState, acted, misread>>
  BY DEF Text!TakeSem, Text!LoadWord, Text!BeginLine, Text!EndLine, Text!board, Text!shared, Text!hil
<1>3. /\ twj[d] \in Nat /\ twj[d] >= 1 /\ 1 \in 1 .. NSTATES + 1 /\ 1 <= NSTATES /\ 1 \in Places
      /\ twpc[d] = "load" => twj[d] \in Places /\ twj[d] + 1 \in 1 .. NSTATES + 1
  <2>1. twj[d] \in 1 .. NSTATES + 1 /\ (twpc[d] = "load" => twj[d] <= NSTATES)
    BY <1>1 DEF TextBase, TextTypes, MainStores
  <2> QED
    BY <2>1, TextNames
<1>4. twpc' \in [Drones -> {"take", "load", "lock", "send"}] /\ start_sem' \in [Drones -> {0, 1}]
  BY <1>1 DEF TextTypes, Text!TakeSem, Text!LoadWord, Text!BeginLine, Text!EndLine, Text!shared
<1>5. /\ twj' \in [Drones -> 1 .. NSTATES + 1]
      /\ \A b \in Drones : twpc'[b] = "load" => twj'[b] <= NSTATES
  <2>1. CASE Text!TakeSem(d)
    <3>1. /\ twj' = [twj EXCEPT ![d] = 1] /\ twpc' = [twpc EXCEPT ![d] = "load"]
      BY <2>1 DEF Text!TakeSem
    <3> QED
      BY <3>1, <1>1, <1>3 DEF TextBase, TextTypes, MainStores
  <2>2. CASE Text!LoadWord(d)
    <3>1. /\ twpc[d] = "load" /\ twj' = [twj EXCEPT ![d] = @ + 1]
          /\ twpc' = [twpc EXCEPT ![d] = IF twj[d] = NSTATES THEN "lock" ELSE "load"]
      BY <2>2 DEF Text!LoadWord
    <3>2. twj[d] # NSTATES => twj[d] + 1 <= NSTATES
      BY <3>1, <1>3, TextNames
    <3> QED
      BY <3>1, <3>2, <1>1, <1>3 DEF TextBase, TextTypes, MainStores
  <2>3. CASE Text!BeginLine(d) \/ Text!EndLine(d)
    <3>1. twj' = twj /\ (twpc' = [twpc EXCEPT ![d] = "send"] \/ twpc' = [twpc EXCEPT ![d] = "take"])
      BY <2>3 DEF Text!BeginLine, Text!EndLine
    <3> QED
      BY <3>1, <1>1 DEF TextBase, TextTypes, MainStores
  <2> QED
    BY <2>1, <2>2, <2>3
<1>6. tcur' \in [Drones -> [Places -> Nat]]
  <2>1. CASE Text!LoadWord(d)
    <3>1. tobs[d][twj[d]] \in Nat
      BY <2>1, <1>1, <1>3 DEF TextTypes, Text!LoadWord
    <3> QED
      BY <3>1, <2>1, <1>1, <1>3 DEF TextTypes, Text!LoadWord
  <2> QED
    BY <2>1, <1>1 DEF TextTypes, Text!TakeSem, Text!BeginLine, Text!EndLine
<1>7. tout' \in Seq(TextOut)
  <2>1. tout \in Seq(TextOut) /\ tcur[d][1] \in Nat
    BY <1>1, <1>3 DEF TextTypes
  <2>2. [kind |-> "u", id |-> d, k |-> tcur[d][1]] \in TextOut /\ [kind |-> "end"] \in TextOut
    BY <2>1 DEF TextOut, TextAction
  <2>3. CASE Text!BeginLine(d)
    BY <2>1, <2>2, <2>3, Appended DEF Text!BeginLine
  <2>4. CASE Text!EndLine(d)
    BY <2>1, <2>2, <2>4, Appended DEF Text!EndLine
  <2> QED
    BY <2>1, <2>3, <2>4 DEF Text!TakeSem, Text!LoadWord
<1>8. TextTypes'
  BY <1>1, <1>2, <1>4, <1>5, <1>6, <1>7 DEF TextTypes
<1> QED
  BY <1>1, <1>2, <1>5, <1>8 DEF TextBase, MainStores, Undamaged

\* A step that leaves the requests where they are keeps them.
LEMMA TurnKeeps == ASSUME TextRel, Text!NotPending \/ Text!TimeOut PROVE TextRel'
<1>1. UNCHANGED <<tfw, tfleet, tline, tlost, mpc, mid, mstate, mj, tobs, start_sem, twpc, tcur, twj, tmutex, tout, pending, sentState, acted, misread>>
  BY DEF Text!NotPending, Text!TimeOut, Text!board, Text!shared, Text!solvers
<1> QED
  BY <1>1 DEF TextRel, OneRequest, RequestIsLast, Last, LostWithLine, InLine, AtMain, AtWorker, InOut, IsFor

\* Sending a state keeps them: the drone's request was nowhere.
LEMMA SendStateKeeps == ASSUME TextBase, TextRel, Text!SendState PROVE TextRel'
<1>0. PICK d \in Drones : d = hnext
  <2>1. hnext < tfleet /\ hnext \in 0 .. tfleet + 1 /\ tfleet \in 1 .. NUM_DRONES
    BY DEF TextBase, TextTypes, Text!SendState
  <2> QED
    BY <2>1, TextNames
<1> DEFINE e == [of |-> d, id |-> d, k |-> sentState[d] + 1, end |-> TRUE]
<1>1. /\ d < tfleet /\ pending[d] /\ tline' = Append(tline, e)
      /\ pending' = [pending EXCEPT ![d] = FALSE] /\ sentState' = [sentState EXCEPT ![d] = @ + 1]
      /\ UNCHANGED <<tfw, tfleet, tlost, mpc, mid, mstate, mj, tobs, start_sem, twpc, tcur, twj, tmutex, tout, acted, misread>>
  BY <1>0 DEF Text!SendState, Text!board, Text!shared, Text!solvers
<1>2. TextTypes
  BY DEF TextBase
<1>3. sentState[d] \in Nat /\ sentState[d] + 1 \in Nat /\ e \in TextLine
  <2>1. sentState[d] \in Nat
    BY <1>2 DEF TextTypes
  <2>2. sentState[d] + 1 \in Nat /\ d \in Text!Ids
    BY <2>1, TextNames
  <2> QED
    BY <2>1, <2>2 DEF TextLine
<1>4. e.of = d /\ e.k = sentState[d] + 1
  OBVIOUS
<1> HIDE DEF e
<1>5. /\ tline \in Seq(TextLine) /\ Len(tline) \in Nat /\ DOMAIN tline = 1 .. Len(tline)
      /\ \A n \in DOMAIN tline : tline[n] \in TextLine
  BY <1>2, Indices DEF TextTypes
<1>6. /\ tline' \in Seq(TextLine) /\ Len(tline') = Len(tline) + 1
      /\ \A n \in 1 .. Len(tline) : tline'[n] = tline[n]
      /\ tline'[Len(tline) + 1] = e
  BY <1>1, <1>3, <1>5, Appended
<1>7. DOMAIN tline' = 1 .. Len(tline) + 1
  BY <1>6, Indices
<1>8. /\ \A b \in Drones \ {d} : pending'[b] = pending[b] /\ sentState'[b] = sentState[b]
      /\ pending'[d] = FALSE /\ sentState'[d] = sentState[d] + 1
  BY <1>1, <1>2 DEF TextTypes
<1>9. ~InLine(d) /\ ~AtMain(d) /\ ~AtWorker(d) /\ ~InOut(d)
  BY <1>1 DEF TextRel, OneRequest
<1>10. /\ \A n \in DOMAIN tline : n \in DOMAIN tline' /\ tline'[n] = tline[n] /\ tline[n].of # d
       /\ \A n \in DOMAIN tline' : n \in DOMAIN tline \/ (n = Len(tline) + 1 /\ tline'[n] = e)
  BY <1>5, <1>6, <1>7, <1>9 DEF InLine
<1>11. /\ \A b \in Drones \ {d} : InLine(b)' = InLine(b)
       /\ \A b \in Drones : AtMain(b)' = AtMain(b) /\ AtWorker(b)' = AtWorker(b) /\ InOut(b)' = InOut(b)
       /\ InLine(d)'
  <2>1. Len(tline) + 1 \in DOMAIN tline'
    BY <1>5, <1>7
  <2> QED
    BY <2>1, <1>1, <1>4, <1>6, <1>10 DEF InLine, AtMain, AtWorker, InOut, IsFor
<1>12. OneRequest'
  <2> SUFFICES ASSUME NEW b \in Drones PROVE OneRequest!(b)'
    BY DEF OneRequest
  <2>1. \A n, h \in DOMAIN tline' : tline'[n].of = b /\ tline'[h].of = b => n = h
    BY <1>4, <1>10 DEF TextRel, OneRequest
  <2> QED
    BY <2>1, <1>1, <1>8, <1>9, <1>11 DEF TextRel, OneRequest, IsFor
<1>13. RequestIsLast'
  <2>1. ASSUME NEW n \in DOMAIN tline' PROVE tline'[n].k \in {0, Text!Garbage, sentState'[tline'[n].of]}
    <3>1. CASE n \in DOMAIN tline
      <4>1. tline[n].of \in Drones \ {d} /\ tline'[n] = tline[n]
        BY <3>1, <1>5, <1>10 DEF TextLine
      <4> QED
        BY <4>1, <3>1, <1>8 DEF TextRel, RequestIsLast
    <3> QED
      BY <3>1, <1>4, <1>8, <1>10
  <2>2. ASSUME NEW n \in DOMAIN tout', tout'[n].kind = "u" PROVE Last(tout[n].id, tout[n].k)'
    <3>1. tout[n] \in TextOut /\ n \in DOMAIN tout /\ tout[n].kind = "u"
      BY <2>2, <1>1, <1>2 DEF TextTypes
    <3>2. tout[n].id \in Drones \ {d}
      BY <3>1, <1>9 DEF TextOut, TextAction, InOut, IsFor
    <3> QED
      BY <3>1, <3>2, <1>1, <1>8 DEF TextRel, RequestIsLast, Last
  <2>3. ASSUME NEW b \in Drones PROVE RequestIsLast!3!(b)'
    <3>1. CASE b = d
      <4>1. twpc[d] \notin {"load", "lock"}
        BY <1>9 DEF AtWorker
      <4> QED
        BY <4>1, <3>1, <1>1, <1>8, <1>9, <1>11 DEF TextRel, RequestIsLast
    <3>2. CASE b # d
      BY <3>2, <1>1, <1>8, <1>11 DEF TextRel, RequestIsLast, Last
    <3> QED
      BY <3>1, <3>2
  <2> QED
    BY <2>1, <2>2, <2>3 DEF RequestIsLast
<1>14. LostWithLine'
  BY <1>1, <1>8, <1>11 DEF TextRel, LostWithLine
<1> QED
  BY <1>12, <1>13, <1>14 DEF TextRel

\* A damaged line keeps them: it is still the line of its drone, and counts as lost.
LEMMA DamageLineKeeps == ASSUME TextBase, TextRel, Text!DamageLine PROVE TextRel'
<1>1. TextTypes /\ tlost \in Nat
  BY DEF TextBase, TextTypes
<1>2. /\ DOMAIN tline' = DOMAIN tline /\ tlost' # 0
      /\ \A h \in DOMAIN tline : tline'[h].of = tline[h].of /\ tline'[h].k \in {0, Text!Garbage, tline[h].k}
      /\ UNCHANGED <<tfw, tfleet, mpc, mid, mstate, mj, tobs, start_sem, twpc, tcur, twj, tmutex, tout,
                     hnext, pending, sentState, acted, misread>>
  BY <1>1, Damage
<1>3. \A b \in Drones : /\ InLine(b)' = InLine(b) /\ AtMain(b)' = AtMain(b)
                        /\ AtWorker(b)' = AtWorker(b) /\ InOut(b)' = InOut(b)
  BY <1>2 DEF InLine, AtMain, AtWorker, InOut, IsFor
<1>4. OneRequest'
  BY <1>2, <1>3 DEF TextRel, OneRequest, IsFor
<1>5. RequestIsLast'
  <2>1. ASSUME NEW n \in DOMAIN tline' PROVE tline'[n].k \in {0, Text!Garbage, sentState'[tline'[n].of]}
    BY <1>2 DEF TextRel, RequestIsLast
  <2> QED
    BY <2>1, <1>2, <1>3 DEF TextRel, RequestIsLast, Last
<1> QED
  BY <1>2, <1>4, <1>5 DEF TextRel, LostWithLine

\* The host takes the first line, or the part of a line that there is, and what it applies
\* ends the request of its drone.
LEMMA TakenKeeps ==
    ASSUME TextBase, TextRel, Len(tout) >= 1, tout' \in Seq(TextOut),
           UNCHANGED <<tfw, tfleet, tline, mpc, mid, mstate, mj, tobs, start_sem, twpc, tcur, twj, tmutex, sentState>>,
           \A n \in DOMAIN tout' : tout'[n].kind = "u" =>
               n + 2 \in DOMAIN tout /\ tout'[n] = tout[n + 2],
           \A n \in DOMAIN tout : tout[n].kind = "u" =>
               n = 1 \/ (n - 2 \in DOMAIN tout' /\ tout'[n - 2] = tout[n]),
           NEW k1 \in Nat,
           \/ UNCHANGED <<acted, pending>> /\ (tlost' = 0 => tout[1].kind # "u" \/ tout[1].id >= tfleet)
           \/ tout[1].kind = "u" /\ Text!Apply(tout[1], k1) /\ (misread' = {} => k1 = tout[1].k),
           misread' = {} => misread = {}, tlost' = 0 => tlost = 0
    PROVE  TextRel'
<1>1. TextTypes /\ Len(tout) \in Nat /\ DOMAIN tout = 1 .. Len(tout) /\ 1 \in DOMAIN tout
  BY Indices DEF TextBase, TextTypes
<1>2. \A n \in DOMAIN tout : tout[n] \in TextOut
  BY <1>1 DEF TextTypes
<1>3. \A b \in Drones : /\ InLine(b)' = InLine(b) /\ AtMain(b)' = AtMain(b) /\ AtWorker(b)' = AtWorker(b)
                        /\ InOut(b)' => InOut(b)
  BY DEF InLine, AtMain, AtWorker, InOut, IsFor
<1>4. ASSUME NEW b \in Drones, NEW n \in DOMAIN tout', NEW h \in DOMAIN tout', IsFor(tout'[n], b), IsFor(tout'[h], b)
      PROVE  n = h
  <2>1. /\ n + 2 \in DOMAIN tout /\ h + 2 \in DOMAIN tout
        /\ IsFor(tout[n + 2], b) /\ IsFor(tout[h + 2], b)
    BY <1>4 DEF IsFor
  <2>2. n + 2 = h + 2
    BY <2>1 DEF TextRel, OneRequest
  <2>3. n \in Int /\ h \in Int
    BY Indices
  <2> QED
    BY <2>2, <2>3
<1>5. ASSUME NEW b \in Drones, InOut(b), ~(tout[1].kind = "u" /\ tout[1].id = b) PROVE InOut(b)'
  BY <1>5 DEF InOut, IsFor
<1>6. \A n \in DOMAIN tout' : tout'[n].kind = "u" => Last(tout[n].id, tout[n].k)'
  BY DEF TextRel, RequestIsLast, Last
<1>7. CASE UNCHANGED <<acted, pending>> /\ (tlost' = 0 => tout[1].kind # "u" \/ tout[1].id >= tfleet)
  <2>1. OneRequest'
    BY <1>3, <1>4, <1>7 DEF TextRel, OneRequest
  <2>2. RequestIsLast'
    BY <1>3, <1>6, <1>7 DEF TextRel, RequestIsLast, Last
  <2>3. LostWithLine'
    <3> SUFFICES ASSUME tlost' = 0, NEW b \in Drones, b < tfleet, ~pending[b]
                 PROVE  InLine(b)' \/ AtMain(b)' \/ AtWorker(b)' \/ InOut(b)'
      BY <1>7 DEF LostWithLine
    <3>1. InLine(b) \/ AtMain(b) \/ AtWorker(b) \/ InOut(b)
      BY DEF TextRel, LostWithLine
    <3>2. ~(tout[1].kind = "u" /\ tout[1].id = b)
      <4>1. b \in Nat /\ tfleet \in Nat
        BY <1>1, TextNames DEF TextTypes
      <4> QED
        BY <4>1, <1>7
    <3> QED
      BY <3>1, <3>2, <1>3, <1>5
  <2> QED
    BY <2>1, <2>2, <2>3 DEF TextRel
<1>8. CASE tout[1].kind = "u" /\ Text!Apply(tout[1], k1) /\ (misread' = {} => k1 = tout[1].k)
  <2>1. PICK d \in Drones : d = tout[1].id
    BY <1>1, <1>2, <1>8 DEF TextOut, TextAction
  <2>2. InOut(d) /\ IsFor(tout[1], d)
    BY <2>1, <1>1, <1>8 DEF InOut, IsFor
  <2>3. ~InOut(d)'
    <3> SUFFICES ASSUME NEW n \in DOMAIN tout', IsFor(tout'[n], d) PROVE FALSE
      BY DEF InOut
    <3>1. n + 2 \in DOMAIN tout /\ IsFor(tout[n + 2], d)
      BY DEF IsFor
    <3>2. n + 2 = 1
      BY <3>1, <2>2, <1>1 DEF TextRel, OneRequest
    <3>3. n \in Nat /\ n >= 1
      BY Indices
    <3> QED
      BY <3>2, <3>3
  <2>4. ~InLine(d) /\ ~AtMain(d) /\ ~AtWorker(d) /\ Last(d, tout[1].k)
    BY <2>1, <2>2, <1>1, <1>8 DEF TextRel, OneRequest, RequestIsLast
  <2>5. /\ \A b \in Drones \ {d} : pending'[b] = pending[b] /\ acted'[b] = acted[b]
        /\ (pending'[d] = TRUE /\ acted'[d] = k1) \/ (pending'[d] = pending[d] /\ acted'[d] = acted[d] /\ ~(d < tfleet))
    BY <2>1, <1>1, <1>8 DEF Text!Apply, TextTypes
  <2>6. OneRequest'
    <3> SUFFICES ASSUME NEW b \in Drones PROVE OneRequest!(b)'
      BY DEF OneRequest
    <3>1. CASE b = d
      BY <3>1, <1>3, <1>4, <2>3, <2>4 DEF TextRel, OneRequest
    <3>2. CASE b # d
      BY <3>2, <1>3, <1>4, <2>5 DEF TextRel, OneRequest
    <3> QED
      BY <3>1, <3>2
  <2>7. RequestIsLast'
    <3>1. ASSUME NEW b \in Drones, b < tfleet, pending'[b] PROVE Last(b, acted[b])'
      BY <3>1, <1>8, <2>4, <2>5 DEF TextRel, RequestIsLast, Last
    <3> QED
      BY <3>1, <1>3, <1>6 DEF TextRel, RequestIsLast, Last
  <2>8. LostWithLine'
    BY <1>3, <1>5, <2>1, <2>5 DEF TextRel, LostWithLine
  <2> QED
    BY <2>6, <2>7, <2>8 DEF TextRel
<1> QED
  BY <1>7, <1>8

\* A whole line read keeps them.
LEMMA ReadActionKeeps == ASSUME TextBase, TextRel, Text!ReadAction PROVE TextRel'
<1>1. /\ Len(tout) >= 2 /\ tout[2].kind = "end" /\ tout' = Tail(Tail(tout))
      /\ IF tout[1].kind = "u" THEN Text!Apply(tout[1], tout[1].k) ELSE UNCHANGED <<acted, pending>>
      /\ UNCHANGED <<tfw, tfleet, tline, tlost, mpc, mid, mstate, mj, tobs, start_sem, twpc, tcur, twj, tmutex, sentState, misread>>
  BY DEF Text!ReadAction, Text!IsAction, Text!board, Text!shared, Text!solvers
<1>2. tout \in Seq(TextOut) /\ Len(tout) \in Nat /\ DOMAIN tout = 1 .. Len(tout)
  BY Indices DEF TextBase, TextTypes
<1>3. /\ tout' \in Seq(TextOut) /\ Len(tout') = Len(tout) - 2
      /\ \A n \in 1 .. Len(tout) - 2 : tout'[n] = tout[n + 2]
  BY <1>1, <1>2, DroppedTwo
<1>4. DOMAIN tout' = 1 .. Len(tout) - 2
  BY <1>3, Indices
<1>5. \A n \in DOMAIN tout' : n + 2 \in DOMAIN tout /\ tout'[n] = tout[n + 2]
  BY <1>2, <1>3, <1>4
<1>6. ASSUME NEW n \in DOMAIN tout, tout[n].kind = "u", n # 1
      PROVE  n - 2 \in DOMAIN tout' /\ tout'[n - 2] = tout[n]
  <2>1. n # 2
    BY <1>1, <1>6
  <2>2. n - 2 \in 1 .. Len(tout) - 2 /\ (n - 2) + 2 = n
    BY <2>1, <1>2, <1>6
  <2> QED
    BY <2>2, <1>3, <1>4
<1>7. CASE tout[1].kind = "u"
  <2>1. tout[1] \in TextOut /\ tout[1].k \in Nat
    BY <1>1, <1>2, <1>7 DEF TextOut, TextAction
  <2>2. Len(tout) >= 1
    BY <1>1, <1>2
  <2> QED
    BY <2>1, <2>2, <1>1, <1>3, <1>5, <1>6, <1>7, TakenKeeps
<1>8. CASE tout[1].kind # "u"
  <2>1. Len(tout) >= 1 /\ 0 \in Nat
    BY <1>1, <1>2
  <2> QED
    BY <2>1, <1>1, <1>3, <1>5, <1>6, <1>8, TakenKeeps
<1> QED
  BY <1>7, <1>8

\* A cut line keeps them: a request passed over counts as lost.
LEMMA CutActionKeeps == ASSUME TextBase, TextRel, Text!CutAction PROVE TextRel'
<1>1. /\ Len(tout) = 1 /\ tout[1].kind = "u" /\ tout' = <<[kind |-> "rest"]>> /\ tlost' = tlost + 1
      /\ UNCHANGED <<tfw, tfleet, tline, mpc, mid, mstate, mj, tobs, start_sem, twpc, tcur, twj, tmutex, sentState>>
      /\ \/ UNCHANGED <<acted, pending, misread>>
         \/ Text!Apply(tout[1], tout[1].k) /\ misread' = misread
         \/ Text!Apply(tout[1], Text!Garbage) /\ misread' # {}
  BY DEF Text!CutAction, Text!IsAction, Text!board, Text!shared, Text!solvers
<1>2. tout \in Seq(TextOut) /\ DOMAIN tout = {1} /\ tlost' # 0
  <2>1. tout \in Seq(TextOut) /\ Len(tout) \in Nat /\ DOMAIN tout = 1 .. Len(tout) /\ tlost \in Nat
    BY Indices DEF TextBase, TextTypes
  <2> QED
    BY <2>1, <1>1
<1>3. tout[1] \in TextOut /\ tout[1].k \in Nat
  BY <1>1, <1>2 DEF TextOut, TextAction
<1>4. DOMAIN tout' = {1} /\ tout'[1].kind # "u" /\ tout' \in Seq(TextOut)
  <2>1. [kind |-> "rest"] \in TextOut
    BY DEF TextOut
  <2> QED
    BY <2>1, <1>1
<1>5. CASE UNCHANGED <<acted, pending, misread>>
  BY <1>1, <1>2, <1>3, <1>4, <1>5, TakenKeeps
<1>6. CASE Text!Apply(tout[1], tout[1].k) /\ misread' = misread
  BY <1>1, <1>2, <1>3, <1>4, <1>6, TakenKeeps
<1>7. CASE Text!Apply(tout[1], Text!Garbage) /\ misread' # {}
  BY <1>1, <1>2, <1>3, <1>4, <1>7, TextNames, TakenKeeps
<1> QED
  BY <1>1, <1>5, <1>6, <1>7

\* recv_str keeps them: the request of the first line goes to main, those of the lines
\* that are read as part of it are lost, which takes a lost end of line.
LEMMA RecvStrKeeps == ASSUME TextBase, TextRel, Text!RecvStr, "id" \notin misread' PROVE TextRel'
<1>1. TextTypes
  BY DEF TextBase
<1>2. PICK n \in 1 .. Len(tline) : Reads(n)
  BY <1>1, Received
<1> USE <1>2 DEF Reads
<1>3. PICK d \in Drones : d = tline[1].of
  BY DEF TextLine
<1>4. d < tfleet /\ InLine(d) /\ (mid' \in Drones /\ mstate' # 0 => mid' = d)
  BY <1>3 DEF TextBase, MainStores, InLine
<1>5. \A b \in Drones : AtWorker(b)' = AtWorker(b) /\ InOut(b)' = InOut(b) /\ ~AtMain(b)
  BY DEF AtWorker, InOut, IsFor, AtMain
<1>6. \A b \in Drones : (InLine(b)' => InLine(b) /\ b # d) /\ (AtMain(b)' => b = d)
  <2>1. ASSUME NEW b \in Drones, NEW h \in DOMAIN tline', tline'[h].of = b PROVE InLine(b) /\ b # d
    <3>1. h + n \in DOMAIN tline /\ tline[h + n].of = b /\ h + n # 1
      BY <2>1
    <3> QED
      BY <3>1, <1>3 DEF TextRel, OneRequest, InLine
  <2> QED
    BY <2>1, <1>4 DEF InLine, AtMain
<1>7. OneRequest'
  <2> SUFFICES ASSUME NEW b \in Drones PROVE OneRequest!(b)'
    BY DEF OneRequest
  <2>1. ASSUME NEW m \in DOMAIN tline', NEW h \in DOMAIN tline', tline'[m].of = b, tline'[h].of = b PROVE m = h
    <3>1. m + n = h + n
      BY <2>1 DEF TextRel, OneRequest
    <3> QED
      BY <3>1
  <2>2. b = d => ~AtWorker(b) /\ ~InOut(b) /\ ~pending[b]
    BY <1>4 DEF TextRel, OneRequest
  <2> QED
    BY <2>1, <2>2, <1>4, <1>5, <1>6 DEF TextRel, OneRequest
<1>8. RequestIsLast'
  <2>1. \A h \in DOMAIN tline' : tline'[h].k \in {0, Text!Garbage, sentState'[tline'[h].of]}
    BY DEF TextRel, RequestIsLast
  <2>2. ASSUME NEW b \in Drones, AtMain(b)' PROVE Last(b, mstate)'
    <3>1. b = d /\ mid' \in Drones /\ mstate' # 0
      BY <2>2, <1>6 DEF AtMain
    <3>2. misread' = {} => misread = {} /\ mstate' # Text!Garbage
      BY <3>1
    <3>3. mstate' # Text!Garbage => mstate' = tline[1].k
      OBVIOUS
    <3>4. tline[1].k \in {0, Text!Garbage, sentState[d]}
      BY <1>3 DEF TextRel, RequestIsLast
    <3> QED
      BY <3>1, <3>2, <3>3, <3>4 DEF Last
  <2> QED
    BY <2>1, <2>2, <1>5 DEF TextRel, RequestIsLast, Last
<1>9. LostWithLine'
  <2> SUFFICES ASSUME tlost = 0 PROVE LostWithLine'
    BY DEF LostWithLine
  <2>1. /\ tline[1].id = tline[1].of /\ tline[1].k # 0
        /\ \A h \in DOMAIN tline : tline[h].end
    BY DEF TextBase, Undamaged
  <2>2. n = 1
    <3> SUFFICES ASSUME n # 1 PROVE FALSE
      OBVIOUS
    <3>1. 1 \in 1 .. n - 1
      OBVIOUS
    <3> QED
      BY <3>1, <2>1
  <2>3. AtMain(d)'
    BY <2>1, <2>2, <1>3 DEF AtMain
  <2>4. ASSUME NEW b \in Drones, b # d, NEW m \in DOMAIN tline, tline[m].of = b PROVE InLine(b)'
    <3>1. m # 1
      BY <2>4, <1>3
    <3>2. m - 1 \in DOMAIN tline' /\ (m - 1) + n = m
      BY <3>1, <2>2
    <3>3. tline'[m - 1] = tline[m]
      BY <3>2
    <3> QED
      BY <3>2, <3>3, <2>4 DEF InLine
  <2>5. \A b \in Drones : InLine(b) => InLine(b)' \/ AtMain(b)'
    BY <2>3, <2>4 DEF InLine
  <2> QED
    BY <2>5, <1>5 DEF TextRel, LostWithLine
<1> QED
  BY <1>7, <1>8, <1>9 DEF TextRel

\* The check of the line keeps them: only a damaged line is refused.
LEMMA CheckLineKeeps == ASSUME TextBase, TextRel, Text!CheckLine PROVE TextRel'
<1>1. /\ mpc = "check"
      /\ UNCHANGED <<tfw, tfleet, tline, tlost, mid, mstate, tobs, start_sem, twpc, tcur, twj, tmutex, tout, hnext, pending, sentState, acted, misread>>
  BY DEF Text!CheckLine, Text!shared, Text!solvers, Text!hil
<1>2. TextTypes /\ Drones = 0 .. NUM_DRONES - 1 /\ NUM_DRONES \in Nat
  BY TextNames DEF TextBase
<1>3. \A b \in Drones : /\ InLine(b)' = InLine(b) /\ (AtMain(b)' => AtMain(b))
                        /\ AtWorker(b)' = AtWorker(b) /\ InOut(b)' = InOut(b)
  BY <1>1 DEF InLine, AtMain, AtWorker, InOut, IsFor
<1>4. \A b \in Drones : AtMain(b) => AtMain(b)'
  BY <1>1, <1>2 DEF AtMain, Text!CheckLine, Text!Valid, TextTypes
<1>5. OneRequest' /\ RequestIsLast' /\ LostWithLine'
  BY <1>1, <1>3, <1>4 DEF TextRel, OneRequest, RequestIsLast, Last, LostWithLine, IsFor
<1> QED
  BY <1>5 DEF TextRel

\* What is put on the line that is no action keeps them.
LEMMA OtherLineKeeps ==
    ASSUME TextBase, TextRel, TextBase', Text!SendInvalid \/ Text!EndAnswer
    PROVE  TextRel'
<1>1. /\ mpc \in {"invalid", "sent"} /\ mpc' = "recv"
      /\ UNCHANGED <<tfw, tfleet, tline, tlost, mid, mstate, mj, tobs, start_sem, twpc, tcur, twj, tmutex, hnext, pending, sentState, acted, misread>>
  BY DEF Text!SendInvalid, Text!EndAnswer, Text!shared, Text!solvers, Text!hil
<1>2. tout \in Seq(TextOut) /\ Len(tout) \in Nat /\ DOMAIN tout = 1 .. Len(tout)
  BY Indices DEF TextBase, TextTypes
<1>3. /\ \A n \in DOMAIN tout : n \in DOMAIN tout' /\ tout'[n] = tout[n]
      /\ \A n \in DOMAIN tout' : tout'[n].kind = "u" => n \in DOMAIN tout
  <2>1. [kind |-> "invalid"] \in TextOut /\ [kind |-> "end"] \in TextOut
    BY DEF TextOut
  <2>2. tout' \in Seq(TextOut) /\ Len(tout') \in Nat /\ DOMAIN tout' = 1 .. Len(tout')
    BY Indices DEF TextBase, TextTypes
  <2> DEFINE e == [kind |-> "invalid"]
             f == [kind |-> "end"]
  <2>3. e \in TextOut /\ f \in TextOut /\ e.kind # "u" /\ f.kind # "u"
    BY <2>1
  <2>4. tout' = tout \o <<e, f>> \/ tout' = Append(tout, f)
    BY DEF Text!SendInvalid, Text!EndAnswer
  <2> HIDE DEF e, f
  <2>5. CASE tout' = tout \o <<e, f>>
    <3>1. /\ Len(tout') = Len(tout) + 2
          /\ \A n \in 1 .. Len(tout) : tout'[n] = tout[n]
          /\ tout'[Len(tout) + 1] = e /\ tout'[Len(tout) + 2] = f
      BY <2>3, <2>5, <1>2, AppendedTwo
    <3> QED
      BY <3>1, <2>2, <2>3, <1>2
  <2>6. CASE tout' = Append(tout, f)
    <3>1. /\ Len(tout') = Len(tout) + 1
          /\ \A n \in 1 .. Len(tout) : tout'[n] = tout[n]
          /\ tout'[Len(tout) + 1] = f
      BY <2>3, <2>6, <1>2, Appended
    <3> QED
      BY <3>1, <2>2, <2>3, <1>2
  <2> QED
    BY <2>4, <2>5, <2>6
<1>4. \A b \in Drones : /\ InLine(b)' = InLine(b) /\ ~AtMain(b)' /\ ~AtMain(b)
                        /\ AtWorker(b)' = AtWorker(b)
  BY <1>1 DEF InLine, AtMain, AtWorker
<1>5. \A b \in Drones : InOut(b)' <=> InOut(b)
  BY <1>3 DEF InOut, IsFor
<1>6. OneRequest'
  BY <1>1, <1>3, <1>4, <1>5 DEF TextRel, OneRequest, IsFor
<1>7. RequestIsLast'
  BY <1>1, <1>3, <1>4 DEF TextRel, RequestIsLast, Last
<1> QED
  BY <1>1, <1>4, <1>5, <1>6, <1>7 DEF TextRel, LostWithLine

\* An answer for drone d, whose request is with main or its worker, is the only one.
LEMMA AnswerUnique ==
    ASSUME TextBase, TextRel, NEW d \in Drones, ~InOut(d), NEW u \in TextOut, u.kind = "u", u.id = d,
           tout' = Append(tout, u)
    PROVE  /\ \A b \in Drones : \A n, h \in DOMAIN tout' : IsFor(tout'[n], b) /\ IsFor(tout'[h], b) => n = h
           /\ \A b \in Drones : InOut(b)' <=> (InOut(b) \/ b = d)
           /\ \A n \in DOMAIN tout' : (n \in DOMAIN tout /\ tout'[n] = tout[n]) \/ tout'[n] = u
<1>1. tout \in Seq(TextOut) /\ Len(tout) \in Nat /\ DOMAIN tout = 1 .. Len(tout)
  BY Indices DEF TextBase, TextTypes
<1>2. /\ tout' \in Seq(TextOut) /\ Len(tout') = Len(tout) + 1
      /\ \A n \in 1 .. Len(tout) : tout'[n] = tout[n]
      /\ tout'[Len(tout) + 1] = u
  BY <1>1, Appended
<1>3. DOMAIN tout' = 1 .. Len(tout) + 1
  BY <1>2, Indices
<1>4. /\ \A n \in DOMAIN tout : n \in DOMAIN tout' /\ tout'[n] = tout[n]
      /\ \A n \in DOMAIN tout' : n \in DOMAIN tout \/ n = Len(tout) + 1
      /\ Len(tout) + 1 \in DOMAIN tout'
  BY <1>1, <1>2, <1>3
<1>5. \A b \in Drones : InOut(b)' <=> (InOut(b) \/ b = d)
  BY <1>2, <1>4 DEF InOut, IsFor
<1>6. ASSUME NEW b \in Drones, NEW n \in DOMAIN tout', NEW h \in DOMAIN tout', IsFor(tout'[n], b), IsFor(tout'[h], b)
      PROVE  n = h
  <2>1. CASE b = d
    BY <2>1, <1>4, <1>6 DEF InOut, IsFor
  <2>2. CASE b # d
    <3>1. n \in DOMAIN tout /\ h \in DOMAIN tout
      BY <2>2, <1>2, <1>4, <1>6 DEF IsFor
    <3> QED
      BY <3>1, <1>4, <1>6 DEF TextRel, OneRequest
  <2> QED
    BY <2>1, <2>2
<1> QED
  BY <1>2, <1>4, <1>5, <1>6

\* main.cpp's answer keeps them.
LEMMA SolveAndSendKeeps == ASSUME TextBase, TextRel, Text!SolveAndSend PROVE TextRel'
<1> DEFINE e == [kind |-> "u", id |-> 0, k |-> mstate]
<1>1. PICK d \in Drones : d = 0 /\ mid = d /\ mstate # 0 /\ mstate \in Nat
  <2>1. tfw = "single" /\ mstate # 0 /\ mid = 0 /\ mstate \in Nat
    BY DEF TextBase, TextTypes, MainStores, Text!SolveAndSend
  <2> QED
    BY <2>1, TextNames
<1>2. /\ mpc = "solve" /\ mpc' = "sent" /\ tout' = Append(tout, e)
      /\ UNCHANGED <<tfw, tfleet, tline, tlost, mid, mstate, mj, tobs, start_sem, twpc, tcur, twj, tmutex, hnext, pending, sentState, acted, misread>>
  BY DEF Text!SolveAndSend, Text!shared, Text!solvers, Text!hil
<1>3. AtMain(d) /\ ~InLine(d) /\ ~AtWorker(d) /\ ~InOut(d) /\ ~pending[d] /\ Last(d, mstate)
  <2>1. AtMain(d)
    BY <1>1, <1>2 DEF AtMain
  <2> QED
    BY <2>1 DEF TextRel, OneRequest, RequestIsLast
<1>4. e \in TextOut /\ e.kind = "u" /\ e.id = d /\ e.k = mstate
  BY <1>1 DEF TextOut, TextAction
<1> HIDE DEF e
<1>5. /\ \A b \in Drones : \A n, h \in DOMAIN tout' : IsFor(tout'[n], b) /\ IsFor(tout'[h], b) => n = h
      /\ \A b \in Drones : InOut(b)' <=> (InOut(b) \/ b = d)
      /\ \A n \in DOMAIN tout' : (n \in DOMAIN tout /\ tout'[n] = tout[n]) \/ tout'[n] = e
  BY <1>2, <1>3, <1>4, AnswerUnique
<1>6. \A b \in Drones : /\ InLine(b)' = InLine(b) /\ ~AtMain(b)' /\ (AtMain(b) <=> b = d)
                        /\ AtWorker(b)' = AtWorker(b)
  BY <1>1, <1>2, <1>3 DEF InLine, AtMain, AtWorker
<1>7. OneRequest'
  <2> SUFFICES ASSUME NEW b \in Drones PROVE OneRequest!(b)'
    BY DEF OneRequest
  <2>1. CASE b = d
    BY <2>1, <1>2, <1>3, <1>5, <1>6 DEF TextRel, OneRequest
  <2>2. CASE b # d
    BY <2>2, <1>2, <1>5, <1>6 DEF TextRel, OneRequest
  <2> QED
    BY <2>1, <2>2
<1>8. RequestIsLast'
  <2>1. \A n \in DOMAIN tout' : tout'[n].kind = "u" => Last(tout[n].id, tout[n].k)'
    BY <1>2, <1>3, <1>4, <1>5 DEF TextRel, RequestIsLast, Last
  <2> QED
    BY <2>1, <1>2, <1>6 DEF TextRel, RequestIsLast, Last
<1>9. LostWithLine'
  BY <1>2, <1>5, <1>6 DEF TextRel, LostWithLine
<1> QED
  BY <1>7, <1>8, <1>9 DEF TextRel

\* main_mt.cpp's store keeps them: the worker of the drone waits.
LEMMA StoreStateKeeps == ASSUME TextBase, TextRel, TextBase', Text!StoreState PROVE TextRel'
<1>0. PICK d \in Drones : d = mid /\ mstate # 0
  BY DEF TextBase, MainStores, Text!StoreState
<1>1. /\ mpc = "store" /\ tobs' = [tobs EXCEPT ![d][mj] = mstate]
      /\ start_sem' = IF mj = NSTATES THEN [start_sem EXCEPT ![d] = 1] ELSE start_sem
      /\ mj' = mj + 1 /\ mpc' = IF mj = NSTATES THEN "recv" ELSE "store"
      /\ UNCHANGED <<tfw, tfleet, tline, tlost, mid, mstate, twpc, tcur, twj, tmutex, tout, hnext, pending, sentState, acted, misread>>
  BY <1>0 DEF Text!StoreState, Text!solvers, Text!hil
<1>2. TextTypes /\ mj <= NSTATES /\ \A j \in 1 .. mj - 1 : tobs[d][j] = mstate
  BY <1>0, <1>1 DEF TextBase, MainStores
<1>3. mj \in 1 .. NSTATES /\ mj \in Nat /\ mj >= 1
  BY <1>2, TextNames DEF TextTypes
<1>4. AtMain(d) /\ ~InLine(d) /\ ~AtWorker(d) /\ ~InOut(d) /\ ~pending[d] /\ Last(d, mstate)
  <2>1. AtMain(d)
    BY <1>0, <1>1 DEF AtMain
  <2> QED
    BY <2>1 DEF TextRel, OneRequest, RequestIsLast
<1>5. /\ \A b \in Drones \ {d} : tobs'[b] = tobs[b]
      /\ tobs'[d][mj] = mstate /\ \A j \in Places \ {mj} : tobs'[d][j] = tobs[d][j]
  BY <1>1, <1>2, <1>3, TextNames DEF TextTypes
<1>6. ASSUME NEW j \in 1 .. mj PROVE tobs'[d][j] = mstate
  <2>1. j = mj \/ (j \in 1 .. mj - 1 /\ j \in Places \ {mj})
    BY <1>3, TextNames
  <2> QED
    BY <2>1, <1>2, <1>5
<1>7. /\ \A b \in Drones \ {d} : start_sem'[b] = start_sem[b]
      /\ (mj = NSTATES => start_sem'[d] = 1) /\ (mj # NSTATES => start_sem'[d] = start_sem[d])
  BY <1>1, <1>2 DEF TextTypes
<1>8. \A b \in Drones : InLine(b)' = InLine(b) /\ InOut(b)' = InOut(b)
  BY <1>1 DEF InLine, InOut, IsFor
<1>9. \A b \in Drones : /\ AtMain(b) <=> b = d
                        /\ AtMain(b)' <=> b = d /\ mj # NSTATES
                        /\ AtWorker(b)' <=> AtWorker(b) \/ (b = d /\ mj = NSTATES)
  BY <1>0, <1>1, <1>7 DEF AtMain, AtWorker
<1>10. OneRequest'
  <2> SUFFICES ASSUME NEW b \in Drones PROVE OneRequest!(b)'
    BY DEF OneRequest
  <2>1. CASE b = d
    BY <2>1, <1>1, <1>4, <1>8, <1>9 DEF TextRel, OneRequest, AtWorker
  <2>2. CASE b # d
    BY <2>2, <1>1, <1>7, <1>8, <1>9 DEF TextRel, OneRequest
  <2> QED
    BY <2>1, <2>2
<1>11. RequestIsLast'
  <2>1. ASSUME NEW b \in Drones PROVE RequestIsLast!3!(b)'
    <3>1. CASE b = d
      <4>1. AtWorker(d)' => tobs'[d][1] = mstate /\ \A j \in Places : tobs'[d][j] = mstate
        <5>1. AtWorker(d)' => mj = NSTATES
          BY <1>4, <1>9
        <5>2. 1 \in 1 .. mj /\ (mj = NSTATES => Places = 1 .. mj)
          BY <1>3, TextNames
        <5> QED
          BY <5>1, <5>2, <1>6
      <4>2. twpc[d] \notin {"load", "lock"}
        BY <1>4 DEF AtWorker
      <4> QED
        BY <4>1, <4>2, <3>1, <1>1, <1>4 DEF TextRel, RequestIsLast, Last
    <3>2. CASE b # d
      BY <3>2, <1>1, <1>5, <1>9 DEF TextRel, RequestIsLast, Last
    <3> QED
      BY <3>1, <3>2
  <2> QED
    BY <2>1, <1>1 DEF TextRel, RequestIsLast, Last
<1>12. LostWithLine'
  BY <1>1, <1>8, <1>9 DEF TextRel, LostWithLine
<1> QED
  BY <1>10, <1>11, <1>12 DEF TextRel

\* A worker that takes its semaphore keeps them.
LEMMA TakeSemKeeps == ASSUME TextBase, TextRel, NEW d \in Drones, Text!TakeSem(d) PROVE TextRel'
<1>1. /\ twpc[d] = "take" /\ start_sem[d] = 1 /\ start_sem' = [start_sem EXCEPT ![d] = 0]
      /\ twpc' = [twpc EXCEPT ![d] = "load"] /\ twj' = [twj EXCEPT ![d] = 1]
      /\ UNCHANGED <<tfw, tfleet, tline, tlost, mpc, mid, mstate, mj, tobs, tcur, tmutex, tout, hnext, pending, sentState, acted, misread>>
  BY DEF Text!TakeSem, Text!board, Text!hil
<1>2. TextTypes
  BY DEF TextBase
<1>3. /\ start_sem'[d] = 0 /\ twpc'[d] = "load" /\ twj'[d] = 1
      /\ \A b \in Drones \ {d} : start_sem'[b] = start_sem[b] /\ twpc'[b] = twpc[b] /\ twj'[b] = twj[b]
  BY <1>1, <1>2 DEF TextTypes
<1>4. \A b \in Drones : /\ InLine(b)' = InLine(b) /\ AtMain(b)' = AtMain(b) /\ InOut(b)' = InOut(b)
                        /\ AtWorker(b)' <=> AtWorker(b)
  BY <1>1, <1>3 DEF InLine, AtMain, AtWorker, InOut, IsFor
<1>5. OneRequest'
  <2> SUFFICES ASSUME NEW b \in Drones PROVE OneRequest!(b)'
    BY DEF OneRequest
  <2>1. start_sem'[b] = 1 => twpc'[b] \notin {"load", "lock"}
    BY <1>3 DEF TextRel, OneRequest
  <2> QED
    BY <2>1, <1>1, <1>4 DEF TextRel, OneRequest
<1>6. RequestIsLast'
  <2>1. ASSUME NEW b \in Drones PROVE RequestIsLast!3!(b)'
    <3>1. CASE b = d
      <4>1. \A j \in 1 .. twj'[d] - 1 : FALSE
        BY <1>3
      <4> QED
        BY <4>1, <3>1, <1>1, <1>3, <1>4 DEF TextRel, RequestIsLast, Last
    <3>2. CASE b # d
      BY <3>2, <1>1, <1>3, <1>4 DEF TextRel, RequestIsLast, Last
    <3> QED
      BY <3>1, <3>2
  <2> QED
    BY <2>1, <1>1 DEF TextRel, RequestIsLast, Last
<1> QED
  BY <1>1, <1>4, <1>5, <1>6 DEF TextRel, LostWithLine

\* A worker that loads a word keeps them: the word is of the request it works on.
LEMMA LoadWordKeeps == ASSUME TextBase, TextRel, NEW d \in Drones, Text!LoadWord(d) PROVE TextRel'
<1>1. /\ twpc[d] = "load" /\ tcur' = [tcur EXCEPT ![d][twj[d]] = tobs[d][twj[d]]]
      /\ twj' = [twj EXCEPT ![d] = @ + 1]
      /\ twpc' = [twpc EXCEPT ![d] = IF twj[d] = NSTATES THEN "lock" ELSE "load"]
      /\ UNCHANGED <<tfw, tfleet, tline, tlost, mpc, mid, mstate, mj, tobs, start_sem, tmutex, tout, hnext, pending, sentState, acted, misread>>
  BY DEF Text!LoadWord, Text!board, Text!shared, Text!hil
<1>2. TextTypes
  BY DEF TextBase
<1>3. PICK n \in Nat : n = twj[d] /\ n >= 1 /\ n <= NSTATES
  <2>1. twj[d] \in 1 .. NSTATES + 1 /\ twj[d] <= NSTATES
    BY <1>1 DEF TextBase, TextTypes, MainStores
  <2> QED
    BY <2>1, TextNames
<1>4. n \in Places
  BY <1>3, TextNames
<1>5. /\ AtWorker(d) /\ tobs[d][n] = tobs[d][1] /\ \A j \in 1 .. n - 1 : tcur[d][j] = tobs[d][1]
  BY <1>1, <1>3, <1>4 DEF AtWorker, TextRel, RequestIsLast
<1>6. /\ twpc'[d] = IF n = NSTATES THEN "lock" ELSE "load"
      /\ \A b \in Drones \ {d} : twpc'[b] = twpc[b] /\ twj'[b] = twj[b] /\ tcur'[b] = tcur[b]
      /\ twj'[d] = n + 1
  BY <1>1, <1>2, <1>3 DEF TextTypes
<1>7. /\ tcur'[d][n] = tobs[d][1]
      /\ \A j \in Places \ {n} : tcur'[d][j] = tcur[d][j]
  BY <1>1, <1>2, <1>3, <1>4, <1>5 DEF TextTypes
<1>8. ASSUME NEW j \in 1 .. n PROVE tcur'[d][j] = tobs[d][1]
  <2>1. j = n \/ (j \in 1 .. n - 1 /\ j \in Places \ {n})
    BY <1>3, TextNames
  <2> QED
    BY <2>1, <1>5, <1>7
<1>9. \A b \in Drones : /\ InLine(b)' = InLine(b) /\ AtMain(b)' = AtMain(b) /\ InOut(b)' = InOut(b)
                        /\ AtWorker(b)' <=> AtWorker(b)
  BY <1>1, <1>6 DEF InLine, AtMain, AtWorker, InOut, IsFor
<1>10. OneRequest'
  <2> SUFFICES ASSUME NEW b \in Drones PROVE OneRequest!(b)'
    BY DEF OneRequest
  <2>1. start_sem'[b] = 1 => twpc'[b] \notin {"load", "lock"}
    BY <1>1, <1>6 DEF TextRel, OneRequest
  <2> QED
    BY <2>1, <1>1, <1>9 DEF TextRel, OneRequest
<1>11. RequestIsLast'
  <2>1. ASSUME NEW b \in Drones PROVE RequestIsLast!3!(b)'
    <3>1. CASE b = d
      <4>1. twpc'[d] = "load" => \A j \in 1 .. twj'[d] - 1 : tcur'[d][j] = tobs[d][1]
        BY <1>3, <1>6, <1>8
      <4>2. twpc'[d] = "lock" => \A j \in Places : tcur'[d][j] = tobs[d][1]
        BY <1>3, <1>6, <1>8, TextNames
      <4>3. twpc'[d] # "send"
        BY <1>6
      <4> QED
        BY <4>1, <4>2, <4>3, <3>1, <1>1, <1>9 DEF TextRel, RequestIsLast, Last
    <3>2. CASE b # d
      BY <3>2, <1>1, <1>6, <1>9 DEF TextRel, RequestIsLast, Last
    <3> QED
      BY <3>1, <3>2
  <2> QED
    BY <2>1, <1>1 DEF TextRel, RequestIsLast, Last
<1> QED
  BY <1>1, <1>9, <1>10, <1>11 DEF TextRel, LostWithLine

\* A worker's answer keeps them: it carries the state it loaded.
LEMMA BeginLineKeeps == ASSUME TextBase, TextRel, NEW d \in Drones, Text!BeginLine(d) PROVE TextRel'
<1> DEFINE e == [kind |-> "u", id |-> d, k |-> tcur[d][1]]
<1>1. /\ twpc[d] = "lock" /\ twpc' = [twpc EXCEPT ![d] = "send"] /\ tout' = Append(tout, e)
      /\ UNCHANGED <<tfw, tfleet, tline, tlost, mpc, mid, mstate, mj, tobs, start_sem, tcur, twj, hnext, pending, sentState, acted, misread>>
  BY DEF Text!BeginLine, Text!board, Text!shared, Text!hil
<1>2. TextTypes /\ 1 \in Places
  BY TextNames DEF TextBase
<1>3. /\ AtWorker(d) /\ ~InLine(d) /\ ~AtMain(d) /\ ~InOut(d) /\ ~pending[d] /\ start_sem[d] # 1
      /\ Last(d, tobs[d][1]) /\ \A j \in Places : tcur[d][j] = tobs[d][1]
  <2>1. AtWorker(d)
    BY <1>1 DEF AtWorker
  <2> QED
    BY <2>1, <1>1 DEF TextRel, OneRequest, RequestIsLast
<1>4. Last(d, tcur[d][1]) /\ \A j \in Places : tcur[d][j] = tcur[d][1]
  BY <1>2, <1>3
<1>5. e \in TextOut /\ e.kind = "u" /\ e.id = d /\ e.k = tcur[d][1]
  BY <1>2 DEF TextTypes, TextOut, TextAction
<1> HIDE DEF e
<1>6. /\ \A b \in Drones : \A n, h \in DOMAIN tout' : IsFor(tout'[n], b) /\ IsFor(tout'[h], b) => n = h
      /\ \A b \in Drones : InOut(b)' <=> (InOut(b) \/ b = d)
      /\ \A n \in DOMAIN tout' : (n \in DOMAIN tout /\ tout'[n] = tout[n]) \/ tout'[n] = e
  BY <1>1, <1>3, <1>5, AnswerUnique
<1>7. twpc'[d] = "send" /\ \A b \in Drones \ {d} : twpc'[b] = twpc[b]
  BY <1>1, <1>2 DEF TextTypes
<1>8. \A b \in Drones : /\ InLine(b)' = InLine(b) /\ AtMain(b)' = AtMain(b)
                        /\ AtWorker(b)' <=> AtWorker(b) /\ b # d
  BY <1>1, <1>3, <1>7 DEF InLine, AtMain, AtWorker
<1>9. OneRequest'
  <2> SUFFICES ASSUME NEW b \in Drones PROVE OneRequest!(b)'
    BY DEF OneRequest
  <2>1. CASE b = d
    BY <2>1, <1>1, <1>3, <1>6, <1>7, <1>8 DEF TextRel, OneRequest
  <2>2. CASE b # d
    BY <2>2, <1>1, <1>6, <1>7, <1>8 DEF TextRel, OneRequest
  <2> QED
    BY <2>1, <2>2
<1>10. RequestIsLast'
  <2>1. \A n \in DOMAIN tout' : tout'[n].kind = "u" => Last(tout[n].id, tout[n].k)'
    BY <1>1, <1>4, <1>5, <1>6 DEF TextRel, RequestIsLast, Last
  <2>2. ASSUME NEW b \in Drones PROVE RequestIsLast!3!(b)'
    <3>1. CASE b = d
      BY <3>1, <1>1, <1>3, <1>4, <1>7, <1>8 DEF TextRel, RequestIsLast, Last
    <3>2. CASE b # d
      BY <3>2, <1>1, <1>7, <1>8 DEF TextRel, RequestIsLast, Last
    <3> QED
      BY <3>1, <3>2
  <2> QED
    BY <2>1, <2>2, <1>1 DEF TextRel, RequestIsLast
<1> QED
  BY <1>1, <1>6, <1>8, <1>9, <1>10 DEF TextRel, LostWithLine

\* The end of a worker's line keeps them.
LEMMA EndLineKeeps == ASSUME TextBase, TextRel, NEW d \in Drones, Text!EndLine(d) PROVE TextRel'
<1> DEFINE e == [kind |-> "end"]
<1>1. /\ twpc[d] = "send" /\ twpc' = [twpc EXCEPT ![d] = "take"] /\ tout' = Append(tout, e)
      /\ UNCHANGED <<tfw, tfleet, tline, tlost, mpc, mid, mstate, mj, tobs, start_sem, tcur, twj, hnext, pending, sentState, acted, misread>>
  BY DEF Text!EndLine, Text!board, Text!shared, Text!hil
<1>2. TextTypes
  BY DEF TextBase
<1>3. e \in TextOut /\ e.kind # "u"
  BY DEF TextOut
<1> HIDE DEF e
<1>4. /\ tout' \in Seq(TextOut) /\ Len(tout') = Len(tout) + 1
      /\ \A n \in 1 .. Len(tout) : tout'[n] = tout[n]
      /\ tout'[Len(tout) + 1] = e
  BY <1>1, <1>2, <1>3, Appended DEF TextTypes
<1>5. Len(tout) \in Nat /\ DOMAIN tout = 1 .. Len(tout) /\ DOMAIN tout' = 1 .. Len(tout) + 1
  BY <1>2, <1>4, Indices DEF TextTypes
<1>6. /\ \A n \in DOMAIN tout : n \in DOMAIN tout' /\ tout'[n] = tout[n]
      /\ \A n \in DOMAIN tout' : tout'[n].kind = "u" => n \in DOMAIN tout
  BY <1>3, <1>4, <1>5
<1>7. twpc'[d] = "take" /\ \A b \in Drones \ {d} : twpc'[b] = twpc[b]
  BY <1>1, <1>2 DEF TextTypes
<1>8. \A b \in Drones : /\ InLine(b)' = InLine(b) /\ AtMain(b)' = AtMain(b)
                        /\ AtWorker(b)' <=> AtWorker(b)
  BY <1>1, <1>7 DEF InLine, AtMain, AtWorker
<1>9. \A b \in Drones : InOut(b)' <=> InOut(b)
  BY <1>6 DEF InOut, IsFor
<1>10. OneRequest'
  <2> SUFFICES ASSUME NEW b \in Drones PROVE OneRequest!(b)'
    BY DEF OneRequest
  <2>1. start_sem'[b] = 1 => twpc'[b] \notin {"load", "lock"}
    BY <1>1, <1>7 DEF TextRel, OneRequest
  <2>2. \A n, h \in DOMAIN tout' : IsFor(tout'[n], b) /\ IsFor(tout'[h], b) => n = h
    BY <1>6 DEF TextRel, OneRequest, IsFor
  <2> QED
    BY <2>1, <2>2, <1>1, <1>8, <1>9 DEF TextRel, OneRequest
<1>11. RequestIsLast'
  <2>1. ASSUME NEW b \in Drones PROVE RequestIsLast!3!(b)'
    <3>1. CASE b = d
      BY <3>1, <1>1, <1>7, <1>8 DEF TextRel, RequestIsLast, Last
    <3>2. CASE b # d
      BY <3>2, <1>1, <1>7, <1>8 DEF TextRel, RequestIsLast, Last
    <3> QED
      BY <3>1, <3>2
  <2> QED
    BY <2>1, <1>1, <1>6 DEF TextRel, RequestIsLast, Last
<1> QED
  BY <1>1, <1>8, <1>9, <1>10, <1>11 DEF TextRel, LostWithLine

\* The text protocol starts with no request anywhere.
LEMMA TextStarts == ASSUME Text!Init PROVE TextInv
<1>1. /\ tfw \in {"mt", "single"} /\ tfleet \in (IF tfw = "mt" THEN 1 .. NUM_DRONES ELSE {1})
      /\ tline = <<>> /\ tlost = 0 /\ mpc = "recv" /\ mid = 0 /\ mstate = 0 /\ mj = 1
      /\ tobs = [d \in Drones |-> [j \in Places |-> 0]] /\ start_sem = [d \in Drones |-> 0]
      /\ twpc = [d \in Drones |-> "take"] /\ tcur = [d \in Drones |-> [j \in Places |-> 0]]
      /\ twj = [d \in Drones |-> 1] /\ tout = <<>> /\ hnext = 0
      /\ pending = [d \in Drones |-> TRUE] /\ sentState = [d \in Drones |-> 0]
      /\ acted = [d \in Drones |-> 0] /\ misread = {}
  BY TextNames DEF Text!Init
<1>2. TextTypes
  <2>1. tfleet \in 1 .. NUM_DRONES /\ (tfw = "single" => tfleet = 1) /\ tfleet \in Nat /\ tfleet >= 1
    BY <1>1, TextNames
  <2>2. 0 \in Drones /\ 0 \in Text!Ids /\ 1 \in 1 .. NSTATES + 1 /\ 0 \in 0 .. tfleet + 1
    BY <2>1, TextNames
  <2>3. tline \in Seq(TextLine) /\ tout \in Seq(TextOut)
    BY <1>1
  <2> QED
    BY <1>1, <2>1, <2>2, <2>3 DEF TextTypes
<1>3. DOMAIN tline = {} /\ DOMAIN tout = {}
  BY <1>1
<1>4. \A d \in Drones : ~InLine(d) /\ ~AtMain(d) /\ ~AtWorker(d) /\ ~InOut(d)
  BY <1>1, <1>3 DEF InLine, AtMain, AtWorker, InOut
<1>5. OneRequest
  BY <1>1, <1>3, <1>4 DEF OneRequest
<1>6. RequestIsLast
  BY <1>1, <1>3, <1>4 DEF RequestIsLast, Last
<1>7. MainStores /\ Undamaged
  BY <1>1, <1>3, TextNames DEF MainStores, Undamaged
<1>8. LostWithLine
  BY <1>1 DEF LostWithLine
<1> QED
  BY <1>2, <1>5, <1>6, <1>7, <1>8 DEF TextInv, TextBase, TextRel

\* What was misread stays so.
LEMMA MisreadStays == ASSUME TextBase, Text!Next PROVE misread \subseteq misread'
<1>1. CASE Text!RecvStr
  <2>1. PICK n \in 1 .. Len(tline) : Reads(n)
    BY <1>1, Received DEF TextBase
  <2> QED
    BY <2>1 DEF Reads
<1>2. CASE Text!CutAction
  BY <1>2 DEF Text!CutAction
<1>3. misread' = misread \/ Text!RecvStr \/ Text!CutAction
  BY DEF Text!Next, Text!SendState, Text!NotPending, Text!DamageLine, Text!ReadAction, Text!TimeOut,
     Text!CheckLine, Text!SendInvalid, Text!SolveAndSend, Text!EndAnswer, Text!StoreState,
     Text!TakeSem, Text!LoadWord, Text!BeginLine, Text!EndLine
<1> QED
  BY <1>1, <1>2, <1>3

\* Every step of it keeps the invariant.
LEMMA TextKeeps == ASSUME TextInv, Text!Next PROVE TextInv'
<1>0. TextBase
  BY DEF TextInv
<1>1. \/ Text!SendState \/ Text!NotPending \/ Text!ReadAction \/ Text!TimeOut \/ Text!CutAction
      \/ Text!DamageLine \/ Text!RecvStr
      \/ Text!CheckLine \/ Text!SendInvalid \/ Text!SolveAndSend \/ Text!EndAnswer \/ Text!StoreState
      \/ \E d \in Drones : Text!TakeSem(d) \/ Text!LoadWord(d) \/ Text!BeginLine(d) \/ Text!EndLine(d)
  BY TextNames DEF Text!Next
<1>2. TextBase'
  BY <1>0, <1>1, HostKeepsBase, DamageKeepsBase, RecvKeepsBase, MainKeepsBase, WorkerKeepsBase
<1>3. ASSUME "id" \notin misread' PROVE TextRel'
  <2>1. TextRel
    BY <1>0, <1>3, MisreadStays DEF TextInv
  <2> QED
    BY <2>1, <1>0, <1>1, <1>2, <1>3, TurnKeeps, SendStateKeeps, DamageLineKeeps, ReadActionKeeps,
       CutActionKeeps, RecvStrKeeps, CheckLineKeeps, OtherLineKeeps, SolveAndSendKeeps,
       StoreStateKeeps, TakeSemKeeps, LoadWordKeeps, BeginLineKeeps, EndLineKeeps
<1> QED
  BY <1>2, <1>3 DEF TextInv

\* The invariant is about the variables of the text protocol.
LEMMA TextUnchanged == ASSUME TextInv, UNCHANGED textVars PROVE TextInv'
<1>1. UNCHANGED <<tfw, tfleet, tline, tlost, mpc, mid, mstate, mj, tobs, start_sem, twpc, tcur, twj,
                  tmutex, tout, hnext, pending, sentState, acted, misread>>
  BY DEF textVars
<1>2. TextBase'
  BY <1>1 DEF TextInv, TextBase, TextTypes, MainStores, Undamaged
<1>3. TextRel => TextRel'
  BY <1>1 DEF TextRel, OneRequest, RequestIsLast, Last, LostWithLine, InLine, AtMain, AtWorker, InOut, IsFor
<1> QED
  BY <1>1, <1>2, <1>3 DEF TextInv

\* It implies what is claimed of the protocol.
LEMMA TextImplies ==
    ASSUME TextInv PROVE Text!StateWhole /\ Text!ActionIsCurrent /\ Text!StallNeedsLoss
<1>1. 1 \in Places
  BY TextNames
<1>2. Text!StateWhole
  BY <1>1, TextNames DEF Text!StateWhole, TextInv, TextRel, RequestIsLast
<1>3. Text!ActionIsCurrent
  BY TextNames DEF Text!ActionIsCurrent, Text!Started, TextInv, TextRel, RequestIsLast, Last
<1>4. Text!StallNeedsLoss
  <2> SUFFICES ASSUME NEW d \in Drones, d < tfleet, Text!Stalled(d), ~(tlost > 0) PROVE FALSE
    BY TextNames DEF Text!StallNeedsLoss, Text!Started
  <2>1. tlost \in Nat
    BY DEF TextInv, TextBase, TextTypes
  <2>2. tlost = 0 /\ misread = {} /\ TextRel
    BY <2>1 DEF TextInv, TextBase, Undamaged
  <2>3. /\ ~pending[d] /\ tline = <<>> /\ tout = <<>> /\ mpc = "recv"
        /\ twpc[d] = "take" /\ start_sem[d] = 0
    BY TextNames DEF Text!Stalled
  <2>4. ~InLine(d) /\ ~AtMain(d) /\ ~AtWorker(d) /\ ~InOut(d)
    BY <2>3 DEF InLine, AtMain, AtWorker, InOut
  <2> QED
    BY <2>2, <2>3, <2>4 DEF TextRel, LostWithLine
<1> QED
  BY <1>2, <1>3, <1>4

\* main_mt.cpp and main.cpp with their hosts, for any fleet, state size, number of states
\* and of damaged and cut lines: a worker never solves parts of two states, though main
\* stores without a lock, unless a line was accepted with another drone's id; the host
\* applies an action for the state it sent last, unless a damaged line or a cut action was
\* taken for a good one; board and host wait for each other only after a line was damaged
\* or cut.
THEOREM TextIsSound == MCSpec => []TextSound
<1> DEFINE Inv == running = "text" => TextInv
<1>1. MCInit => Inv
  BY TextStarts DEF MCInit
<1>2. Inv /\ [MCNext]_<<running, serialVars, textVars, setupVars>> => Inv'
  <2> SUFFICES ASSUME Inv, [MCNext]_<<running, serialVars, textVars, setupVars>>, running' = "text"
               PROVE  TextInv'
    OBVIOUS
  <2>1. running = "text" /\ (Text!Next \/ UNCHANGED textVars)
    BY DEF MCNext
  <2> QED
    BY <2>1, TextKeeps, TextUnchanged
<1>3. Inv => TextSound
  BY TextImplies DEF TextSound
<1> HIDE DEF Inv
<1> QED
  BY <1>1, <1>2, <1>3, PTL DEF MCSpec

-----------------------------------------------------------------------------
(* SolverSetup *)

\* The three lists, element by element.
LEMMA FullList ==
    /\ Len(Setup!FullSetup) = 14 /\ DOMAIN Setup!FullSetup = 1 .. 14
    /\ Setup!FullSetup[1] = Setup!Load("Kinf")
    /\ Setup!FullSetup[2] = Setup!Trans("Kinf")
    /\ Setup!FullSetup[3] = Setup!Load("Pinf")
    /\ Setup!FullSetup[4] = Setup!Trans("Pinf")
    /\ Setup!FullSetup[5] = Setup!Load("Quu_inv")
    /\ Setup!FullSetup[6] = Setup!Load("AmBKt")
    /\ Setup!FullSetup[7] = Setup!Trans("AmBKt")
    /\ Setup!FullSetup[8] = Setup!Load("coeff_d2p")
    /\ Setup!FullSetup[9] = Setup!Load("Adyn")
    /\ Setup!FullSetup[10] = Setup!Trans("Adyn")
    /\ Setup!FullSetup[11] = Setup!Load("Bdyn")
    /\ Setup!FullSetup[12] = Setup!Trans("Bdyn")
    /\ Setup!FullSetup[13] = Setup!Load("Q")
    /\ Setup!FullSetup[14] = Setup!Load("R")
BY DEF Setup!FullSetup

\* The list without two copies.
LEMMA ShortList ==
    /\ Len(Setup!ShortSetup) = 12 /\ DOMAIN Setup!ShortSetup = 1 .. 12
    /\ Setup!ShortSetup[1] = Setup!Load("Kinf")
    /\ Setup!ShortSetup[2] = Setup!Trans("Kinf")
    /\ Setup!ShortSetup[3] = Setup!Load("Pinf")
    /\ Setup!ShortSetup[4] = Setup!Trans("Pinf")
    /\ Setup!ShortSetup[5] = Setup!Load("Quu_inv")
    /\ Setup!ShortSetup[6] = Setup!Load("AmBKt")
    /\ Setup!ShortSetup[7] = Setup!Load("coeff_d2p")
    /\ Setup!ShortSetup[8] = Setup!Load("Adyn")
    /\ Setup!ShortSetup[9] = Setup!Load("Bdyn")
    /\ Setup!ShortSetup[10] = Setup!Trans("Bdyn")
    /\ Setup!ShortSetup[11] = Setup!Load("Q")
    /\ Setup!ShortSetup[12] = Setup!Load("R")
BY DEF Setup!ShortSetup

\* The benchmark's list.
LEMMA BenchList ==
    /\ Len(Setup!BenchSetup) = 16 /\ DOMAIN Setup!BenchSetup = 1 .. 16
    /\ \A i \in 1 .. 14 : Setup!BenchSetup[i] = Setup!FullSetup[i]
    /\ Setup!BenchSetup[15] = [do |-> "zero", m |-> "Pinf"]
    /\ Setup!BenchSetup[16] = [do |-> "zeroT", m |-> "Pinf"]
<1> DEFINE T == [do : {"load", "trans", "zero", "zeroT"}, m : Setup!Matrices]
           e == [do |-> "zero", m |-> "Pinf"]
           f == [do |-> "zeroT", m |-> "Pinf"]
<1>1. Setup!FullSetup \in Seq(T) /\ e \in T /\ f \in T
  <2>1. Setup!FullSetup = << Setup!Load("Kinf"), Setup!Trans("Kinf"), Setup!Load("Pinf"), Setup!Trans("Pinf"), Setup!Load("Quu_inv"), Setup!Load("AmBKt"), Setup!Trans("AmBKt"), Setup!Load("coeff_d2p"), Setup!Load("Adyn"), Setup!Trans("Adyn"), Setup!Load("Bdyn"), Setup!Trans("Bdyn"), Setup!Load("Q"), Setup!Load("R") >>
    BY DEF Setup!FullSetup
  <2>2. \A b \in Setup!Matrices : Setup!Load(b) \in T /\ Setup!Trans(b) \in T
    BY DEF Setup!Load, Setup!Trans
  <2>3. {"Kinf", "Pinf", "AmBKt", "Adyn", "Bdyn", "Quu_inv", "coeff_d2p", "Q", "R"} \subseteq Setup!Matrices
    BY DEF Setup!Matrices, Setup!Copied
  <2>4. e \in T /\ f \in T
    BY <2>3
  <2> HIDE DEF T
  <2> QED
    BY <2>1, <2>2, <2>3, <2>4
<1> HIDE DEF T, e, f
<1>2. /\ Setup!BenchSetup = Setup!FullSetup \o <<e, f>>
  BY DEF Setup!BenchSetup, e, f
<1>3. /\ Setup!BenchSetup \in Seq(T) /\ Len(Setup!BenchSetup) = Len(Setup!FullSetup) + 2
      /\ \A i \in 1 .. Len(Setup!FullSetup) : Setup!BenchSetup[i] = Setup!FullSetup[i]
      /\ Setup!BenchSetup[Len(Setup!FullSetup) + 1] = e /\ Setup!BenchSetup[Len(Setup!FullSetup) + 2] = f
  BY <1>1, <1>2, AppendedTwo
<1>4. Len(Setup!BenchSetup) = 16 /\ DOMAIN Setup!BenchSetup = 1 .. Len(Setup!BenchSetup)
  BY <1>1, <1>3, FullList, Indices
<1> QED
  BY <1>3, <1>4, FullList DEF e, f

\* Which list a program works through.
LEMMA ListOf ==
    ASSUME NEW p \in Setup!Programs
    PROVE  /\ Setup!Setup(p) \in {Setup!FullSetup, Setup!ShortSetup, Setup!BenchSetup}
           /\ p = "bench" <=> Setup!Setup(p) = Setup!BenchSetup
<1>1. Setup!FullSetup # Setup!BenchSetup /\ Setup!ShortSetup # Setup!BenchSetup
  BY FullList, ShortList, BenchList
<1> QED
  BY <1>1 DEF Setup!Setup, Setup!Programs, Setup!MtBinarySetup, Setup!MtSetup, Setup!SingleSetup,
     Setup!HoverSetup, Setup!TrackingSetup, Setup!RoseSetup, Setup!NavSetup, Setup!FusedSetup, Setup!FlightSetup

\* A list loads a matrix before it copies it, loads every matrix, and clears none, but
\* for the last two steps of the benchmark.
InOrder(l) ==
    /\ \A n \in DOMAIN l : /\ l[n].m \in Setup!Matrices /\ l[n].do \in {"load", "trans", "zero", "zeroT"}
                           /\ l[n].do \in {"trans", "zeroT"} => l[n].m \in Setup!Copied
    /\ \A n \in DOMAIN l : l[n].do = "load" =>
          \A i \in 1 .. n - 1 : l[i].m = l[n].m => l[i].do = "load"
    /\ \A n \in DOMAIN l : l[n].do \in {"zero", "zeroT"} => n > 14
    /\ \A b \in Setup!Matrices : \E i \in DOMAIN l : l[i].do = "load" /\ l[i].m = b

\* All three do.
LEMMA FullInOrder == InOrder(Setup!FullSetup)
<1> DEFINE l == Setup!FullSetup
<1>0. /\ \A b : Setup!Load(b).do = "load" /\ Setup!Load(b).m = b /\ Setup!Trans(b).do = "trans" /\ Setup!Trans(b).m = b
  BY DEF Setup!Load, Setup!Trans
<1>1. /\ l[1].do = "load" /\ l[1].m = "Kinf"
      /\ l[2].do = "trans" /\ l[2].m = "Kinf"
      /\ l[3].do = "load" /\ l[3].m = "Pinf"
      /\ l[4].do = "trans" /\ l[4].m = "Pinf"
      /\ l[5].do = "load" /\ l[5].m = "Quu_inv"
      /\ l[6].do = "load" /\ l[6].m = "AmBKt"
      /\ l[7].do = "trans" /\ l[7].m = "AmBKt"
      /\ l[8].do = "load" /\ l[8].m = "coeff_d2p"
      /\ l[9].do = "load" /\ l[9].m = "Adyn"
      /\ l[10].do = "trans" /\ l[10].m = "Adyn"
      /\ l[11].do = "load" /\ l[11].m = "Bdyn"
      /\ l[12].do = "trans" /\ l[12].m = "Bdyn"
      /\ l[13].do = "load" /\ l[13].m = "Q"
      /\ l[14].do = "load" /\ l[14].m = "R"
  BY FullList, <1>0
<1>2. DOMAIN l = 1 .. 14
  BY FullList
<1> HIDE DEF l
<1>3. ASSUME NEW n \in 1 .. 14 PROVE n = 1 \/ n = 2 \/ n = 3 \/ n = 4 \/ n = 5 \/ n = 6 \/ n = 7 \/ n = 8 \/ n = 9 \/ n = 10 \/ n = 11 \/ n = 12 \/ n = 13 \/ n = 14
  OBVIOUS
<1>4. ASSUME NEW n \in DOMAIN l
      PROVE  /\ l[n].m \in Setup!Matrices /\ l[n].do \in {"load", "trans"}
             /\ l[n].do = "trans" => l[n].m \in Setup!Copied
  BY <1>1, <1>2, <1>3 DEF Setup!Matrices, Setup!Copied
<1>5. ASSUME NEW n \in DOMAIN l, l[n].do = "load", NEW i \in 1 .. n - 1, l[i].m = l[n].m PROVE l[i].do = "load"
  <2>1. n \in 1 .. 14 /\ i \in 1 .. 14 /\ i < n
    BY <1>2, <1>5
  <2>2. (n = 1 \/ n = 2 \/ n = 3 \/ n = 4 \/ n = 5 \/ n = 6 \/ n = 7 \/ n = 8 \/ n = 9 \/ n = 10 \/ n = 11 \/ n = 12 \/ n = 13 \/ n = 14)
        /\ (i = 1 \/ i = 2 \/ i = 3 \/ i = 4 \/ i = 5 \/ i = 6 \/ i = 7 \/ i = 8 \/ i = 9 \/ i = 10 \/ i = 11 \/ i = 12 \/ i = 13 \/ i = 14)
    BY <2>1
  <2> QED
    BY <2>1, <2>2, <1>1, <1>5
<1>6. \A b \in Setup!Matrices : \E i \in DOMAIN l : l[i].do = "load" /\ l[i].m = b
  <2>1. 1 \in DOMAIN l /\ 2 \in DOMAIN l /\ 3 \in DOMAIN l /\ 4 \in DOMAIN l /\ 5 \in DOMAIN l /\ 6 \in DOMAIN l /\ 7 \in DOMAIN l /\ 8 \in DOMAIN l /\ 9 \in DOMAIN l /\ 10 \in DOMAIN l /\ 11 \in DOMAIN l /\ 12 \in DOMAIN l /\ 13 \in DOMAIN l /\ 14 \in DOMAIN l
    BY <1>2
  <2> QED
    BY <2>1, <1>1 DEF Setup!Matrices, Setup!Copied
<1> QED
  BY <1>4, <1>5, <1>6 DEF InOrder, l

\* The short one.
LEMMA ShortInOrder == InOrder(Setup!ShortSetup)
<1> DEFINE l == Setup!ShortSetup
<1>0. /\ \A b : Setup!Load(b).do = "load" /\ Setup!Load(b).m = b /\ Setup!Trans(b).do = "trans" /\ Setup!Trans(b).m = b
  BY DEF Setup!Load, Setup!Trans
<1>1. /\ l[1].do = "load" /\ l[1].m = "Kinf"
      /\ l[2].do = "trans" /\ l[2].m = "Kinf"
      /\ l[3].do = "load" /\ l[3].m = "Pinf"
      /\ l[4].do = "trans" /\ l[4].m = "Pinf"
      /\ l[5].do = "load" /\ l[5].m = "Quu_inv"
      /\ l[6].do = "load" /\ l[6].m = "AmBKt"
      /\ l[7].do = "load" /\ l[7].m = "coeff_d2p"
      /\ l[8].do = "load" /\ l[8].m = "Adyn"
      /\ l[9].do = "load" /\ l[9].m = "Bdyn"
      /\ l[10].do = "trans" /\ l[10].m = "Bdyn"
      /\ l[11].do = "load" /\ l[11].m = "Q"
      /\ l[12].do = "load" /\ l[12].m = "R"
  BY ShortList, <1>0
<1>2. DOMAIN l = 1 .. 12
  BY ShortList
<1> HIDE DEF l
<1>3. ASSUME NEW n \in 1 .. 12 PROVE n = 1 \/ n = 2 \/ n = 3 \/ n = 4 \/ n = 5 \/ n = 6 \/ n = 7 \/ n = 8 \/ n = 9 \/ n = 10 \/ n = 11 \/ n = 12
  OBVIOUS
<1>4. ASSUME NEW n \in DOMAIN l
      PROVE  /\ l[n].m \in Setup!Matrices /\ l[n].do \in {"load", "trans"}
             /\ l[n].do = "trans" => l[n].m \in Setup!Copied
  BY <1>1, <1>2, <1>3 DEF Setup!Matrices, Setup!Copied
<1>5. ASSUME NEW n \in DOMAIN l, l[n].do = "load", NEW i \in 1 .. n - 1, l[i].m = l[n].m PROVE l[i].do = "load"
  <2>1. n \in 1 .. 12 /\ i \in 1 .. 12 /\ i < n
    BY <1>2, <1>5
  <2>2. (n = 1 \/ n = 2 \/ n = 3 \/ n = 4 \/ n = 5 \/ n = 6 \/ n = 7 \/ n = 8 \/ n = 9 \/ n = 10 \/ n = 11 \/ n = 12)
        /\ (i = 1 \/ i = 2 \/ i = 3 \/ i = 4 \/ i = 5 \/ i = 6 \/ i = 7 \/ i = 8 \/ i = 9 \/ i = 10 \/ i = 11 \/ i = 12)
    BY <2>1
  <2> QED
    BY <2>1, <2>2, <1>1, <1>5
<1>6. \A b \in Setup!Matrices : \E i \in DOMAIN l : l[i].do = "load" /\ l[i].m = b
  <2>1. 1 \in DOMAIN l /\ 2 \in DOMAIN l /\ 3 \in DOMAIN l /\ 4 \in DOMAIN l /\ 5 \in DOMAIN l /\ 6 \in DOMAIN l /\ 7 \in DOMAIN l /\ 8 \in DOMAIN l /\ 9 \in DOMAIN l /\ 10 \in DOMAIN l /\ 11 \in DOMAIN l /\ 12 \in DOMAIN l
    BY <1>2
  <2> QED
    BY <2>1, <1>1 DEF Setup!Matrices, Setup!Copied
<1> QED
  BY <1>4, <1>5, <1>6 DEF InOrder, l

\* The benchmark's goes on where the full one ends.
LEMMA BenchInOrder == InOrder(Setup!BenchSetup)
<1> DEFINE l == Setup!BenchSetup
<1>1. /\ DOMAIN l = 1 .. 16 /\ \A i \in 1 .. 14 : l[i] = Setup!FullSetup[i]
      /\ l[15].do = "zero" /\ l[15].m = "Pinf" /\ l[16].do = "zeroT" /\ l[16].m = "Pinf"
  BY BenchList
<1>2. "Pinf" \in Setup!Copied /\ "Pinf" \in Setup!Matrices
  BY DEF Setup!Matrices, Setup!Copied
<1>3. DOMAIN Setup!FullSetup = 1 .. 14 /\ InOrder(Setup!FullSetup)
  BY FullList, FullInOrder
<1> HIDE DEF l
<1>4. ASSUME NEW n \in DOMAIN l PROVE n \in 1 .. 14 \/ n = 15 \/ n = 16
  BY <1>1
<1>5. \A n \in 1 .. 14 : Setup!FullSetup[n].do \notin {"zero", "zeroT"}
  BY <1>3 DEF InOrder
<1>6. ASSUME NEW n \in DOMAIN l
      PROVE  /\ l[n].m \in Setup!Matrices /\ l[n].do \in {"load", "trans", "zero", "zeroT"}
             /\ l[n].do \in {"trans", "zeroT"} => l[n].m \in Setup!Copied
             /\ l[n].do \in {"zero", "zeroT"} => n > 14
             /\ l[n].do = "load" => n \in 1 .. 14
  <2>1. CASE n \in 1 .. 14
    BY <2>1, <1>1, <1>3, <1>5 DEF InOrder
  <2>2. CASE n = 15 \/ n = 16
    BY <2>2, <1>1, <1>2
  <2> QED
    BY <2>1, <2>2, <1>4
<1>7. ASSUME NEW n \in DOMAIN l, l[n].do = "load", NEW i \in 1 .. n - 1, l[i].m = l[n].m PROVE l[i].do = "load"
  <2>1. n \in 1 .. 14
    BY <1>6, <1>7
  <2>2. i \in 1 .. 14
    BY <2>1
  <2> QED
    BY <2>1, <2>2, <1>1, <1>3, <1>7 DEF InOrder
<1>8. ASSUME NEW b \in Setup!Matrices PROVE \E i \in DOMAIN l : l[i].do = "load" /\ l[i].m = b
  <2>1. PICK i \in 1 .. 14 : Setup!FullSetup[i].do = "load" /\ Setup!FullSetup[i].m = b
    BY <1>3 DEF InOrder
  <2>2. i \in DOMAIN l
    BY <1>1
  <2> QED
    BY <2>1, <2>2, <1>1
<1> QED
  BY <1>6, <1>7, <1>8 DEF InOrder, l

\* What SetupStep works through.
StepsOf == Setup!Setup(sprog)

SetupTypes ==
    /\ sprog \in Setup!Programs /\ spc \in {"setup", "end", sprog} /\ sk \in Nat
    /\ mat \in [Setup!Matrices -> {"", "data", "zero"}]
    /\ matT \in [Setup!Copied -> {"", "data", "zero"}]

\* While a program fills in the solver: what is loaded stays, and a copy was made of what
\* is there, but for Pinf between the last two steps of the benchmark.
Filling ==
    /\ sk <= Len(StepsOf)
    /\ \A b \in Setup!Matrices : \A i \in 1 .. sk : StepsOf[i].do = "load" /\ StepsOf[i].m = b => mat[b] # ""
    /\ \A b \in Setup!Copied : matT[b] # "" => \E i \in 1 .. sk : StepsOf[i].do # "load" /\ StepsOf[i].m = b
    /\ \A b \in Setup!Copied : matT[b] \in {"", mat[b]} \/ (sprog = "bench" /\ sk = 15 /\ b = "Pinf")
    /\ sprog = "bench" /\ sk >= 15 => mat["Pinf"] = "zero"

\* main_tracking.cpp: the plant is at the step, and the second column of the reference
\* is for the step too once it was moved on.
Tracking ==
    /\ DOMAIN Xref = 0 .. NHORIZON - 1 /\ x0 \in Nat
    /\ spc = "setup" => x0 = 0
    /\ spc # "setup" => x0 = sk /\ (sk >= 1 => Xref[1] = sk) /\ (sk > 1 => error[1] = error[2])

\* The benchmark: the sum lies between as many times the best and the worst.
Timing ==
    /\ best \in Nat /\ worst \in Nat /\ sum \in Nat /\ all \in Seq(Nat)
    /\ \A i \in DOMAIN all : best <= all[i] /\ all[i] <= worst
    /\ spc = "setup" => sum = 0
    /\ spc # "setup" => best * sk <= sum /\ sum <= worst * sk
    /\ spc = "bench" => sk < STEPS
    /\ spc = "end" => sk = STEPS

SetupInv ==
    /\ SetupTypes
    /\ IF spc = "setup" THEN Filling ELSE Setup!CopiesAgree
    /\ sprog = "tracking" => Tracking
    /\ sprog = "bench" => Timing

\* What the lists say of the step that is next.
LEMMA StepFacts ==
    ASSUME sprog \in Setup!Programs
    PROVE  /\ InOrder(StepsOf) /\ Len(StepsOf) \in Nat /\ DOMAIN StepsOf = 1 .. Len(StepsOf)
           /\ sprog # "bench" => Len(StepsOf) <= 14
           /\ sprog = "bench" => /\ Len(StepsOf) = 16 /\ StepsOf[15].do = "zero" /\ StepsOf[15].m = "Pinf"
                                 /\ StepsOf[16].do = "zeroT" /\ StepsOf[16].m = "Pinf"
<1>1. /\ StepsOf \in {Setup!FullSetup, Setup!ShortSetup, Setup!BenchSetup}
      /\ sprog = "bench" <=> StepsOf = Setup!BenchSetup
  BY ListOf DEF StepsOf
<1>2. CASE StepsOf = Setup!FullSetup
  BY <1>1, <1>2, FullList, FullInOrder, BenchList
<1>3. CASE StepsOf = Setup!ShortSetup
  BY <1>1, <1>3, ShortList, ShortInOrder, BenchList
<1>4. CASE StepsOf = Setup!BenchSetup
  BY <1>1, <1>4, BenchList, BenchInOrder
<1> QED
  BY <1>1, <1>2, <1>3, <1>4

\* A step of the list keeps Filling.
LEMMA FillStep == ASSUME SetupInv, Setup!SetupStep PROVE SetupTypes' /\ Filling' /\ spc' = "setup" /\ sprog' = sprog
<1>1. /\ sprog \in Setup!Programs /\ spc = "setup" /\ sk \in Nat /\ Filling /\ sk < Len(StepsOf)
      /\ mat \in [Setup!Matrices -> {"", "data", "zero"}] /\ matT \in [Setup!Copied -> {"", "data", "zero"}]
      /\ UNCHANGED <<sprog, spc>> /\ sk' = sk + 1
  BY DEF SetupInv, SetupTypes, Setup!SetupStep, StepsOf
<1>2. /\ InOrder(StepsOf) /\ Len(StepsOf) \in Nat /\ DOMAIN StepsOf = 1 .. Len(StepsOf)
      /\ sprog # "bench" => Len(StepsOf) <= 14
      /\ sprog = "bench" => /\ Len(StepsOf) = 16 /\ StepsOf[15].do = "zero" /\ StepsOf[15].m = "Pinf"
                            /\ StepsOf[16].do = "zeroT" /\ StepsOf[16].m = "Pinf"
  BY <1>1, StepFacts
<1>3. PICK l : l = StepsOf
  OBVIOUS
<1>4. l = StepsOf'
  BY <1>1, <1>3 DEF StepsOf
<1>a. sk \in Nat /\ sk < Len(l) /\ sk' = sk + 1 /\ Len(l) \in Nat /\ DOMAIN l = 1 .. Len(l)
  BY <1>1, <1>2, <1>3
<1>5. PICK n \in Nat : n = sk + 1
  BY <1>a
<1>6. n \in DOMAIN l /\ n <= Len(l) /\ sk' = n /\ n >= 1 /\ n \in 1 .. n
  BY <1>a, <1>5
<1>7. PICK q : q = l[n].m
  OBVIOUS
<1>8. /\ q \in Setup!Matrices /\ l[n].do \in {"load", "trans", "zero", "zeroT"}
      /\ l[n].do \in {"trans", "zeroT"} => q \in Setup!Copied
      /\ l[n].do \in {"zero", "zeroT"} => n > 14
      /\ l[n].do = "load" => \A i \in 1 .. sk : l[i].m = q => l[i].do = "load"
  <2>1. n - 1 = sk
    BY <1>a, <1>5
  <2> QED
    BY <2>1, <1>2, <1>3, <1>6, <1>7 DEF InOrder
<1>9. /\ mat' = [mat EXCEPT ![q] = CASE l[n].do = "load" -> "data" [] l[n].do = "zero" -> "zero" [] OTHER -> @]
      /\ matT' = IF l[n].do = "trans" THEN [matT EXCEPT ![q] = mat[q]]
                 ELSE IF l[n].do = "zeroT" THEN [matT EXCEPT ![q] = "zero"] ELSE matT
  BY <1>3, <1>5, <1>7 DEF Setup!SetupStep, StepsOf
<1>10. /\ mat' \in [Setup!Matrices -> {"", "data", "zero"}] /\ matT' \in [Setup!Copied -> {"", "data", "zero"}]
       /\ \A b \in Setup!Matrices \ {q} : mat'[b] = mat[b]
       /\ \A b \in Setup!Copied \ {q} : matT'[b] = matT[b]
       /\ l[n].do = "load" => mat'[q] = "data" /\ matT' = matT
       /\ l[n].do = "zero" => mat'[q] = "zero" /\ matT' = matT
       /\ l[n].do = "trans" => mat' = mat /\ matT'[q] = mat[q]
       /\ l[n].do = "zeroT" => mat' = mat /\ matT'[q] = "zero"
  <2>1. mat[q] \in {"", "data", "zero"}
    BY <1>1, <1>8
  <2>2. CASE l[n].do = "load"
    BY <2>2, <1>1, <1>8, <1>9
  <2>3. CASE l[n].do = "zero"
    BY <2>3, <1>1, <1>8, <1>9
  <2>4. CASE l[n].do = "trans"
    <3>1. mat' = mat
      BY <2>4, <1>1, <1>8, <1>9
    <3> QED
      BY <3>1, <2>1, <2>4, <1>1, <1>8, <1>9
  <2>5. CASE l[n].do = "zeroT"
    <3>1. mat' = mat
      BY <2>5, <1>1, <1>8, <1>9
    <3> QED
      BY <3>1, <2>1, <2>5, <1>1, <1>8, <1>9
  <2> QED
    BY <2>2, <2>3, <2>4, <2>5, <1>8
<1>11. SetupTypes'
  BY <1>1, <1>5, <1>10 DEF SetupTypes
<1>12. ASSUME NEW i \in 1 .. n PROVE i \in 1 .. sk \/ i = n
  BY <1>a, <1>5
<1>13. \A i \in 1 .. sk : i \in 1 .. n
  BY <1>a, <1>5
<1>14. \A b \in Setup!Matrices : \A i \in 1 .. n : l[i].do = "load" /\ l[i].m = b => mat'[b] # ""
  <2> SUFFICES ASSUME NEW b \in Setup!Matrices, NEW i \in 1 .. n, l[i].do = "load", l[i].m = b PROVE mat'[b] # ""
    OBVIOUS
  <2>1. CASE i = n
    BY <2>1, <1>7, <1>10
  <2>2. CASE i \in 1 .. sk
    <3>1. mat[b] # ""
      BY <2>2, <1>1, <1>3 DEF Filling
    <3> QED
      BY <3>1, <1>8, <1>10
  <2> QED
    BY <2>1, <2>2, <1>12
<1>15. \A b \in Setup!Copied : matT'[b] # "" => \E i \in 1 .. n : l[i].do # "load" /\ l[i].m = b
  <2> SUFFICES ASSUME NEW b \in Setup!Copied, matT'[b] # "" PROVE \E i \in 1 .. n : l[i].do # "load" /\ l[i].m = b
    OBVIOUS
  <2>1. CASE matT[b] # ""
    BY <2>1, <1>1, <1>3, <1>13 DEF Filling
  <2>2. CASE matT[b] = ""
    <3>1. b = q /\ l[n].do \in {"trans", "zeroT"}
      BY <2>2, <1>8, <1>10
    <3> QED
      BY <3>1, <1>6, <1>7
  <2> QED
    BY <2>1, <2>2
<1>16. l[n].do = "zero" => sprog = "bench" /\ n = 15 /\ q = "Pinf"
  <2> SUFFICES ASSUME l[n].do = "zero" PROVE sprog = "bench" /\ n = 15 /\ q = "Pinf"
    OBVIOUS
  <2>1. n > 14 /\ n <= Len(l)
    BY <1>6, <1>8
  <2>2. sprog = "bench" /\ Len(l) = 16
    BY <2>1, <1>2, <1>3
  <2>3. n # 16
    BY <2>2, <1>2, <1>3
  <2>4. n = 15
    BY <2>1, <2>2, <2>3
  <2> QED
    BY <2>2, <2>4, <1>2, <1>3, <1>7
<1>17. l[n].do = "zeroT" => sprog = "bench" /\ n = 16 /\ q = "Pinf" /\ mat["Pinf"] = "zero"
  <2> SUFFICES ASSUME l[n].do = "zeroT" PROVE sprog = "bench" /\ n = 16 /\ q = "Pinf" /\ mat["Pinf"] = "zero"
    OBVIOUS
  <2>1. n > 14 /\ n <= Len(l)
    BY <1>6, <1>8
  <2>2. sprog = "bench" /\ Len(l) = 16
    BY <2>1, <1>2, <1>3
  <2>3. n # 15
    BY <2>2, <1>2, <1>3
  <2>4. n = 16 /\ sk >= 15
    BY <2>1, <2>2, <2>3, <1>a, <1>5
  <2> QED
    BY <2>2, <2>4, <1>1, <1>2, <1>3, <1>7 DEF Filling
<1>18. sprog = "bench" /\ sk = 15 => l[n].do = "zeroT"
  BY <1>2, <1>3, <1>5
<1>19. ASSUME NEW b \in Setup!Copied PROVE matT'[b] \in {"", mat'[b]} \/ (sprog = "bench" /\ n = 15 /\ b = "Pinf")
  <2>0. b \in Setup!Matrices
    BY DEF Setup!Matrices
  <2>1. matT[b] \in {"", mat[b]} \/ (sprog = "bench" /\ sk = 15 /\ b = "Pinf")
    BY <1>1 DEF Filling
  <2>2. CASE l[n].do = "load"
    <3>1. b = q => matT[b] = ""
      <4>1. matT[b] # "" => \E i \in 1 .. sk : l[i].do # "load" /\ l[i].m = b
        BY <1>1, <1>3 DEF Filling
      <4> QED
        BY <4>1, <2>2, <1>8
    <3> QED
      BY <3>1, <2>0, <2>1, <2>2, <1>10, <1>18
  <2>3. CASE l[n].do = "zero"
    BY <2>0, <2>1, <2>3, <1>10, <1>16, <1>18
  <2>4. CASE l[n].do = "trans"
    BY <2>0, <2>1, <2>4, <1>10, <1>18
  <2>5. CASE l[n].do = "zeroT"
    BY <2>0, <2>1, <2>5, <1>10, <1>17
  <2> QED
    BY <2>2, <2>3, <2>4, <2>5, <1>8
<1>20. sprog = "bench" /\ n >= 15 => mat'["Pinf"] = "zero"
  <2> SUFFICES ASSUME sprog = "bench", n >= 15 PROVE mat'["Pinf"] = "zero"
    OBVIOUS
  <2>1. n = 15 \/ n = 16
    BY <1>2, <1>3, <1>6
  <2>2. CASE n = 15
    BY <2>2, <1>2, <1>3, <1>7, <1>10
  <2>3. CASE n = 16
    <3>1. l[n].do = "zeroT"
      BY <2>3, <1>2, <1>3
    <3> QED
      BY <3>1, <1>10, <1>17
  <2> QED
    BY <2>1, <2>2, <2>3
<1>21. Filling'
  <2>1. n = sk' /\ StepsOf' = l /\ sprog' = sprog
    BY <1>1, <1>4, <1>6
  <2>2. sk' <= Len(StepsOf')
    BY <1>6, <2>1
  <2>3. \A b \in Setup!Matrices : \A i \in 1 .. sk' :
            StepsOf'[i].do = "load" /\ StepsOf'[i].m = b => mat'[b] # ""
    BY <1>14, <2>1, Zenon
  <2>4. \A b \in Setup!Copied :
            matT'[b] # "" => \E i \in 1 .. sk' : StepsOf'[i].do # "load" /\ StepsOf'[i].m = b
    BY <1>15, <2>1, Zenon
  <2>5. \A b \in Setup!Copied : matT'[b] \in {"", mat'[b]} \/ (sprog' = "bench" /\ sk' = 15 /\ b = "Pinf")
    BY <1>19, <2>1, Zenon
  <2>6. sprog' = "bench" /\ sk' >= 15 => mat'["Pinf"] = "zero"
    BY <1>20, <2>1, Zenon
  <2> QED
    BY <2>2, <2>3, <2>4, <2>5, <2>6 DEF Filling
<1> QED
  BY <1>1, <1>11, <1>21

\* When the list is done, the copies agree with the matrices.
LEMMA FillDone == ASSUME SetupInv, spc = "setup", sk = Len(StepsOf)
                  PROVE  /\ \A b \in Setup!Matrices : mat[b] # ""
                         /\ \A b \in Setup!Copied : matT[b] \in {"", mat[b]}
<1>1. sprog \in Setup!Programs /\ Filling
  BY DEF SetupInv, SetupTypes
<1>2. /\ InOrder(StepsOf) /\ Len(StepsOf) \in Nat /\ DOMAIN StepsOf = 1 .. Len(StepsOf)
      /\ sprog = "bench" => Len(StepsOf) = 16
  BY <1>1, StepFacts
<1>3. ASSUME NEW b \in Setup!Matrices PROVE mat[b] # ""
  BY <1>1, <1>2 DEF InOrder, Filling
<1>4. ~(sprog = "bench" /\ sk = 15)
  <2>1. sk = Len(StepsOf)
    OBVIOUS
  <2>2. sprog = "bench" => sk = 16
    BY <1>2, <2>1
  <2>3. \A n \in Nat : n = 16 => n # 15
    OBVIOUS
  <2>4. sk \in Nat
    BY <1>2, <2>1
  <2> QED
    BY <2>2, <2>3, <2>4, Zenon
<1> QED
  BY <1>1, <1>3, <1>4 DEF Filling

\* A sum between as many times the best and the worst is so with one time more.
LEMMA OneTimeMore ==
    ASSUME NEW n \in Nat, NEW d \in Nat, NEW s \in Nat, NEW a \in Nat, NEW b \in Nat,
           NEW a1 \in Nat, NEW b1 \in Nat, a1 <= a, a1 <= d, b <= b1, d <= b1, a * n <= s, s <= b * n
    PROVE  a1 * (n + 1) <= s + d /\ s + d <= b1 * (n + 1)
<1>1. a1 * n <= a * n /\ b * n <= b1 * n
  BY Grows
<1>2. a1 * (n + 1) = a1 * n + a1 /\ b1 * (n + 1) = b1 * n + b1
  OBVIOUS
<1>3. a * n \in Nat /\ b * n \in Nat /\ a1 * n \in Nat /\ b1 * n \in Nat
  OBVIOUS
<1> QED
  BY <1>1, <1>2, <1>3

\* A run of the benchmark keeps its statistics right.
LEMMA BenchKeeps == ASSUME SetupInv, Setup!BenchRun PROVE SetupInv'
<1>1. /\ spc = "bench" /\ sprog = "bench" /\ Timing /\ SetupTypes /\ Setup!CopiesAgree
      /\ UNCHANGED <<sprog, mat, matT, x0, Xref, error>> /\ Setup!NextStep
  <2>1. spc = "bench" /\ SetupTypes
    BY DEF Setup!BenchRun, SetupInv
  <2>2. sprog = "bench"
    BY <2>1 DEF SetupTypes, Setup!Programs
  <2> QED
    BY <2>1, <2>2 DEF Setup!BenchRun, SetupInv
<1>2. PICK d \in 1 .. CYCLES : /\ best' = (IF d < best THEN d ELSE best) /\ worst' = (IF d > worst THEN d ELSE worst)
                               /\ sum' = sum + d /\ all' = Append(all, d)
  BY DEF Setup!BenchRun
<1>3. sk \in Nat /\ d \in Nat /\ best \in Nat /\ worst \in Nat /\ sum \in Nat /\ all \in Seq(Nat) /\ STEPS \in Nat
  <2>1. d \in Nat /\ STEPS \in Nat
    BY SerialNumbers
  <2>2. sk \in Nat /\ best \in Nat /\ worst \in Nat /\ sum \in Nat /\ all \in Seq(Nat)
    BY <1>1 DEF SetupTypes, Timing
  <2> QED
    BY <2>1, <2>2
<1>4. sk' = sk + 1 /\ spc' = (IF sk + 1 < STEPS THEN "bench" ELSE "end") /\ sk < STEPS
  BY <1>1 DEF Setup!NextStep, Timing
<1>5. best' \in Nat /\ worst' \in Nat /\ best' <= best /\ best' <= d /\ worst <= worst' /\ d <= worst'
  BY <1>2, <1>3
<1>6. /\ all' \in Seq(Nat) /\ Len(all') = Len(all) + 1 /\ \A i \in 1 .. Len(all) : all'[i] = all[i]
      /\ all'[Len(all) + 1] = d
  BY <1>2, <1>3, Appended
<1>7. Len(all) \in Nat /\ DOMAIN all = 1 .. Len(all) /\ DOMAIN all' = 1 .. Len(all) + 1
  BY <1>3, <1>6, Indices
<1>8. \A i \in DOMAIN all' : best' <= all'[i] /\ all'[i] <= worst'
  <2> SUFFICES ASSUME NEW i \in 1 .. Len(all) + 1 PROVE best' <= all'[i] /\ all'[i] <= worst'
    BY <1>7
  <2>1. CASE i = Len(all) + 1
    BY <2>1, <1>5, <1>6
  <2>2. CASE i \in 1 .. Len(all)
    <3>0. all[i] \in Nat /\ i \in DOMAIN all
      BY <2>2, <1>3, <1>7
    <3>1. all'[i] = all[i] /\ all[i] \in Nat /\ best <= all[i] /\ all[i] <= worst
      BY <3>0, <2>2, <1>1, <1>6 DEF Timing
    <3> QED
      BY <3>1, <1>3, <1>5
  <2> QED
    BY <2>1, <2>2, <1>7
<1>9. best' * sk' <= sum' /\ sum' <= worst' * sk'
  <2>1. best * sk <= sum /\ sum <= worst * sk
    BY <1>1 DEF Timing
  <2>2. best' * (sk + 1) <= sum + d /\ sum + d <= worst' * (sk + 1)
    BY <2>1, <1>3, <1>5, OneTimeMore
  <2> QED
    BY <2>2, <1>2, <1>4
<1>10. (spc' = "bench" => sk' < STEPS) /\ (spc' = "end" => sk' = STEPS) /\ spc' # "setup" /\ sk' \in Nat
  BY <1>3, <1>4
<1>11. sum' \in Nat
  BY <1>2, <1>3
<1>12. Timing'
  BY <1>5, <1>6, <1>8, <1>9, <1>10, <1>11 DEF Timing
<1>13. SetupTypes'
  BY <1>1, <1>4, <1>10 DEF SetupTypes
<1>14. Setup!CopiesAgree'
  BY <1>1 DEF Setup!CopiesAgree
<1> QED
  BY <1>1, <1>10, <1>12, <1>13, <1>14 DEF SetupInv

\* A step of main_tracking.cpp keeps plant and reference together.
LEMMA TrackingKeeps == ASSUME SetupInv, Setup!TrackingStep PROVE SetupInv'
<1>1. /\ spc = "tracking" /\ sprog = "tracking" /\ Tracking /\ SetupTypes /\ Setup!CopiesAgree
      /\ UNCHANGED <<sprog, mat, matT>> /\ sk' = sk + 1 /\ spc' \in {spc, "end"} /\ x0' = x0 + 1
      /\ error' = <<x0, Xref[1]>> /\ Xref' = [j \in DOMAIN Xref |-> sk + j]
  <2>1. spc = "tracking" /\ SetupTypes
    BY DEF Setup!TrackingStep, SetupInv
  <2>2. sprog = "tracking"
    BY <2>1 DEF SetupTypes, Setup!Programs
  <2> QED
    BY <2>1, <2>2 DEF Setup!TrackingStep, SetupInv, Setup!NextStep
<1>2. sk \in Nat /\ x0 = sk /\ (sk >= 1 => Xref[1] = sk) /\ DOMAIN Xref = 0 .. NHORIZON - 1
  BY <1>1 DEF SetupTypes, Tracking
<1>3. 1 \in DOMAIN Xref
  BY <1>2, SerialNumbers
<1>4. DOMAIN Xref' = 0 .. NHORIZON - 1 /\ Xref'[1] = sk + 1
  BY <1>1, <1>2, <1>3
<1>5. sk' > 1 => error'[1] = error'[2]
  BY <1>1, <1>2
<1>6. sk' \in Nat /\ x0' = sk' /\ spc' # "setup" /\ spc' \in {"tracking", "end"}
  BY <1>1, <1>2
<1>7. Tracking'
  BY <1>1, <1>4, <1>5, <1>6 DEF Tracking
<1>8. SetupTypes'
  BY <1>1, <1>6 DEF SetupTypes
<1>9. Setup!CopiesAgree'
  BY <1>1 DEF Setup!CopiesAgree
<1> QED
  BY <1>1, <1>6, <1>7, <1>8, <1>9 DEF SetupInv

\* A step of main_hover.cpp.
LEMMA HoverKeeps == ASSUME SetupInv, Setup!HoverStep PROVE SetupInv'
<1>1. /\ spc = "hover" /\ sprog = "hover" /\ SetupTypes /\ Setup!CopiesAgree
      /\ UNCHANGED <<sprog, mat, matT>> /\ sk' = sk + 1 /\ spc' \in {spc, "end"}
  <2>1. spc = "hover" /\ SetupTypes
    BY DEF Setup!HoverStep, SetupInv
  <2>2. sprog = "hover"
    BY <2>1 DEF SetupTypes, Setup!Programs
  <2> QED
    BY <2>1, <2>2 DEF Setup!HoverStep, SetupInv, Setup!NextStep
<1>2. SetupTypes' /\ spc' # "setup"
  <2>0. sk \in Nat /\ sk' = sk + 1
    BY <1>1 DEF SetupTypes
  <2>1. sk' \in Nat
    BY <2>0
  <2> QED
    BY <2>1, <1>1 DEF SetupTypes
<1>3. Setup!CopiesAgree'
  BY <1>1 DEF Setup!CopiesAgree
<1> QED
  BY <1>1, <1>2, <1>3 DEF SetupInv

\* The end of the list.
LEMMA DoneKeeps == ASSUME SetupInv, Setup!SetupDone PROVE SetupInv'
<1>1. /\ spc = "setup" /\ sk = Len(StepsOf) /\ sk' = 0 /\ SetupTypes
      /\ spc' = (IF sprog \in {"hover", "tracking", "bench"} THEN sprog ELSE "end")
      /\ UNCHANGED <<sprog, mat, matT, x0, x, Xref, duals, error, best, worst, sum, all>>
  BY DEF Setup!SetupDone, StepsOf, Setup!plant, Setup!stats, SetupInv
<1>2. spc' # "setup" /\ SetupTypes'
  BY <1>1 DEF SetupTypes, Setup!Programs
<1>3. Setup!CopiesAgree'
  BY <1>1, FillDone DEF Setup!CopiesAgree
<1>4. sprog = "tracking" => Tracking'
  BY <1>1, <1>2 DEF SetupInv, Tracking
<1>5. sprog = "bench" => Timing'
  <2> SUFFICES ASSUME sprog = "bench" PROVE Timing'
    OBVIOUS
  <2>1. Timing /\ spc' = "bench"
    BY <1>1 DEF SetupInv
  <2>2. best \in Nat /\ worst \in Nat /\ sum = 0 /\ STEPS \in Nat /\ STEPS >= 1
    BY <2>1, <1>1, SerialNumbers DEF Timing
  <2>3. best * 0 <= 0 /\ 0 <= worst * 0 /\ 0 < STEPS
    BY <2>2
  <2> QED
    BY <2>1, <2>2, <2>3, <1>1 DEF Timing
<1> QED
  BY <1>1, <1>2, <1>3, <1>4, <1>5 DEF SetupInv

\* A step of the list leaves the plant and the statistics alone.
LEMMA StepKeeps == ASSUME SetupInv, Setup!SetupStep PROVE SetupInv'
<1>1. SetupTypes' /\ Filling' /\ spc' = "setup" /\ sprog' = sprog
  BY FillStep
<1>2. spc = "setup" /\ UNCHANGED <<x0, x, Xref, duals, error, best, worst, sum, all>>
  BY DEF Setup!SetupStep, Setup!plant, Setup!stats
<1>3. sprog = "tracking" => Tracking'
  BY <1>1, <1>2 DEF SetupInv, Tracking
<1>4. sprog = "bench" => Timing'
  BY <1>1, <1>2 DEF SetupInv, Timing
<1> QED
  BY <1>1, <1>3, <1>4 DEF SetupInv

\* All of them start with empty matrices.
LEMMA SetupStarts == ASSUME Setup!Init PROVE SetupInv
<1>1. /\ sprog \in Setup!Programs /\ spc = "setup" /\ sk = 0
      /\ mat = [m \in Setup!Matrices |-> ""] /\ matT = [m \in Setup!Copied |-> ""]
      /\ x0 = 0 /\ DOMAIN Xref = 0 .. NHORIZON - 1
      /\ best = CYCLES + 1 /\ worst = 0 /\ sum = 0 /\ all = <<>>
  BY DEF Setup!Init
<1>2. SetupTypes
  BY <1>1 DEF SetupTypes
<1>3. Filling
  <2>1. Len(StepsOf) \in Nat
    BY <1>1, StepFacts
  <2>2. sk = 0
    BY <1>1
  <2>3. sk <= Len(StepsOf) /\ 1 .. sk = {} /\ ~(sk = 15) /\ ~(sk >= 15)
    BY <2>1, <2>2
  <2>4. \A b \in Setup!Copied : matT[b] = ""
    BY <1>1
  <2> QED
    BY <2>3, <2>4 DEF Filling
<1>4. Tracking
  BY <1>1 DEF Tracking
<1>5. Timing
  <2>0. best = CYCLES + 1 /\ all = <<>>
    BY <1>1
  <2>1. best \in Nat
    BY <2>0, SerialNumbers
  <2>2. all \in Seq(Nat) /\ DOMAIN all = {}
    BY <2>0
  <2> QED
    BY <2>1, <2>2, <1>1 DEF Timing
<1> QED
  BY <1>1, <1>2, <1>3, <1>4, <1>5 DEF SetupInv

\* The invariant is about the variables of these programs.
LEMMA SetupUnchanged == ASSUME SetupInv, UNCHANGED setupVars PROVE SetupInv'
<1>1. UNCHANGED <<sprog, spc, sk, mat, matT, x0, x, Xref, duals, error, best, worst, sum, all>>
  BY DEF setupVars
<1>2. Filling' = Filling
  BY <1>1 DEF Filling, StepsOf
<1>3. SetupTypes' = SetupTypes /\ Setup!CopiesAgree' = Setup!CopiesAgree
  BY <1>1 DEF SetupTypes, Setup!CopiesAgree
<1>4. Tracking' = Tracking /\ Timing' = Timing
  BY <1>1 DEF Tracking, Timing
<1> QED
  BY <1>1, <1>2, <1>3, <1>4 DEF SetupInv

\* The average lies between the best and the worst.
LEMMA AverageBetween ==
    ASSUME NEW a \in Nat, NEW b \in Nat, NEW s \in Nat, NEW n \in Nat, n >= 1, a * n <= s, s <= b * n
    PROVE  a <= s \div n /\ s \div n <= b
<1>1. PICK q \in Nat : q = s \div n
  OBVIOUS
<1>2. q * n <= s /\ s < q * n + n
  BY <1>1
<1>3. a <= q
  <2> SUFFICES ASSUME q + 1 <= a PROVE FALSE
    OBVIOUS
  <2>1. (q + 1) * n <= a * n
    BY Grows
  <2>2. (q + 1) * n = q * n + n
    OBVIOUS
  <2> QED
    BY <2>1, <2>2, <1>2
<1>4. q <= b
  <2> SUFFICES ASSUME b + 1 <= q PROVE FALSE
    OBVIOUS
  <2>1. (b + 1) * n <= q * n
    BY Grows
  <2>2. (b + 1) * n = b * n + n
    OBVIOUS
  <2> QED
    BY <2>1, <2>2, <1>2
<1> QED
  BY <1>1, <1>3, <1>4

\* The invariant implies what is claimed.
LEMMA SetupImplies ==
    ASSUME SetupInv PROVE Setup!CopiesAgree /\ Setup!ErrorOfItsStep /\ Setup!ReportCoversRuns
<1>1. Setup!CopiesAgree
  BY DEF SetupInv, Setup!CopiesAgree
<1>2. Setup!ErrorOfItsStep
  BY DEF SetupInv, Tracking, Setup!ErrorOfItsStep
<1>3. Setup!ReportCoversRuns
  <2> SUFFICES ASSUME sprog = "bench", spc = "end"
               PROVE  /\ \A i \in DOMAIN all : best <= all[i] /\ all[i] <= worst
                      /\ best <= sum \div STEPS /\ sum \div STEPS <= worst
    BY DEF Setup!ReportCoversRuns
  <2>1. Timing
    BY DEF SetupInv
  <2>2. /\ best \in Nat /\ worst \in Nat /\ sum \in Nat /\ best * STEPS <= sum /\ sum <= worst * STEPS
        /\ STEPS \in Nat /\ STEPS >= 1
    BY <2>1, SerialNumbers DEF Timing
  <2>3. best <= sum \div STEPS /\ sum \div STEPS <= worst
    BY <2>2, AverageBetween
  <2> QED
    BY <2>1, <2>3 DEF Timing
<1> QED
  BY <1>1, <1>2, <1>3

\* The programs that fill in TinyMPC, for any number of steps, horizon and cycles: each
\* transposed copy is that of the matrix as it is when the program solves, the tracking
\* error compares plant and reference of the same step, and the benchmark's best, worst
\* and average are about all runs.
THEOREM SetupIsSound == MCSpec => []SetupSound
<1> DEFINE Inv == running = "setup" => SetupInv
<1>1. MCInit => Inv
  BY SetupStarts DEF MCInit
<1>2. Inv /\ [MCNext]_<<running, serialVars, textVars, setupVars>> => Inv'
  <2> SUFFICES ASSUME Inv, [MCNext]_<<running, serialVars, textVars, setupVars>>, running' = "setup"
               PROVE  SetupInv'
    OBVIOUS
  <2>1. running = "setup" /\ (Setup!Next \/ UNCHANGED setupVars)
    BY DEF MCNext
  <2> QED
    BY <2>1, StepKeeps, DoneKeeps, HoverKeeps, TrackingKeeps, BenchKeeps, SetupUnchanged DEF Setup!Next
<1>3. Inv => SetupSound
  BY SetupImplies DEF SetupSound
<1> HIDE DEF Inv
<1> QED
  BY <1>1, <1>2, <1>3, PTL DEF MCSpec

-----------------------------------------------------------------------------
(* SerialHil *)

Named == 0 .. Garbage           \* the state of a packet, or of none

\* The bytes to the board.
LineByte == ({"H", "n"} \X Nat) \union ({"d"} \X Named \X Nat \X Nat)

\* main, the workers and what they share.
MainTypes ==
    /\ firmware \in {"binary", "echo"} /\ fleet \in 1 .. NUM_DRONES /\ pk \in 0 .. MAX_PACKETS
    /\ line \in Seq(LineByte)
    /\ rpc \in {"sync", "num", "skip", "state", "flag", "reply"}
    /\ num \in Nat /\ rid \in Nat /\ rj \in Nat
    /\ rpc \in {"state", "flag"} => rid < num /\ num <= NUM_DRONES /\ rj >= 1
    /\ rpc = "state" => rj <= NSTATES
    /\ rpc = "skip" => num >= 1
    /\ rpc = "reply" => num <= rid

WorkerTypes ==
    /\ obs \in [Drones -> [Places -> Named]] /\ cur \in [Drones -> [Places -> Named]]
    /\ new_state \in [Drones -> BOOLEAN]
    /\ wpc \in [Drones -> {"wait", "copy", "lock", "header", "body"}] /\ wj \in [Drones -> Nat]
    /\ \A d \in Drones : wpc[d] = "copy" => wj[d] \in Places
    /\ \A d \in Drones : wpc[d] \in {"header", "body"} => uart_mutex = d

\* The echo program has no workers, and the other one no canned replies.
OneSender ==
    /\ firmware = "echo" => /\ \A d \in Drones : wpc[d] = "wait" /\ ~new_state[d]
                            /\ rpc \notin {"state", "flag"}
    /\ firmware = "binary" => rpc # "reply"

\* Byte q of the response a: the header, the drone, the action, the time.
ByteOf(a, q) ==
    IF q <= HDR_LEN THEN <<"H", q>>
    ELSE IF q = HDR_LEN + 1 THEN <<"id", a[1]>>
    ELSE IF q <= HDR_LEN + 1 + ACT_BYTES THEN <<"u", a, q - (HDR_LEN + 1)>>
    ELSE <<"ns", q - (HDR_LEN + 1 + ACT_BYTES)>>
Replies == Nat \X Named
OutByte == {ByteOf(a, q) : a \in Replies, q \in Nat}

Begun == \E d \in Drones : wpc[d] = "body"

\* The bytes to a host that searches for the header: the responses it has not read, one
\* after another, and the beginning of one that a worker is sending.
Stream ==
    /\ out \in Seq(OutByte) /\ responses \in Seq(Replies)
    /\ Len(out) = Len(responses) * PacketLen + (IF Begun THEN HDR_LEN + 1 ELSE 0)
    /\ \A r \in 1 .. Len(responses) : \A q \in 1 .. PacketLen :
          out[(r - 1) * PacketLen + q] = ByteOf(responses[r], q)
    /\ \A d \in Drones : wpc[d] = "body" =>
          \A q \in 1 .. HDR_LEN + 1 : out[Len(responses) * PacketLen + q] = ByteOf(<<d, 0>>, q)
    /\ ActionsDecoded

LineInv == MainTypes /\ WorkerTypes /\ OneSender /\ NoStateLost /\ (host = "console" => Stream)

\* The sets of numbers, in the form the proofs use.
LEMMA LineNames ==
    /\ Drones = 0 .. NUM_DRONES - 1 /\ Places = 1 .. NSTATES /\ Garbage \in Nat
    /\ Garbage = MAX_PACKETS + 1 /\ Named = 0 .. Garbage /\ TooMany = NUM_DRONES + 1
    /\ Free = NUM_DRONES /\ PacketLen = HDR_LEN + 1 + ACT_BYTES + NS_BYTES /\ PacketLen \in Nat
BY SerialNumbers DEF Drones, Places, Garbage, Named, TooMany, Free, PacketLen

\* What a byte on the line may be.
LEMMA ByteKinds ==
    ASSUME NEW b \in LineByte
    PROVE  (b[1] = "d" => b[2] \in Named) /\ (b[1] = "n" => b[2] \in Nat)
BY DEF LineByte

\* The header.
LEMMA HeaderBytes ==
    /\ Header \in Seq(LineByte) /\ Len(Header) = HDR_LEN
    /\ \A i \in 1 .. HDR_LEN : Header[i] = <<"H", i>>
<1>1. \A i \in 1 .. HDR_LEN : <<"H", i>> \in LineByte
  BY SerialNumbers DEF LineByte
<1> QED
  BY <1>1, SerialNumbers DEF Header

\* The states that follow it.
LEMMA DataBytes == ASSUME NEW k1 \in Named, NEW n \in Nat, NEW last \in BOOLEAN PROVE Data(k1, n, last) \in Seq(LineByte)
<1>1. n * NSTATES \in Nat
  BY SerialNumbers
<1>2. PICK m \in Nat : m = n * NSTATES
  BY <1>1
<1>3. ASSUME NEW i \in 1 .. m
      PROVE  (IF i = m /\ last THEN <<"H", 1>>
              ELSE <<"d", k1, (i - 1) \div NSTATES, ((i - 1) % NSTATES) + 1>>) \in LineByte
  <2>1. i - 1 \in Nat /\ NSTATES \in Nat /\ NSTATES > 0
    BY SerialNumbers
  <2>2. (i - 1) \div NSTATES \in Nat /\ ((i - 1) % NSTATES) + 1 \in Nat
    BY <2>1
  <2>3. \A a \in Nat, c \in Nat : <<"d", k1, a, c>> \in LineByte
    BY DEF LineByte
  <2>4. <<"H", 1>> \in LineByte
    BY DEF LineByte
  <2> QED
    BY <2>2, <2>3, <2>4
<1>4. Data(k1, n, last) = [i \in 1 .. m |-> IF i = m /\ last THEN <<"H", 1>>
              ELSE <<"d", k1, (i - 1) \div NSTATES, ((i - 1) % NSTATES) + 1>>]
  BY <1>2 DEF Data
<1>5. [i \in 1 .. m |-> IF i = m /\ last THEN <<"H", 1>>
              ELSE <<"d", k1, (i - 1) \div NSTATES, ((i - 1) % NSTATES) + 1>>] \in [1 .. m -> LineByte]
  BY <1>3
<1>6. \A f \in [1 .. m -> LineByte] : f \in Seq(LineByte)
  BY <1>2
<1> QED
  BY <1>4, <1>5, <1>6

\* A step of main's receiver or of the line, which leaves the workers, their states and
\* the answers alone and stops writing no state.
LEMMA ReceiverOnly ==
    ASSUME LineInv, MainTypes', OneSender',
           UNCHANGED <<host, obs, new_state, wpc, cur, wj, uart_mutex, out, responses, action>>,
           \A d \in Drones : Writing(d) => Writing(d)'
    PROVE  LineInv'
<1>1. WorkerTypes'
  BY DEF LineInv, WorkerTypes
<1>2. NoStateLost'
  BY DEF LineInv, NoStateLost, Copied
<1>3. host = "console" => Stream'
  BY DEF LineInv, Stream, Begun, ActionsDecoded
<1> QED
  BY <1>1, <1>2, <1>3 DEF LineInv

\* The host's packet keeps the invariant.
LEMMA SendStatesKeeps == ASSUME LineInv, SendStates PROVE LineInv'
<1>1. PICK n \in {fleet, TooMany}, last \in BOOLEAN :
          line' = line \o Header \o <<<<"n", n>>>> \o Data(pk + 1, n, last)
  BY DEF SendStates
<1>2. /\ pk < MAX_PACKETS \div fleet /\ pk' = pk + 1
      /\ UNCHANGED <<firmware, host, fleet, rpc, match_idx, num, rid, rj, obs, new_state, wpc, cur, wj, uart_mutex,
                     out, responses, answered, hpc, action, timeouts>>
  BY DEF SendStates, programs, receiver, tasks, workers, answers, client
<1>3. MainTypes /\ pk \in Nat /\ pk \in 0 .. MAX_PACKETS /\ fleet \in 1 .. NUM_DRONES
  BY SerialNumbers DEF LineInv, MainTypes
<1>4. pk + 1 \in 0 .. MAX_PACKETS
  <2>1. fleet \in Nat /\ fleet >= 1 /\ MAX_PACKETS \in Nat /\ pk \in Nat
    BY <1>3, SerialNumbers
  <2>2. PICK q \in Nat : q = MAX_PACKETS \div fleet
    BY <2>1
  <2>3. q * fleet <= MAX_PACKETS
    BY <2>1, <2>2
  <2>4. q * 1 <= q * fleet
    BY <2>1, <2>2, Grows
  <2> QED
    BY <2>1, <2>2, <2>3, <2>4, <1>2
<1>5. n \in Nat /\ pk + 1 \in Named
  BY <1>3, <1>4, LineNames, SerialNumbers
<1>6. line' \in Seq(LineByte)
  <2>1. Data(pk + 1, n, last) \in Seq(LineByte) /\ Header \in Seq(LineByte) /\ line \in Seq(LineByte)
    BY <1>3, <1>5, DataBytes, HeaderBytes DEF MainTypes
  <2>2. <<<<"n", n>>>> \in Seq(LineByte)
    <3>1. <<"n", n>> \in LineByte
      BY <1>5 DEF LineByte
    <3> QED
      BY <3>1
  <2> QED
    BY <2>1, <2>2, <1>1
<1>7. MainTypes'
  BY <1>2, <1>3, <1>4, <1>6 DEF MainTypes
<1>8. OneSender' /\ \A d \in Drones : Writing(d) => Writing(d)'
  BY <1>2 DEF LineInv, OneSender, Writing
<1> QED
  BY <1>2, <1>7, <1>8, ReceiverOnly

\* A lost byte keeps it.
LEMMA LoseByteKeeps == ASSUME LineInv, LoseByte PROVE LineInv'
<1>1. PICK i \in DOMAIN line : line' = SubSeq(line, 1, i - 1) \o SubSeq(line, i + 1, Len(line))
  BY DEF LoseByte
<1>2. UNCHANGED <<firmware, host, fleet, pk, rpc, match_idx, num, rid, rj, obs, new_state, wpc, cur, wj, uart_mutex,
                  out, responses, answered, hpc, action, timeouts>>
  BY DEF LoseByte, programs, receiver, tasks, workers, answers, client
<1>3. MainTypes /\ line \in Seq(LineByte)
  BY DEF LineInv, MainTypes
<1>4. i \in 1 .. Len(line) /\ Len(line) \in Nat
  BY <1>3
<1>5. SubSeq(line, 1, i - 1) \in Seq(LineByte) /\ SubSeq(line, i + 1, Len(line)) \in Seq(LineByte)
  BY <1>3, <1>4
<1>6. line' \in Seq(LineByte)
  BY <1>1, <1>5
<1>7. MainTypes'
  BY <1>2, <1>3, <1>6 DEF MainTypes
<1>8. OneSender' /\ \A d \in Drones : Writing(d) => Writing(d)'
  BY <1>2 DEF LineInv, OneSender, Writing
<1> QED
  BY <1>2, <1>7, <1>8, ReceiverOnly

\* What a poll finds.
LEMMA Polled ==
    ASSUME LineInv, Poll
    PROVE  /\ rx \in LineByte /\ line' \in Seq(LineByte) /\ pk' = pk
           /\ (rx[1] = "d" => rx[2] \in Named) /\ (rx[1] = "n" => rx[2] \in Nat)
<1>1. line \in Seq(LineByte) /\ line # <<>> /\ line' = Tail(line) /\ pk' = pk
  BY DEF LineInv, MainTypes, Poll
<1>2. Head(line) \in LineByte /\ Tail(line) \in Seq(LineByte)
  BY <1>1
<1> QED
  BY <1>1, <1>2, ByteKinds DEF rx

\* What a count may be.
LEMMA CountsNatural == ASSUME LineInv, Poll, NEW n \in Counts PROVE n \in Nat
<1>1. CASE rx[1] = "n"
  BY <1>1, Polled DEF Counts
<1>2. CASE rx[1] # "n"
  BY <1>2, LineNames, SerialNumbers DEF Counts
<1> QED
  BY <1>1, <1>2

\* The steps of the receiver that keep the state it writes alone.
LEMMA ReceiverKeeps ==
    ASSUME LineInv, SyncHeader \/ ReadNum \/ SkipByte \/ EchoNum \/ EchoSkip PROVE LineInv'
<1>1. /\ Poll /\ rpc \in {"sync", "num", "skip"}
      /\ UNCHANGED <<firmware, host, fleet, obs, new_state, wpc, cur, wj, uart_mutex, out, responses, answered, hpc, action, timeouts>>
  BY DEF SyncHeader, ReadNum, SkipByte, EchoNum, EchoSkip, programs, tasks, workers, answers, client
<1>2. /\ line' \in Seq(LineByte) /\ pk' = pk /\ \A d \in Drones : ~Writing(d)
  BY <1>1, Polled DEF Writing
<1>3. /\ MainTypes /\ num \in Nat /\ rid \in Nat /\ rj \in Nat /\ firmware \in {"binary", "echo"}
      /\ rpc = "skip" => num >= 1
  BY DEF LineInv, MainTypes
<1>4. CASE SyncHeader
  <2>1. rpc' \in {"num", "sync"} /\ UNCHANGED <<num, rid, rj>>
    BY <1>4 DEF SyncHeader
  <2>2. MainTypes'
    BY <2>1, <1>1, <1>2, <1>3 DEF MainTypes
  <2>3. OneSender'
    BY <2>1, <1>1 DEF LineInv, OneSender
  <2> QED
    BY <2>2, <2>3, <1>1, <1>2, ReceiverOnly
<1>5. CASE ReadNum
  <2>1. PICK n \in Counts :
          \/ n > NUM_DRONES /\ num' = n * NSTATES /\ rpc' = "skip"
          \/ n = 0 /\ num' = n /\ rpc' = "sync"
          \/ n \in 1 .. NUM_DRONES /\ num' = n /\ rpc' = "state"
    BY <1>5 DEF ReadNum, Resync
  <2>2. rid' = 0 /\ rj' = 1 /\ firmware = "binary"
    BY <1>5 DEF ReadNum
  <2>3. n \in Nat
    BY <1>1, CountsNatural
  <2>4. /\ num' \in Nat /\ rpc' \in {"skip", "sync", "state"} /\ (rpc' = "skip" => num' >= 1)
        /\ (rpc' = "state" => 0 < num' /\ num' <= NUM_DRONES)
    <3>1. CASE n > NUM_DRONES /\ num' = n * NSTATES /\ rpc' = "skip"
      <4>1. n >= 1 /\ NSTATES \in Nat /\ NSTATES >= 1
        BY <3>1, <2>3, SerialNumbers
      <4>2. 1 * NSTATES <= n * NSTATES /\ n * NSTATES \in Nat
        BY <4>1, <2>3, Grows
      <4>3. n * NSTATES >= 1
        BY <4>1, <4>2
      <4> QED
        BY <3>1, <4>2, <4>3
    <3>2. CASE n = 0 /\ num' = n /\ rpc' = "sync"
      BY <3>2
    <3>3. CASE n \in 1 .. NUM_DRONES /\ num' = n /\ rpc' = "state"
      BY <3>3, SerialNumbers
    <3> QED
      BY <2>1, <3>1, <3>2, <3>3
  <2>5. MainTypes'
    <3>1. 1 <= NSTATES
      BY SerialNumbers
    <3> QED
      BY <3>1, <2>2, <2>4, <1>1, <1>2, <1>3 DEF MainTypes
  <2>6. OneSender'
    BY <2>2, <2>4, <1>1 DEF LineInv, OneSender
  <2> QED
    BY <2>5, <2>6, <1>1, <1>2, ReceiverOnly
<1>6. CASE SkipByte
  <2>1. /\ num' = num - 1 /\ UNCHANGED <<rid, rj>> /\ rpc = "skip"
        /\ rpc' = (IF num = 1 THEN "sync" ELSE "skip")
    BY <1>6 DEF SkipByte, Resync
  <2>2. num' \in Nat /\ (rpc' = "skip" => num' >= 1) /\ rpc' \in {"sync", "skip"}
    BY <2>1, <1>3
  <2>3. MainTypes'
    BY <2>1, <2>2, <1>1, <1>2, <1>3 DEF MainTypes
  <2>4. OneSender'
    BY <2>2, <1>1 DEF LineInv, OneSender
  <2> QED
    BY <2>3, <2>4, <1>1, <1>2, ReceiverOnly
<1>7. CASE EchoNum
  <2>1. PICK n \in Counts : num' = n * NSTATES /\ rpc' = (IF n = 0 THEN "sync" ELSE "skip")
    BY <1>7 DEF EchoNum, Resync
  <2>2. rid' = 0 /\ UNCHANGED rj
    BY <1>7 DEF EchoNum
  <2>3. n \in Nat
    BY <1>1, CountsNatural
  <2>4. num' \in Nat /\ rpc' \in {"skip", "sync"} /\ (rpc' = "skip" => num' >= 1)
    <3>1. NSTATES \in Nat /\ NSTATES >= 1 /\ n * NSTATES \in Nat
      BY <2>3, SerialNumbers
    <3>2. n >= 1 => 1 * NSTATES <= n * NSTATES
      BY <2>3, <3>1, Grows
    <3>3. n >= 1 => n * NSTATES >= 1
      BY <3>1, <3>2
    <3>4. rpc' = "skip" => n >= 1
      BY <2>1, <2>3
    <3> QED
      BY <3>1, <3>3, <3>4, <2>1
  <2>5. MainTypes'
    BY <2>2, <2>4, <1>1, <1>2, <1>3 DEF MainTypes
  <2>6. OneSender'
    BY <2>4, <1>1 DEF LineInv, OneSender
  <2> QED
    BY <2>5, <2>6, <1>1, <1>2, ReceiverOnly
<1>8. CASE EchoSkip
  <2>1. /\ rid' = rid + 1 /\ UNCHANGED <<num, rj>> /\ rpc = "skip" /\ firmware = "echo"
        /\ rpc' = (IF rid + 1 = num THEN "reply" ELSE "skip")
    BY <1>8 DEF EchoSkip
  <2>2. rid' \in Nat /\ (rpc' = "reply" => num' <= rid') /\ rpc' \in {"reply", "skip"}
    BY <2>1, <1>3
  <2>3. MainTypes'
    BY <2>1, <2>2, <1>1, <1>2, <1>3 DEF MainTypes
  <2>4. OneSender'
    BY <2>1, <2>2, <1>1 DEF LineInv, OneSender
  <2> QED
    BY <2>3, <2>4, <1>1, <1>2, ReceiverOnly
<1> QED
  BY <1>4, <1>5, <1>6, <1>7, <1>8

\* A word that main stores keeps it: until the worker is told, main is writing.
LEMMA StoreWordKeeps == ASSUME LineInv, StoreWord PROVE LineInv'
<1>1. /\ Poll /\ rpc = "state" /\ rj' = rj + 1 /\ rpc' = (IF rj = NSTATES THEN "flag" ELSE "state")
      /\ UNCHANGED <<firmware, host, fleet, num, rid, new_state, wpc, cur, wj, uart_mutex, out, responses, answered, hpc, action, timeouts>>
  BY DEF StoreWord, programs, workers, answers, client
<1>2. line' \in Seq(LineByte) /\ pk' = pk
  BY <1>1, Polled
<1>3. /\ MainTypes /\ WorkerTypes /\ rid \in Nat /\ rid < num /\ num \in Nat /\ num <= NUM_DRONES
      /\ rj \in Nat /\ rj >= 1 /\ rj <= NSTATES
  BY <1>1 DEF LineInv, MainTypes
<1>4. PICK d \in Drones, m \in Places : d = rid /\ m = rj
  BY <1>3, LineNames, SerialNumbers
<1>5. PICK w \in Named : obs' = [obs EXCEPT ![d][m] = w]
  <2>1. Garbage \in Named
    BY LineNames
  <2>2. CASE rx[1] = "d"
    BY <2>1, <2>2, <1>1, <1>4, Polled DEF StoreWord
  <2>3. CASE rx[1] # "d"
    BY <2>1, <2>3, <1>4 DEF StoreWord
  <2> QED
    BY <2>2, <2>3
<1>6. /\ obs' \in [Drones -> [Places -> Named]] /\ \A b \in Drones \ {d} : obs'[b] = obs[b]
  BY <1>3, <1>5 DEF WorkerTypes
<1>7. rj' \in Nat /\ rj' > 1 /\ rj' >= 1 /\ (rpc' = "state" => rj' <= NSTATES) /\ rpc' \in {"state", "flag"}
  BY <1>1, <1>3, SerialNumbers
<1>8. MainTypes'
  BY <1>1, <1>2, <1>3, <1>7 DEF MainTypes
<1>9. WorkerTypes'
  BY <1>1, <1>3, <1>6 DEF WorkerTypes
<1>10. OneSender'
  BY <1>1, <1>7 DEF LineInv, OneSender
<1>11. Writing(d)'
  BY <1>1, <1>4, <1>7 DEF Writing
<1>12. \A b \in Drones \ {d} : ~Writing(b)
  BY <1>4 DEF Writing
<1>13. NoStateLost'
  <2> SUFFICES ASSUME NEW b \in Drones, NEW j \in 1 .. Copied(b)', cur'[b][j] # obs'[b][j]
               PROVE  new_state'[b] \/ Writing(b)'
    BY DEF NoStateLost
  <2>1. CASE b = d
    BY <2>1, <1>11
  <2>2. CASE b # d
    <3>1. Copied(b)' = Copied(b)
      BY <1>1 DEF Copied
    <3>2. new_state[b]
      BY <2>2, <3>1, <1>1, <1>6, <1>12 DEF LineInv, NoStateLost
    <3> QED
      BY <3>2, <1>1
  <2> QED
    BY <2>1, <2>2
<1>14. host = "console" => Stream'
  BY <1>1 DEF LineInv, Stream, Begun, ActionsDecoded
<1> QED
  BY <1>1, <1>8, <1>9, <1>10, <1>13, <1>14 DEF LineInv

\* Telling the worker keeps it.
LEMMA SetNewStateKeeps == ASSUME LineInv, SetNewState PROVE LineInv'
<1>1. /\ rpc = "flag" /\ rid' = rid + 1 /\ rj' = 1 /\ rpc' = (IF rid + 1 < num THEN "state" ELSE "sync")
      /\ UNCHANGED <<firmware, host, fleet, line, pk, num, obs, wpc, cur, wj, uart_mutex, out, responses, answered, hpc, action, timeouts>>
      /\ new_state' = [new_state EXCEPT ![rid] = TRUE]
  BY DEF SetNewState, programs, sent, workers, answers, client, Resync
<1>2. /\ MainTypes /\ WorkerTypes /\ rid \in Nat /\ rid < num /\ num \in Nat /\ num <= NUM_DRONES /\ firmware # "echo"
  BY <1>1 DEF LineInv, MainTypes, OneSender
<1>3. PICK d \in Drones : d = rid
  BY <1>2, LineNames, SerialNumbers
<1>4. /\ new_state' \in [Drones -> BOOLEAN] /\ new_state'[d] /\ \A b \in Drones \ {d} : new_state'[b] = new_state[b]
  BY <1>1, <1>2, <1>3 DEF WorkerTypes
<1>5. /\ rid' \in Nat /\ rpc' \in {"state", "sync"} /\ (rpc' = "state" => rid' < num') /\ 1 <= NSTATES /\ rj' = 1
  BY <1>1, <1>2, SerialNumbers
<1>6. MainTypes'
  BY <1>1, <1>2, <1>5 DEF MainTypes
<1>7. WorkerTypes'
  BY <1>1, <1>2, <1>4 DEF WorkerTypes
<1>8. OneSender'
  BY <1>1, <1>2, <1>5 DEF OneSender
<1>9. NoStateLost'
  <2> SUFFICES ASSUME NEW b \in Drones, NEW j \in 1 .. Copied(b)', cur'[b][j] # obs'[b][j]
               PROVE  new_state'[b]
    BY DEF NoStateLost
  <2>1. CASE b = d
    BY <2>1, <1>4
  <2>2. CASE b # d
    <3>1. Copied(b)' = Copied(b) /\ ~Writing(b)
      BY <2>2, <1>1, <1>3 DEF Copied, Writing
    <3>2. new_state[b]
      BY <3>1, <1>1 DEF LineInv, NoStateLost
    <3> QED
      BY <2>2, <3>2, <1>4
  <2> QED
    BY <2>1, <2>2
<1>10. host = "console" => Stream'
  BY <1>1 DEF LineInv, Stream, Begun, ActionsDecoded
<1> QED
  BY <1>1, <1>6, <1>7, <1>8, <1>9, <1>10 DEF LineInv

\* A worker that takes a state keeps it: it has copied nothing of it yet.
LEMMA TakeStateKeeps == ASSUME LineInv, NEW d \in Drones, TakeState(d) PROVE LineInv'
<1>1. /\ wpc[d] = "wait" /\ new_state[d] /\ new_state' = [new_state EXCEPT ![d] = FALSE]
      /\ wpc' = [wpc EXCEPT ![d] = "copy"] /\ wj' = [wj EXCEPT ![d] = 1]
      /\ UNCHANGED <<firmware, host, fleet, line, pk, rpc, match_idx, num, rid, rj, obs, cur, uart_mutex, out, responses, answered, hpc, action, timeouts>>
  BY DEF TakeState, programs, sent, receiver, answers, client
<1>2. WorkerTypes /\ firmware # "echo"
  BY <1>1 DEF LineInv, OneSender
<1>3. MainTypes'
  BY <1>1 DEF LineInv, MainTypes
<1>4. /\ new_state' \in [Drones -> BOOLEAN] /\ wpc' \in [Drones -> {"wait", "copy", "lock", "header", "body"}]
      /\ wj' \in [Drones -> Nat] /\ wpc'[d] = "copy" /\ wj'[d] = 1
      /\ \A b \in Drones \ {d} : wpc'[b] = wpc[b] /\ wj'[b] = wj[b] /\ new_state'[b] = new_state[b]
  BY <1>1, <1>2 DEF WorkerTypes
<1>5. 1 \in Places
  BY LineNames, SerialNumbers
<1>6. WorkerTypes'
  BY <1>1, <1>2, <1>4, <1>5 DEF WorkerTypes
<1>7. OneSender'
  BY <1>1, <1>2 DEF LineInv, OneSender
<1>8. NoStateLost'
  <2> SUFFICES ASSUME NEW b \in Drones, NEW j \in 1 .. Copied(b)', cur'[b][j] # obs'[b][j]
               PROVE  new_state'[b] \/ Writing(b)'
    BY DEF NoStateLost
  <2>1. CASE b = d
    <3>1. Copied(b)' = 0
      BY <2>1, <1>4 DEF Copied
    <3> QED
      BY <3>1
  <2>2. CASE b # d
    <3>1. Copied(b)' = Copied(b) /\ Writing(b)' = Writing(b)
      BY <2>2, <1>1, <1>4 DEF Copied, Writing
    <3> QED
      BY <2>2, <3>1, <1>1, <1>4 DEF LineInv, NoStateLost
  <2> QED
    BY <2>1, <2>2
<1>9. host = "console" => Stream'
  <2>1. \A b \in Drones : wpc'[b] = "body" <=> wpc[b] = "body"
    BY <1>1, <1>4
  <2>2. Begun' = Begun
    BY <2>1 DEF Begun
  <2> QED
    BY <2>1, <2>2, <1>1 DEF LineInv, Stream, ActionsDecoded
<1> QED
  BY <1>1, <1>3, <1>6, <1>7, <1>8, <1>9 DEF LineInv

\* A worker that copies a word keeps it.
LEMMA CopyWordKeeps == ASSUME LineInv, NEW d \in Drones, CopyWord(d) PROVE LineInv'
<1>1. /\ wpc[d] = "copy" /\ cur' = [cur EXCEPT ![d][wj[d]] = obs[d][wj[d]]] /\ wj' = [wj EXCEPT ![d] = @ + 1]
      /\ wpc' = [wpc EXCEPT ![d] = IF wj[d] = NSTATES THEN "lock" ELSE "copy"]
      /\ UNCHANGED <<firmware, host, fleet, line, pk, rpc, match_idx, num, rid, rj, obs, new_state, uart_mutex, out, responses, answered, hpc, action, timeouts>>
  BY DEF CopyWord, programs, sent, receiver, tasks, answers, client
<1>2. WorkerTypes /\ firmware # "echo" /\ wj[d] \in Places
  BY <1>1 DEF LineInv, OneSender, WorkerTypes
<1>3. MainTypes'
  BY <1>1 DEF LineInv, MainTypes
<1>4. PICK n \in Places : n = wj[d]
  BY <1>2
<1>5. n \in Nat /\ n >= 1 /\ n <= NSTATES /\ NSTATES \in Nat
  BY LineNames, SerialNumbers
<1>6. /\ wpc' \in [Drones -> {"wait", "copy", "lock", "header", "body"}]
      /\ wpc'[d] = IF n = NSTATES THEN "lock" ELSE "copy"
      /\ \A b \in Drones \ {d} : wpc'[b] = wpc[b] /\ wj'[b] = wj[b] /\ cur'[b] = cur[b]
      /\ wj'[d] = n + 1
  BY <1>1, <1>2, <1>4 DEF WorkerTypes
<1>7. wj' \in [Drones -> Nat]
  <2>1. n + 1 \in Nat
    BY <1>5
  <2> QED
    BY <2>1, <1>1, <1>2, <1>4 DEF WorkerTypes
<1>8. /\ cur' \in [Drones -> [Places -> Named]] /\ cur'[d][n] = obs[d][n]
      /\ \A j \in Places \ {n} : cur'[d][j] = cur[d][j]
  BY <1>1, <1>2, <1>4 DEF WorkerTypes
<1>9. wpc'[d] = "copy" => wj'[d] \in Places
  <2>1. n # NSTATES => n + 1 \in Places
    BY <1>5, LineNames
  <2> QED
    BY <2>1, <1>6
<1>10. WorkerTypes'
  BY <1>1, <1>2, <1>6, <1>7, <1>8, <1>9 DEF WorkerTypes
<1>11. OneSender'
  BY <1>1, <1>2 DEF LineInv, OneSender
<1>12. NoStateLost'
  <2> SUFFICES ASSUME NEW b \in Drones, NEW j \in 1 .. Copied(b)', cur'[b][j] # obs'[b][j]
               PROVE  new_state'[b] \/ Writing(b)'
    BY DEF NoStateLost
  <2>0. Writing(b)' = Writing(b)
    BY <1>1 DEF Writing
  <2>1. CASE b = d
    <3>1. Copied(b)' = n
      BY <2>1, <1>5, <1>6 DEF Copied
    <3>2. Copied(b) = n - 1
      BY <2>1, <1>1, <1>4 DEF Copied
    <3>3. j # n
      BY <2>1, <1>1, <1>8
    <3>4. j \in 1 .. Copied(b) /\ j \in Places \ {n}
      BY <3>1, <3>2, <3>3, <1>5, LineNames
    <3>5. cur[b][j] # obs[b][j]
      BY <2>1, <3>4, <1>1, <1>8
    <3> QED
      BY <3>4, <3>5, <2>0, <1>1 DEF LineInv, NoStateLost
  <2>2. CASE b # d
    <3>1. Copied(b)' = Copied(b)
      BY <2>2, <1>6 DEF Copied
    <3> QED
      BY <2>0, <2>2, <3>1, <1>1, <1>6 DEF LineInv, NoStateLost
  <2> QED
    BY <2>1, <2>2
<1>13. host = "console" => Stream'
  <2>1. \A b \in Drones : wpc'[b] = "body" <=> wpc[b] = "body"
    BY <1>1, <1>6
  <2>2. Begun' = Begun
    BY <2>1 DEF Begun
  <2> QED
    BY <2>1, <2>2, <1>1 DEF LineInv, Stream, ActionsDecoded
<1> QED
  BY <1>1, <1>3, <1>10, <1>11, <1>12, <1>13 DEF LineInv

\* A worker that moves on after its copy, and stays a copy's owner.
LEMMA SenderOnly ==
    ASSUME LineInv, NEW d \in Drones, NEW s \in {"wait", "header", "body"}, wpc[d] \in {"lock", "header", "body"},
           wpc' = [wpc EXCEPT ![d] = s], \A b \in Drones : wpc'[b] \in {"header", "body"} => uart_mutex' = b,
           UNCHANGED <<firmware, host, fleet, line, pk, rpc, match_idx, num, rid, rj, obs, new_state, cur, wj>>
    PROVE  /\ MainTypes' /\ WorkerTypes' /\ OneSender' /\ NoStateLost' /\ wpc'[d] = s
           /\ \A b \in Drones \ {d} : wpc'[b] = wpc[b]
<1>1. WorkerTypes /\ firmware # "echo"
  BY DEF LineInv, OneSender
<1>2. /\ wpc' \in [Drones -> {"wait", "copy", "lock", "header", "body"}] /\ wpc'[d] = s
      /\ \A b \in Drones \ {d} : wpc'[b] = wpc[b]
  BY <1>1 DEF WorkerTypes
<1>3. MainTypes'
  BY DEF LineInv, MainTypes
<1>4. WorkerTypes'
  BY <1>1, <1>2 DEF WorkerTypes
<1>5. OneSender'
  BY <1>1 DEF LineInv, OneSender
<1>6. NoStateLost'
  <2>1. ASSUME NEW b \in Drones PROVE Copied(b)' = Copied(b) /\ Writing(b)' = Writing(b)
    BY <1>2 DEF Copied, Writing
  <2> QED
    BY <2>1 DEF LineInv, NoStateLost
<1> QED
  BY <1>2, <1>3, <1>4, <1>5, <1>6

\* Taking the line keeps it: nobody else has it.
LEMMA LockUartKeeps == ASSUME LineInv, NEW d \in Drones, LockUart(d) PROVE LineInv'
<1>1. /\ wpc[d] = "lock" /\ uart_mutex = Free /\ wpc' = [wpc EXCEPT ![d] = "header"] /\ uart_mutex' = d
      /\ UNCHANGED <<firmware, host, fleet, line, pk, rpc, match_idx, num, rid, rj, obs, new_state, cur, wj, out, responses, answered, hpc, action, timeouts>>
  BY DEF LockUart, programs, sent, receiver, tasks, answers, client
<1>2. \A b \in Drones : b # Free
  BY LineNames, SerialNumbers
<1>3. WorkerTypes
  BY DEF LineInv
<1>4. \A b \in Drones : wpc[b] \notin {"header", "body"}
  BY <1>1, <1>2, <1>3 DEF WorkerTypes
<1>5. \A b \in Drones \ {d} : wpc'[b] = wpc[b]
  BY <1>1, <1>3 DEF WorkerTypes
<1>6. \A b \in Drones : wpc'[b] \in {"header", "body"} => uart_mutex' = b
  BY <1>1, <1>4, <1>5
<1>7. MainTypes' /\ WorkerTypes' /\ OneSender' /\ NoStateLost' /\ wpc'[d] = "header"
  BY <1>1, <1>6, SenderOnly
<1>8. host = "console" => Stream'
  <2>1. \A b \in Drones : wpc'[b] = "body" <=> wpc[b] = "body"
    BY <1>1, <1>5, <1>7
  <2>2. Begun' = Begun
    BY <2>1 DEF Begun
  <2> QED
    BY <2>1, <2>2, <1>1 DEF LineInv, Stream, ActionsDecoded
<1> QED
  BY <1>1, <1>7, <1>8 DEF LineInv

-----------------------------------------------------------------------------
(* The bytes to the host *)

\* A concatenation, element by element.
LEMMA Joined ==
    ASSUME NEW T, NEW s \in Seq(T), NEW t \in Seq(T)
    PROVE  /\ s \o t \in Seq(T) /\ Len(s \o t) = Len(s) + Len(t) /\ Len(s) \in Nat /\ Len(t) \in Nat
           /\ \A i \in 1 .. Len(s) : (s \o t)[i] = s[i]
           /\ \A i \in 1 .. Len(t) : (s \o t)[Len(s) + i] = t[i]
<1>1. /\ s \o t \in Seq(T) /\ Len(s \o t) = Len(s) + Len(t) /\ Len(s) \in Nat /\ Len(t) \in Nat
      /\ \A i \in 1 .. Len(s) : (s \o t)[i] = s[i]
  OBVIOUS
<1>2. ASSUME NEW i \in 1 .. Len(t) PROVE (s \o t)[Len(s) + i] = t[i]
  <2>1. Len(s) + i \in 1 .. Len(s) + Len(t) /\ Len(s) + i > Len(s) /\ (Len(s) + i) - Len(s) = i
    BY <1>1
  <2> QED
    BY <2>1, <1>1
<1> QED
  BY <1>1, <1>2

\* Where a byte of a response lies.
LEMMA Position ==
    ASSUME NEW p \in Nat, NEW n \in Nat, NEW r \in 1 .. n, NEW q \in 1 .. p
    PROVE  (r - 1) * p + q \in 1 .. n * p /\ n * p \in Nat /\ (r - 1) * p \in Nat
<1>1. r \in Nat /\ r - 1 \in Nat /\ r <= n
  OBVIOUS
<1>2. r * p <= n * p
  BY <1>1, Grows
<1>3. (r - 1) * p + p = r * p /\ (r - 1) * p \in Nat /\ n * p \in Nat
  BY <1>1
<1>4. PICK a \in Nat, b \in Nat : a = (r - 1) * p /\ b = n * p
  BY <1>3
<1>5. a + p <= b
  BY <1>2, <1>3, <1>4
<1>6. a + q \in 1 .. b
  BY <1>5
<1> QED
  BY <1>4, <1>6

\* The beginning of a response, and the rest of it.
Front(d) == Header \o <<<<"id", d>>>>
Rest(d, k1) == ActionBytes(d, k1) \o TimeBytes

\* Their bytes.
LEMMA FrontBytes ==
    ASSUME NEW d \in Nat, NEW k1 \in Named
    PROVE  /\ Front(d) \in Seq(OutByte) /\ Len(Front(d)) = HDR_LEN + 1
           /\ \A q \in 1 .. HDR_LEN + 1 : Front(d)[q] = ByteOf(<<d, k1>>, q)
           /\ Header \in Seq(OutByte) /\ <<<<"id", d>>>> \in Seq(OutByte)
<1>0. <<d, k1>> \in Replies /\ HDR_LEN \in Nat
  BY SerialNumbers DEF Replies
<1>1. \A q \in 1 .. HDR_LEN : <<"H", q>> = ByteOf(<<d, k1>>, q) /\ q \in Nat
  BY <1>0 DEF ByteOf
<1>2. <<"id", d>> = ByteOf(<<d, k1>>, HDR_LEN + 1) /\ HDR_LEN + 1 \in Nat
  <2>1. ~(HDR_LEN + 1 <= HDR_LEN) /\ HDR_LEN + 1 \in Nat
    BY <1>0
  <2> QED
    BY <2>1 DEF ByteOf
<1>3. Header \in Seq(OutByte) /\ Len(Header) = HDR_LEN
  <2>1. \A q \in 1 .. HDR_LEN : <<"H", q>> \in OutByte
    BY <1>0, <1>1 DEF OutByte
  <2> QED
    BY <2>1, <1>0 DEF Header
<1>4. <<<<"id", d>>>> \in Seq(OutByte) /\ Len(<<<<"id", d>>>>) = 1 /\ <<<<"id", d>>>>[1] = <<"id", d>>
  <2>1. <<"id", d>> \in OutByte
    BY <1>0, <1>2 DEF OutByte
  <2> QED
    BY <2>1
<1>5. /\ Front(d) \in Seq(OutByte) /\ Len(Front(d)) = HDR_LEN + 1
      /\ \A i \in 1 .. HDR_LEN : Front(d)[i] = Header[i]
      /\ \A i \in 1 .. 1 : Front(d)[HDR_LEN + i] = <<<<"id", d>>>>[i]
  BY <1>3, <1>4, Joined DEF Front
<1>6. 1 \in 1 .. 1
  OBVIOUS
<1>7. Front(d)[HDR_LEN + 1] = <<"id", d>>
  BY <1>4, <1>5, <1>6
<1>8. ASSUME NEW q \in 1 .. HDR_LEN + 1 PROVE Front(d)[q] = ByteOf(<<d, k1>>, q)
  <2>1. CASE q = HDR_LEN + 1
    BY <2>1, <1>2, <1>7
  <2>2. CASE q \in 1 .. HDR_LEN
    <3>1. Header[q] = <<"H", q>>
      BY <2>2 DEF Header
    <3> QED
      BY <2>2, <3>1, <1>1, <1>5
  <2> QED
    BY <2>1, <2>2, <1>0
<1> QED
  BY <1>3, <1>4, <1>5, <1>8

\* Those of the rest follow.
LEMMA RestBytes ==
    ASSUME NEW d \in Nat, NEW k1 \in Named
    PROVE  /\ Rest(d, k1) \in Seq(OutByte) /\ Len(Rest(d, k1)) = ACT_BYTES + NS_BYTES
           /\ \A q \in 1 .. ACT_BYTES + NS_BYTES : Rest(d, k1)[q] = ByteOf(<<d, k1>>, HDR_LEN + 1 + q)
           /\ ActionBytes(d, k1) \in Seq(OutByte) /\ TimeBytes \in Seq(OutByte)
<1>0. <<d, k1>> \in Replies /\ HDR_LEN \in Nat /\ ACT_BYTES \in Nat /\ NS_BYTES \in Nat
  BY SerialNumbers DEF Replies
<1>1. ASSUME NEW q \in 1 .. ACT_BYTES PROVE <<"u", <<d, k1>>, q>> = ByteOf(<<d, k1>>, HDR_LEN + 1 + q) /\ HDR_LEN + 1 + q \in Nat
  <2>1. /\ ~(HDR_LEN + 1 + q <= HDR_LEN) /\ HDR_LEN + 1 + q # HDR_LEN + 1 /\ HDR_LEN + 1 + q <= HDR_LEN + 1 + ACT_BYTES
        /\ (HDR_LEN + 1 + q) - (HDR_LEN + 1) = q /\ HDR_LEN + 1 + q \in Nat
    BY <1>0
  <2> QED
    BY <2>1 DEF ByteOf
<1>2. ASSUME NEW q \in 1 .. NS_BYTES
      PROVE  <<"ns", q>> = ByteOf(<<d, k1>>, HDR_LEN + 1 + (ACT_BYTES + q)) /\ HDR_LEN + 1 + (ACT_BYTES + q) \in Nat
  <2>1. /\ ~(HDR_LEN + 1 + (ACT_BYTES + q) <= HDR_LEN) /\ HDR_LEN + 1 + (ACT_BYTES + q) # HDR_LEN + 1
        /\ ~(HDR_LEN + 1 + (ACT_BYTES + q) <= HDR_LEN + 1 + ACT_BYTES)
        /\ (HDR_LEN + 1 + (ACT_BYTES + q)) - (HDR_LEN + 1 + ACT_BYTES) = q /\ HDR_LEN + 1 + (ACT_BYTES + q) \in Nat
    BY <1>0
  <2> QED
    BY <2>1 DEF ByteOf
<1>3. /\ ActionBytes(d, k1) \in Seq(OutByte) /\ Len(ActionBytes(d, k1)) = ACT_BYTES
      /\ \A q \in 1 .. ACT_BYTES : ActionBytes(d, k1)[q] = <<"u", <<d, k1>>, q>>
  <2>1. \A q \in 1 .. ACT_BYTES : <<"u", <<d, k1>>, q>> \in OutByte
    BY <1>0, <1>1 DEF OutByte
  <2> QED
    BY <2>1, <1>0 DEF ActionBytes, Answer
<1>4. /\ TimeBytes \in Seq(OutByte) /\ Len(TimeBytes) = NS_BYTES
      /\ \A q \in 1 .. NS_BYTES : TimeBytes[q] = <<"ns", q>>
  <2>1. \A q \in 1 .. NS_BYTES : <<"ns", q>> \in OutByte
    BY <1>0, <1>2 DEF OutByte
  <2> QED
    BY <2>1, <1>0 DEF TimeBytes
<1>5. /\ Rest(d, k1) \in Seq(OutByte) /\ Len(Rest(d, k1)) = ACT_BYTES + NS_BYTES
      /\ \A i \in 1 .. ACT_BYTES : Rest(d, k1)[i] = ActionBytes(d, k1)[i]
      /\ \A i \in 1 .. NS_BYTES : Rest(d, k1)[ACT_BYTES + i] = TimeBytes[i]
  <2>1. PICK s \in Seq(OutByte), t \in Seq(OutByte) : s = ActionBytes(d, k1) /\ t = TimeBytes
    BY <1>3, <1>4
  <2>2. Len(s) = ACT_BYTES /\ Len(t) = NS_BYTES /\ Rest(d, k1) = s \o t
    BY <2>1, <1>3, <1>4 DEF Rest
  <2>3. /\ s \o t \in Seq(OutByte) /\ Len(s \o t) = Len(s) + Len(t)
        /\ \A i \in 1 .. Len(s) : (s \o t)[i] = s[i]
        /\ \A i \in 1 .. Len(t) : (s \o t)[Len(s) + i] = t[i]
    BY Joined
  <2> QED
    BY <2>1, <2>2, <2>3
<1>6. ASSUME NEW q \in 1 .. ACT_BYTES + NS_BYTES PROVE Rest(d, k1)[q] = ByteOf(<<d, k1>>, HDR_LEN + 1 + q)
  <2>1. CASE q \in 1 .. ACT_BYTES
    BY <2>1, <1>1, <1>3, <1>5
  <2>2. CASE q \notin 1 .. ACT_BYTES
    <3>1. PICK i \in 1 .. NS_BYTES : q = ACT_BYTES + i
      <4>1. q - ACT_BYTES \in 1 .. NS_BYTES /\ q = ACT_BYTES + (q - ACT_BYTES)
        BY <2>2, <1>0
      <4> QED
        BY <4>1
    <3> QED
      BY <3>1, <1>2, <1>4, <1>5
  <2> QED
    BY <2>1, <2>2
<1> QED
  BY <1>3, <1>4, <1>5, <1>6

\* How a concatenation is grouped does not matter.
LEMMA Regrouped ==
    ASSUME NEW T, NEW s \in Seq(T), NEW t \in Seq(T), NEW u \in Seq(T)
    PROVE  (s \o t) \o u = s \o (t \o u)
OBVIOUS

\* Two sequences with the same elements are the same.
LEMMA SameSequence ==
    ASSUME NEW T, NEW s \in Seq(T), NEW t \in Seq(T), NEW n \in Nat, Len(s) = n, Len(t) = n,
           \A q \in 1 .. n : s[q] = t[q]
    PROVE  s = t
OBVIOUS

\* The responses rs are the first bytes of o.
Holds(o, rs) ==
    \A r \in 1 .. Len(rs) : \A q \in 1 .. PacketLen : o[(r - 1) * PacketLen + q] = ByteOf(rs[r], q)

\* They still are when bytes follow.
LEMMA HoldsLonger ==
    ASSUME NEW o \in Seq(OutByte), NEW t \in Seq(OutByte), NEW rs \in Seq(Replies), Holds(o, rs),
           Len(o) >= Len(rs) * PacketLen
    PROVE  Holds(o \o t, rs)
<1>1. PICK p \in Nat, n \in Nat : p = PacketLen /\ n = Len(rs)
  BY LineNames
<1>2. ASSUME NEW r \in 1 .. n, NEW q \in 1 .. p PROVE (o \o t)[(r - 1) * p + q] = ByteOf(rs[r], q)
  <2>1. (r - 1) * p + q \in 1 .. n * p /\ n * p \in Nat
    BY Position
  <2>2. PICK a \in Nat, i \in 1 .. n * p : a = n * p /\ i = (r - 1) * p + q
    BY <2>1
  <2>3. Len(o) \in Nat /\ a <= Len(o)
    BY <2>2, <1>1
  <2>4. i \in 1 .. Len(o)
    BY <2>2, <2>3
  <2>5. (o \o t)[i] = o[i]
    BY <2>4, Joined
  <2> QED
    BY <2>2, <2>5, <1>1 DEF Holds
<1> QED
  BY <1>1, <1>2 DEF Holds

\* One more response, and the bytes of it.
LEMMA HoldsOneMore ==
    ASSUME NEW o, NEW rs \in Seq(Replies), NEW a \in Replies, Holds(o, rs),
           \A q \in 1 .. PacketLen : o[Len(rs) * PacketLen + q] = ByteOf(a, q)
    PROVE  /\ Holds(o, Append(rs, a)) /\ Append(rs, a) \in Seq(Replies) /\ Len(Append(rs, a)) = Len(rs) + 1
<1>1. /\ Append(rs, a) \in Seq(Replies) /\ Len(Append(rs, a)) = Len(rs) + 1 /\ Append(rs, a)[Len(rs) + 1] = a
      /\ \A i \in 1 .. Len(rs) : Append(rs, a)[i] = rs[i]
  BY Appended
<1>2. PICK n \in Nat : n = Len(rs)
  OBVIOUS
<1>3. ASSUME NEW r \in 1 .. n + 1, NEW q \in 1 .. PacketLen
      PROVE  o[(r - 1) * PacketLen + q] = ByteOf(Append(rs, a)[r], q)
  <2>1. CASE r \in 1 .. n
    BY <2>1, <1>1, <1>2 DEF Holds
  <2>2. CASE r = n + 1
    <3>1. r - 1 = n
      BY <2>2
    <3> QED
      BY <2>2, <3>1, <1>1, <1>2
  <2>3. r \in 1 .. n \/ r = n + 1
    BY <1>2
  <2> QED
    BY <2>1, <2>2, <2>3
<1> QED
  BY <1>1, <1>2, <1>3 DEF Holds

\* One less: the first has been read.
LEMMA HoldsOneLess ==
    ASSUME NEW o \in Seq(OutByte), NEW rs \in Seq(Replies), Holds(o, rs), Len(rs) >= 1, Len(o) >= Len(rs) * PacketLen
    PROVE  /\ Holds(SubSeq(o, PacketLen + 1, Len(o)), Tail(rs)) /\ SubSeq(o, PacketLen + 1, Len(o)) \in Seq(OutByte)
           /\ Tail(rs) \in Seq(Replies) /\ Len(Tail(rs)) = Len(rs) - 1
           /\ Len(SubSeq(o, PacketLen + 1, Len(o))) = Len(o) - PacketLen
           /\ \A i \in 1 .. Len(o) - PacketLen : SubSeq(o, PacketLen + 1, Len(o))[i] = o[i + PacketLen]
<1>1. /\ Tail(rs) \in Seq(Replies) /\ Len(Tail(rs)) = Len(rs) - 1
      /\ \A i \in 1 .. Len(rs) - 1 : Tail(rs)[i] = rs[i + 1]
  BY DroppedOne
<1>2. PICK n \in Nat, p \in Nat, m \in Nat : n = Len(rs) - 1 /\ p = PacketLen /\ m = Len(o) /\ Len(rs) = n + 1 /\ p >= 1
  <2>1. Len(rs) \in Nat /\ Len(o) \in Nat /\ PacketLen \in Nat
    BY LineNames
  <2>2. PacketLen >= 1
    BY LineNames, SerialNumbers
  <2>3. Len(rs) - 1 \in Nat /\ Len(rs) = (Len(rs) - 1) + 1
    BY <2>1
  <2> QED
    BY <2>1, <2>2, <2>3
<1>3. n * p \in Nat /\ (n + 1) * p = n * p + p
  BY <1>2
<1>4. n * p + p <= m
  BY <1>2, <1>3
<1>5. PICK z \in Nat : z = n * p
  BY <1>3
<1>6. p \in 1 .. Len(o) /\ z <= m - p
  BY <1>2, <1>4, <1>5
<1>7. /\ SubSeq(o, p + 1, Len(o)) \in Seq(OutByte) /\ Len(SubSeq(o, p + 1, Len(o))) = Len(o) - p
      /\ \A i \in 1 .. Len(o) - p : SubSeq(o, p + 1, Len(o))[i] = o[i + p]
  BY <1>6, Dropped
<1>8. ASSUME NEW r \in 1 .. n, NEW q \in 1 .. p
      PROVE  SubSeq(o, p + 1, Len(o))[(r - 1) * p + q] = ByteOf(Tail(rs)[r], q)
  <2>1. (r - 1) * p + q \in 1 .. n * p /\ (r - 1) * p \in Nat
    BY Position
  <2>2. PICK c \in Nat : c = (r - 1) * p
    BY <2>1
  <2>3. c + q \in 1 .. m - p
    BY <2>1, <2>2, <1>2, <1>5, <1>6
  <2>4. SubSeq(o, p + 1, Len(o))[c + q] = o[(c + q) + p]
    BY <2>3, <1>2, <1>7
  <2>5. ((r + 1) - 1) * p = c + p
    BY <2>2
  <2>6. (c + q) + p = ((r + 1) - 1) * p + q
    BY <2>2, <2>5
  <2>7. r + 1 \in 1 .. Len(rs) /\ Tail(rs)[r] = rs[r + 1]
    BY <1>1, <1>2
  <2> QED
    BY <2>2, <2>4, <2>6, <2>7, <1>2 DEF Holds
<1>9. Len(Tail(rs)) = n
  BY <1>1, <1>2
<1> QED
  BY <1>1, <1>2, <1>7, <1>8, <1>9 DEF Holds

\* Stream in these terms.
LEMMA StreamIs ==
    Stream <=> /\ out \in Seq(OutByte) /\ responses \in Seq(Replies) /\ Holds(out, responses)
               /\ Len(out) = Len(responses) * PacketLen + (IF Begun THEN HDR_LEN + 1 ELSE 0)
               /\ \A d \in Drones : wpc[d] = "body" =>
                     \A q \in 1 .. HDR_LEN + 1 : out[Len(responses) * PacketLen + q] = ByteOf(<<d, 0>>, q)
               /\ ActionsDecoded
BY DEF Stream, Holds

\* The state that a worker solved.
LEMMA SolvedNamed == ASSUME LineInv, NEW d \in Drones PROVE Solved(d) \in Named
<1>1. WorkerTypes
  BY DEF LineInv
<1>2. 1 \in Places /\ Garbage \in Named
  BY LineNames, SerialNumbers
<1> QED
  BY <1>1, <1>2 DEF WorkerTypes, Solved

\* The beginning of a response keeps the invariant: no other has begun.
LEMMA SendHeaderKeeps == ASSUME LineInv, NEW d \in Drones, SendHeader(d) PROVE LineInv'
<1>1. /\ wpc[d] = "header" /\ out' = out \o Header \o <<<<"id", d>>>> /\ wpc' = [wpc EXCEPT ![d] = "body"]
      /\ UNCHANGED <<firmware, host, fleet, line, pk, rpc, match_idx, num, rid, rj, obs, new_state, cur, wj, uart_mutex, responses, answered, hpc, action, timeouts>>
  BY DEF SendHeader, programs, sent, receiver, tasks, client
<1>2. WorkerTypes
  BY DEF LineInv
<1>3. \A b \in Drones \ {d} : wpc'[b] = wpc[b] /\ wpc[b] \notin {"header", "body"}
  BY <1>1, <1>2 DEF WorkerTypes
<1>4. \A b \in Drones : wpc'[b] \in {"header", "body"} => uart_mutex' = b
  BY <1>1, <1>2, <1>3 DEF WorkerTypes
<1>5. MainTypes' /\ WorkerTypes' /\ OneSender' /\ NoStateLost' /\ wpc'[d] = "body"
  BY <1>1, <1>4, SenderOnly
<1>6. ASSUME host = "console" PROVE Stream'
  <2>1. ~Begun /\ Begun' /\ \A b \in Drones : wpc'[b] = "body" => b = d
    BY <1>1, <1>3, <1>5 DEF Begun
  <2>2. /\ out \in Seq(OutByte) /\ responses \in Seq(Replies) /\ Holds(out, responses) /\ ActionsDecoded
        /\ Len(out) = Len(responses) * PacketLen
    <3>1. Stream
      BY <1>6 DEF LineInv
    <3>2. /\ out \in Seq(OutByte) /\ responses \in Seq(Replies) /\ Holds(out, responses) /\ ActionsDecoded
          /\ Len(out) = Len(responses) * PacketLen + 0
      BY <3>1, <2>1, StreamIs
    <3>3. Len(responses) * PacketLen \in Nat
      BY <3>2, LineNames
    <3> QED
      BY <3>2, <3>3
  <2>3. d \in Nat /\ 0 \in Named
    BY LineNames, SerialNumbers
  <2>4. /\ Front(d) \in Seq(OutByte) /\ Len(Front(d)) = HDR_LEN + 1
        /\ \A q \in 1 .. HDR_LEN + 1 : Front(d)[q] = ByteOf(<<d, 0>>, q)
    BY <2>3, FrontBytes
  <2>5. out' = out \o Front(d)
    <3>1. Header \in Seq(OutByte) /\ <<<<"id", d>>>> \in Seq(OutByte)
      BY <2>3, FrontBytes
    <3> QED
      BY <3>1, <2>2, <1>1, Regrouped DEF Front
  <2>6. /\ out' \in Seq(OutByte) /\ Len(out') = Len(out) + Len(Front(d))
        /\ \A i \in 1 .. Len(Front(d)) : out'[Len(out) + i] = Front(d)[i]
    <3>1. out \in Seq(OutByte) /\ Front(d) \in Seq(OutByte)
      BY <2>2, <2>4
    <3>2. /\ out \o Front(d) \in Seq(OutByte) /\ Len(out \o Front(d)) = Len(out) + Len(Front(d))
          /\ \A i \in 1 .. Len(Front(d)) : (out \o Front(d))[Len(out) + i] = Front(d)[i]
      BY <3>1, Joined
    <3> QED
      BY <2>5, <3>2
  <2>7. Holds(out', responses)
    <3>1. Len(out) >= Len(responses) * PacketLen
      BY <2>2
    <3> QED
      BY <3>1, <2>2, <2>4, <2>5, HoldsLonger
  <2>8. \A q \in 1 .. HDR_LEN + 1 : out'[Len(responses) * PacketLen + q] = ByteOf(<<d, 0>>, q)
    BY <2>2, <2>4, <2>6
  <2>9. Len(out') = Len(responses) * PacketLen + (HDR_LEN + 1)
    BY <2>2, <2>4, <2>6
  <2>10. Holds(out, responses)' /\ ActionsDecoded'
    BY <2>2, <2>7, <1>1 DEF Holds, ActionsDecoded, PacketLen, ByteOf
  <2>11. \A b \in Drones : wpc'[b] = "body" =>
              \A q \in 1 .. HDR_LEN + 1 : out'[Len(responses') * PacketLen + q] = ByteOf(<<b, 0>>, q)
    BY <2>1, <2>8, <1>1
  <2> QED
    BY <2>1, <2>2, <2>6, <2>9, <2>10, <2>11, <1>1 DEF Stream, Holds
<1> QED
  BY <1>1, <1>5, <1>6 DEF LineInv

\* A byte of the second of two sequences.
LEMMA SecondByte ==
    ASSUME NEW o \in Seq(OutByte), NEW t \in Seq(OutByte), NEW n \in Nat, NEW m \in Nat, Len(o) = n, Len(t) = m,
           NEW i \in 1 .. m, NEW c \in Nat, c = n + i
    PROVE  (o \o t)[c] = t[i]
<1>1. c \in 1 .. n + m /\ c > n /\ c - n = i
  OBVIOUS
<1> QED
  BY <1>1

\* A response whose beginning is in o is complete with the rest of it.
LEMMA HoldsWhole ==
    ASSUME NEW o \in Seq(OutByte), NEW rs \in Seq(Replies), Holds(o, rs), NEW d \in Nat, NEW k1 \in Named,
           Len(o) = Len(rs) * PacketLen + (HDR_LEN + 1),
           \A q \in 1 .. HDR_LEN + 1 : o[Len(rs) * PacketLen + q] = ByteOf(<<d, 0>>, q)
    PROVE  /\ o \o Rest(d, k1) \in Seq(OutByte) /\ Append(rs, <<d, k1>>) \in Seq(Replies)
           /\ Holds(o \o Rest(d, k1), Append(rs, <<d, k1>>))
           /\ Len(o \o Rest(d, k1)) = Len(Append(rs, <<d, k1>>)) * PacketLen
<1>1. /\ Rest(d, k1) \in Seq(OutByte) /\ Len(Rest(d, k1)) = ACT_BYTES + NS_BYTES
      /\ \A q \in 1 .. ACT_BYTES + NS_BYTES : Rest(d, k1)[q] = ByteOf(<<d, k1>>, HDR_LEN + 1 + q)
  BY RestBytes
<1>2. PICK t \in Seq(OutByte) : t = Rest(d, k1)
  BY <1>1
<1>3. PICK h \in Nat, m \in Nat, p \in Nat :
          h = HDR_LEN + 1 /\ m = ACT_BYTES + NS_BYTES /\ p = PacketLen /\ p = h + m
  <2>1. HDR_LEN + 1 \in Nat /\ ACT_BYTES + NS_BYTES \in Nat /\ PacketLen \in Nat /\ PacketLen = (HDR_LEN + 1) + (ACT_BYTES + NS_BYTES)
    BY LineNames, SerialNumbers
  <2> QED
    BY <2>1
<1>4. PICK n \in Nat, z \in Nat : n = Len(rs) /\ z = n * p
  BY <1>3
<1>5. Len(o) = z + h /\ Len(t) = m
  BY <1>1, <1>2, <1>3, <1>4
<1>6. /\ o \o t \in Seq(OutByte) /\ Len(o \o t) = (z + h) + m
      /\ \A i \in 1 .. z + h : (o \o t)[i] = o[i]
      /\ \A i \in 1 .. m : (o \o t)[(z + h) + i] = t[i]
  <2>1. PICK v \in Nat : v = z + h /\ Len(o) = v
    BY <1>5
  <2>2. /\ o \o t \in Seq(OutByte) /\ Len(o \o t) = v + m
        /\ \A i \in 1 .. v : (o \o t)[i] = o[i]
        /\ \A i \in 1 .. m : (o \o t)[v + i] = t[i]
    <3>1. Len(o) = v /\ Len(t) = m
      BY <2>1, <1>5
    <3>2. o \o t \in Seq(OutByte)
      BY <3>1
    <3>3. Len(o \o t) = v + m
      <4>1. Len(o \o t) = Len(o) + Len(t)
        BY Joined
      <4> QED
        BY <3>1, <4>1
    <3>4. ASSUME NEW i \in 1 .. v PROVE (o \o t)[i] = o[i]
      BY <3>1
    <3>5. ASSUME NEW i \in 1 .. m PROVE (o \o t)[v + i] = t[i]
      <4>1. PICK c \in Nat : c = v + i
        OBVIOUS
      <4>2. (o \o t)[c] = t[i]
        BY <4>1, <3>1, SecondByte
      <4> QED
        BY <4>1, <4>2
    <3> QED
      BY <3>2, <3>3, <3>4, <3>5
  <2> QED
    BY <2>1, <2>2
<1>7. Holds(o \o t, rs)
  <2>1. Len(o) >= Len(rs) * PacketLen
    BY <1>3, <1>4, <1>5
  <2> QED
    BY <2>1, HoldsLonger
<1>8. <<d, k1>> \in Replies
  BY DEF Replies
<1>9. ASSUME NEW q \in 1 .. p PROVE (o \o t)[z + q] = ByteOf(<<d, k1>>, q)
  <2>1. CASE q \in 1 .. h
    <3>1. z + q \in 1 .. z + h
      BY <2>1
    <3>2. (o \o t)[z + q] = ByteOf(<<d, 0>>, q)
      BY <2>1, <3>1, <1>3, <1>4, <1>6
    <3>3. q <= HDR_LEN \/ q = HDR_LEN + 1
      BY <2>1, <1>3, SerialNumbers
    <3>4. ByteOf(<<d, 0>>, q) = ByteOf(<<d, k1>>, q)
      BY <3>3 DEF ByteOf
    <3> QED
      BY <3>2, <3>4
  <2>2. CASE q \notin 1 .. h
    <3>1. PICK i \in 1 .. m : q = h + i
      <4>0. q \in 1 .. h + m
        BY <1>3
      <4>1. q - h \in 1 .. m /\ q = h + (q - h)
        BY <2>2, <4>0
      <4> QED
        BY <4>1
    <3>2. z + q = (z + h) + i
      BY <3>1
    <3>3. (o \o t)[z + q] = t[i]
      BY <3>2, <1>6
    <3>4. t[i] = ByteOf(<<d, k1>>, h + i)
      BY <1>1, <1>2, <1>3
    <3> QED
      BY <3>1, <3>3, <3>4
  <2> QED
    BY <2>1, <2>2
<1>10. /\ Holds(o \o t, Append(rs, <<d, k1>>)) /\ Append(rs, <<d, k1>>) \in Seq(Replies)
       /\ Len(Append(rs, <<d, k1>>)) = Len(rs) + 1
  <2>1. PICK s \in Seq(OutByte) : s = o \o t
    BY <1>6
  <2>2. \A q \in 1 .. PacketLen : s[Len(rs) * PacketLen + q] = ByteOf(<<d, k1>>, q)
    BY <2>1, <1>3, <1>4, <1>9
  <2>3. Holds(s, rs)
    BY <2>1, <1>7
  <2>4. /\ Holds(s, Append(rs, <<d, k1>>)) /\ Append(rs, <<d, k1>>) \in Seq(Replies)
        /\ Len(Append(rs, <<d, k1>>)) = Len(rs) + 1
    BY <2>2, <2>3, <1>8, HoldsOneMore
  <2> QED
    BY <2>1, <2>4
<1>11. (n + 1) * p = (z + h) + m
  <2>1. (n + 1) * p = n * p + p
    OBVIOUS
  <2> QED
    BY <2>1, <1>3, <1>4
<1>12. Len(o \o t) = Len(Append(rs, <<d, k1>>)) * PacketLen
  BY <1>3, <1>4, <1>6, <1>10, <1>11
<1> QED
  BY <1>2, <1>6, <1>10, <1>12

\* The rest of a response keeps the invariant.
LEMMA SendBodyKeeps == ASSUME LineInv, NEW d \in Drones, SendBody(d) PROVE LineInv'
<1>1. /\ wpc[d] = "body" /\ out' = out \o ActionBytes(d, Solved(d)) \o TimeBytes
      /\ responses' = Append(responses, <<d, Solved(d)>>) /\ wpc' = [wpc EXCEPT ![d] = "wait"]
      /\ UNCHANGED <<firmware, host, fleet, line, pk, rpc, match_idx, num, rid, rj, obs, new_state, cur, wj, hpc, action, timeouts>>
  BY DEF SendBody, Answer, programs, sent, receiver, tasks, client
<1>2. WorkerTypes
  BY DEF LineInv
<1>3. \A b \in Drones \ {d} : wpc'[b] = wpc[b] /\ wpc[b] \notin {"header", "body"}
  BY <1>1, <1>2 DEF WorkerTypes
<1>4. wpc'[d] = "wait"
  BY <1>1, <1>2 DEF WorkerTypes
<1>5. \A b \in Drones : wpc'[b] \notin {"header", "body"}
  BY <1>3, <1>4
<1>6. MainTypes' /\ WorkerTypes' /\ OneSender' /\ NoStateLost'
  BY <1>1, <1>5, SenderOnly
<1>7. ASSUME host = "console" PROVE Stream'
  <2>1. Begun /\ ~Begun'
    BY <1>1, <1>5 DEF Begun
  <2>2. /\ out \in Seq(OutByte) /\ responses \in Seq(Replies) /\ Holds(out, responses) /\ ActionsDecoded
        /\ Len(out) = Len(responses) * PacketLen + (HDR_LEN + 1)
        /\ \A q \in 1 .. HDR_LEN + 1 : out[Len(responses) * PacketLen + q] = ByteOf(<<d, 0>>, q)
    <3>1. Stream
      BY <1>7 DEF LineInv
    <3> QED
      BY <3>1, <2>1, <1>1, StreamIs
  <2>3. d \in Nat
    BY LineNames, SerialNumbers
  <2>4. PICK k1 \in Named : k1 = Solved(d)
    BY SolvedNamed
  <2>5. out' = out \o Rest(d, k1)
    <3>1. ActionBytes(d, k1) \in Seq(OutByte) /\ TimeBytes \in Seq(OutByte)
      BY <2>3, RestBytes
    <3>2. (out \o ActionBytes(d, k1)) \o TimeBytes = out \o (ActionBytes(d, k1) \o TimeBytes)
      BY <3>1, <2>2, Regrouped
    <3> QED
      BY <3>2, <2>4, <1>1 DEF Rest
  <2>6. /\ out' \in Seq(OutByte) /\ responses' \in Seq(Replies) /\ Holds(out', responses')
        /\ Len(out') = Len(responses') * PacketLen
    <3>1. /\ out \o Rest(d, k1) \in Seq(OutByte) /\ Append(responses, <<d, k1>>) \in Seq(Replies)
          /\ Holds(out \o Rest(d, k1), Append(responses, <<d, k1>>))
          /\ Len(out \o Rest(d, k1)) = Len(Append(responses, <<d, k1>>)) * PacketLen
      BY <2>2, <2>3, HoldsWhole
    <3>2. responses' = Append(responses, <<d, k1>>)
      BY <2>4, <1>1
    <3> QED
      BY <3>1, <3>2, <2>5
  <2>7. Len(responses') * PacketLen \in Nat
    BY <2>6, LineNames
  <2>8. Len(out') = Len(responses') * PacketLen + (IF Begun' THEN HDR_LEN + 1 ELSE 0)
    BY <2>1, <2>6, <2>7
  <2>9. ActionsDecoded'
    BY <2>2, <1>1 DEF ActionsDecoded
  <2> QED
    BY <2>6, <2>8, <2>9, <1>5 DEF Stream, Holds
<1> QED
  BY <1>1, <1>6, <1>7 DEF LineInv

\* A canned reply keeps it.
LEMMA EchoReplyKeeps == ASSUME LineInv, EchoReply PROVE LineInv'
<1>1. /\ rpc = "reply" /\ rid' = rid + 1 /\ rpc' \in {"reply", "sync"}
      /\ out' = out \o Header \o <<<<"id", rid - num>>>> \o ActionBytes(rid - num, 0) \o TimeBytes
      /\ responses' = Append(responses, <<rid - num, 0>>)
      /\ UNCHANGED <<firmware, host, fleet, line, pk, num, rj, obs, new_state, wpc, cur, wj, uart_mutex, hpc, action, timeouts>>
  BY DEF EchoReply, Answer, Resync, programs, sent, tasks, workers, client
<1>2. MainTypes /\ rid \in Nat /\ num \in Nat /\ num <= rid
  BY <1>1 DEF LineInv, MainTypes
<1>3. PICK d \in Nat : d = rid - num
  BY <1>2
<1>4. firmware = "echo" /\ \A b \in Drones : wpc[b] = "wait"
  BY <1>1, <1>2 DEF LineInv, OneSender, MainTypes
<1>5. rid' \in Nat /\ num' <= rid'
  BY <1>1, <1>2
<1>6. MainTypes'
  BY <1>1, <1>2, <1>5 DEF MainTypes
<1>7. WorkerTypes' /\ OneSender'
  BY <1>1, <1>4 DEF LineInv, WorkerTypes, OneSender
<1>8. NoStateLost'
  BY <1>1 DEF LineInv, NoStateLost, Copied, Writing
<1>9. ASSUME host = "console" PROVE Stream'
  <2>1. ~Begun /\ ~Begun' /\ \A b \in Drones : wpc'[b] # "body"
    BY <1>1, <1>4 DEF Begun
  <2>2. /\ out \in Seq(OutByte) /\ responses \in Seq(Replies) /\ Holds(out, responses) /\ ActionsDecoded
        /\ Len(out) = Len(responses) * PacketLen
    <3>1. Stream
      BY <1>9 DEF LineInv
    <3>2. /\ out \in Seq(OutByte) /\ responses \in Seq(Replies) /\ Holds(out, responses) /\ ActionsDecoded
          /\ Len(out) = Len(responses) * PacketLen + 0
      BY <3>1, <2>1, StreamIs
    <3>3. Len(responses) * PacketLen \in Nat
      BY <3>2, LineNames
    <3> QED
      BY <3>2, <3>3
  <2>3. 0 \in Named
    BY LineNames
  <2>4. /\ Front(d) \in Seq(OutByte) /\ Len(Front(d)) = HDR_LEN + 1
        /\ \A q \in 1 .. HDR_LEN + 1 : Front(d)[q] = ByteOf(<<d, 0>>, q)
        /\ Header \in Seq(OutByte) /\ <<<<"id", d>>>> \in Seq(OutByte)
    BY <2>3, FrontBytes
  <2>5. ActionBytes(d, 0) \in Seq(OutByte) /\ TimeBytes \in Seq(OutByte)
    BY <2>3, RestBytes
  <2>6. PICK o \in Seq(OutByte) : o = out \o Front(d)
    <3>1. out \o Front(d) \in Seq(OutByte)
      BY <2>2, <2>4, Joined
    <3> QED
      BY <3>1
  <2>7. out' = o \o Rest(d, 0)
    <3>1. out \o Header \o <<<<"id", d>>>> = o
      BY <2>2, <2>4, <2>6, Regrouped DEF Front
    <3>2. out' = (o \o ActionBytes(d, 0)) \o TimeBytes
      BY <3>1, <1>1, <1>3
    <3> QED
      BY <3>2, <2>5, Regrouped DEF Rest
  <2>8. /\ Len(o) = Len(out) + (HDR_LEN + 1) /\ \A i \in 1 .. HDR_LEN + 1 : o[Len(out) + i] = Front(d)[i]
    BY <2>2, <2>4, <2>6, Joined
  <2>9. Holds(o, responses)
    <3>1. Len(out) >= Len(responses) * PacketLen
      BY <2>2
    <3> QED
      BY <3>1, <2>2, <2>4, <2>6, HoldsLonger
  <2>10. /\ Len(o) = Len(responses) * PacketLen + (HDR_LEN + 1)
         /\ \A q \in 1 .. HDR_LEN + 1 : o[Len(responses) * PacketLen + q] = ByteOf(<<d, 0>>, q)
    BY <2>2, <2>4, <2>8
  <2>11. /\ out' \in Seq(OutByte) /\ responses' \in Seq(Replies) /\ Holds(out', responses')
         /\ Len(out') = Len(responses') * PacketLen
    <3>1. /\ o \o Rest(d, 0) \in Seq(OutByte) /\ Append(responses, <<d, 0>>) \in Seq(Replies)
          /\ Holds(o \o Rest(d, 0), Append(responses, <<d, 0>>))
          /\ Len(o \o Rest(d, 0)) = Len(Append(responses, <<d, 0>>)) * PacketLen
      BY <2>2, <2>3, <2>9, <2>10, HoldsWhole
    <3>2. responses' = Append(responses, <<d, 0>>)
      BY <1>1, <1>3
    <3> QED
      BY <3>1, <3>2, <2>7
  <2>12. Len(responses') * PacketLen \in Nat
    BY <2>11, LineNames
  <2>13. Len(out') = Len(responses') * PacketLen + (IF Begun' THEN HDR_LEN + 1 ELSE 0)
    BY <2>1, <2>11, <2>12
  <2>14. ActionsDecoded'
    BY <2>2, <1>1 DEF ActionsDecoded
  <2> QED
    BY <2>1, <2>11, <2>13, <2>14 DEF Stream, Holds
<1> QED
  BY <1>1, <1>6, <1>7, <1>8, <1>9 DEF LineInv

\* What the host reads when the first response is there.
LEMMA FirstDecoded ==
    ASSUME NEW o \in Seq(OutByte), NEW rs \in Seq(Replies), Holds(o, rs), Len(rs) >= 1, Len(o) >= PacketLen
    PROVE  HeaderAt(o, 1) /\ Decode(SubSeq(o, 1 + HDR_LEN, Len(o))) = rs[1]
<1>1. PICK h \in Nat, u \in Nat, m \in Nat :
          h = HDR_LEN /\ u = ACT_BYTES /\ m = Len(o) /\ h >= 1 /\ u >= 1 /\ h + 1 + u <= m
  <2>1. HDR_LEN \in Nat /\ ACT_BYTES \in Nat /\ Len(o) \in Nat /\ HDR_LEN >= 1 /\ ACT_BYTES >= 1
    BY SerialNumbers
  <2>2. HDR_LEN + 1 + ACT_BYTES <= Len(o)
    BY <2>1, LineNames, SerialNumbers
  <2> QED
    BY <2>1, <2>2
<1>2. PICK a \in Replies : a = rs[1]
  <2>1. 1 \in 1 .. Len(rs)
    OBVIOUS
  <2> QED
    BY <2>1
<1>3. ASSUME NEW q \in 1 .. h + 1 + u PROVE o[q] = ByteOf(a, q)
  <2>1. q \in 1 .. PacketLen /\ q \in Nat
    BY <1>1, LineNames, SerialNumbers
  <2>2. 1 \in 1 .. Len(rs)
    OBVIOUS
  <2>3. (1 - 1) * PacketLen + q = q
    BY <2>1, LineNames
  <2>4. o[(1 - 1) * PacketLen + q] = ByteOf(rs[1], q)
    BY <2>1, <2>2 DEF Holds
  <2> QED
    BY <2>3, <2>4, <1>2
<1>4. \A q \in 1 .. h : o[q] = <<"H", q>>
  <2> TAKE q \in 1 .. h
  <2>1. q \in 1 .. h + 1 + u /\ q <= HDR_LEN
    BY <1>1
  <2> QED
    BY <2>1, <1>3 DEF ByteOf
<1>5. o[h + 1] = <<"id", a[1]>>
  <2>1. h + 1 \in 1 .. h + 1 + u /\ ~(h + 1 <= h)
    BY <1>1
  <2> QED
    BY <2>1, <1>1, <1>3 DEF ByteOf
<1>6. \A q \in 1 .. u : o[h + 1 + q] = <<"u", a, q>>
  <2> TAKE q \in 1 .. u
  <2>1. h + 1 + q \in 1 .. h + 1 + u /\ ~(h + 1 + q <= h) /\ h + 1 + q # h + 1 /\ h + 1 + q <= h + 1 + u /\ (h + 1 + q) - (h + 1) = q
    OBVIOUS
  <2>2. o[h + 1 + q] = ByteOf(a, h + 1 + q)
    BY <2>1, <1>3
  <2> QED
    BY <2>1, <2>2, <1>1 DEF ByteOf
<1>7. HeaderAt(o, 1)
  <2>1. 1 + h - 1 = h /\ h <= m /\ h \in 0 .. m
    BY <1>1
  <2>2. SubSeq(o, 1, h) \in Seq(OutByte) /\ Len(SubSeq(o, 1, h)) = h /\ \A q \in 1 .. h : SubSeq(o, 1, h)[q] = o[q]
    BY <2>1, <1>1
  <2>3. SubSeq(o, 1, h) = Header
    <3>1. Header \in Seq(OutByte) /\ Len(Header) = h /\ \A q \in 1 .. h : Header[q] = <<"H", q>>
      <4>1. 0 \in Nat /\ 0 \in Named
        BY LineNames
      <4> QED
        BY <4>1, <1>1, FrontBytes, HeaderBytes
    <3>2. \A q \in 1 .. h : SubSeq(o, 1, h)[q] = Header[q]
      BY <3>1, <2>2, <1>4
    <3> QED
      BY <3>1, <3>2, <2>2, SameSequence
  <2> QED
    BY <2>1, <2>3, <1>1 DEF HeaderAt
<1>8. PICK b \in Seq(OutByte) : b = SubSeq(o, h + 1, Len(o)) /\ Len(b) = m - h /\ \A q \in 1 .. m - h : b[q] = o[q + h]
  <2>1. h \in 1 .. Len(o)
    BY <1>1
  <2>2. /\ SubSeq(o, h + 1, Len(o)) \in Seq(OutByte) /\ Len(SubSeq(o, h + 1, Len(o))) = Len(o) - h
        /\ \A q \in 1 .. Len(o) - h : SubSeq(o, h + 1, Len(o))[q] = o[q + h]
    BY <2>1, Dropped
  <2> QED
    BY <2>2, <1>1
<1>9. b[1] = <<"id", a[1]>> /\ \A q \in 1 .. u : b[1 + q] = <<"u", a, q>>
  <2>1. 1 \in 1 .. m - h /\ 1 + h = h + 1
    BY <1>1
  <2>2. ASSUME NEW q \in 1 .. u PROVE 1 + q \in 1 .. m - h /\ (1 + q) + h = h + 1 + q
    BY <1>1
  <2> QED
    BY <2>1, <2>2, <1>5, <1>6, <1>8
<1>10. SubSeq(b, 2, 1 + ACT_BYTES) = ActionBytes(a[1], a[2])
  <2>1. 2 \in Nat /\ 1 + u \in Nat /\ 1 + u <= Len(b) /\ Len(b) \in Nat
    BY <1>1, <1>8
  <2>2. PICK s \in Seq(OutByte) : s = SubSeq(b, 2, 1 + u) /\ Len(s) = u /\ \A q \in 1 .. u : s[q] = b[1 + q]
    <3>1. /\ SubSeq(b, 2, 1 + u) \in Seq(OutByte) /\ Len(SubSeq(b, 2, 1 + u)) = u
          /\ \A q \in 1 .. u : SubSeq(b, 2, 1 + u)[q] = b[1 + q]
      BY <2>1
    <3> QED
      BY <3>1
  <2>3. a[1] \in Nat /\ a[2] \in Named /\ a = <<a[1], a[2]>>
    BY DEF Replies
  <2>4. /\ ActionBytes(a[1], a[2]) \in Seq(OutByte) /\ Len(ActionBytes(a[1], a[2])) = u
        /\ \A q \in 1 .. u : ActionBytes(a[1], a[2])[q] = <<"u", a, q>>
    <3>1. ActionBytes(a[1], a[2]) \in Seq(OutByte)
      BY <2>3, RestBytes
    <3>2. /\ DOMAIN ActionBytes(a[1], a[2]) = 1 .. u
          /\ \A q \in 1 .. u : ActionBytes(a[1], a[2])[q] = <<"u", a, q>>
      BY <2>3, <1>1 DEF ActionBytes, Answer
    <3> QED
      BY <3>1, <3>2, <1>1
  <2>5. \A q \in 1 .. u : s[q] = ActionBytes(a[1], a[2])[q]
    BY <2>2, <2>4, <1>9
  <2>6. s = ActionBytes(a[1], a[2])
    BY <2>2, <2>4, <2>5, SameSequence
  <2> QED
    BY <2>2, <2>6, <1>1
<1>11. b[1][1] = "id" /\ b[1][2] = a[1] /\ a[2] \in 0 .. Garbage /\ b[2][2] = a
  <2>1. 1 \in 1 .. u /\ 1 + 1 = 2
    BY <1>1
  <2>2. b[2] = <<"u", a, 1>>
    BY <2>1, <1>9
  <2> QED
    BY <2>2, <1>9 DEF Replies, Named
<1>12. Decode(b) = a
  BY <1>10, <1>11 DEF Decode
<1>13. 1 + HDR_LEN = h + 1
  BY <1>1
<1> QED
  BY <1>2, <1>7, <1>8, <1>12, <1>13

\* The host that searches for the header keeps the invariant: it finds the header of the
\* first response, at the beginning.
LEMMA ConsoleReadKeeps == ASSUME LineInv, ConsoleRead PROVE LineInv'
<1>1. PICK i \in 1 .. Len(out) :
          /\ HeaderAt(out, i) /\ \A h \in 1 .. i - 1 : ~HeaderAt(out, h)
          /\ Len(out) >= i - 1 + PacketLen
          /\ Act(SubSeq(out, i + HDR_LEN, Len(out)))
          /\ out' = SubSeq(out, i + PacketLen, Len(out))
  BY DEF ConsoleRead
<1>2. /\ host = "console"
      /\ UNCHANGED <<firmware, host, fleet, line, pk, rpc, match_idx, num, rid, rj, obs, new_state, wpc, cur, wj, uart_mutex>>
  BY DEF ConsoleRead, programs, sent, receiver, tasks, workers
<1>3. MainTypes' /\ WorkerTypes' /\ OneSender' /\ NoStateLost'
  BY <1>2 DEF LineInv, MainTypes, WorkerTypes, OneSender, NoStateLost, Copied, Writing
<1>4. /\ out \in Seq(OutByte) /\ responses \in Seq(Replies) /\ Holds(out, responses)
      /\ Len(out) = Len(responses) * PacketLen + (IF Begun THEN HDR_LEN + 1 ELSE 0)
      /\ \A d \in Drones : wpc[d] = "body" =>
            \A q \in 1 .. HDR_LEN + 1 : out[Len(responses) * PacketLen + q] = ByteOf(<<d, 0>>, q)
  <2>1. Stream
    BY <1>2 DEF LineInv
  <2> QED
    BY <2>1, StreamIs
<1>5. PICK z \in Nat, p \in Nat, x1 \in Nat, n \in Nat :
          /\ p = PacketLen /\ n = Len(responses) /\ z = n * p
          /\ x1 = (IF Begun THEN HDR_LEN + 1 ELSE 0) /\ Len(out) = z + x1 /\ x1 < p
  <2>1. PacketLen \in Nat /\ Len(responses) \in Nat /\ HDR_LEN + 1 \in Nat /\ 0 < PacketLen /\ HDR_LEN + 1 < PacketLen
    BY <1>4, LineNames, SerialNumbers
  <2>2. Len(responses) * PacketLen \in Nat
    BY <2>1
  <2>3. PICK x1 \in Nat : x1 = (IF Begun THEN HDR_LEN + 1 ELSE 0) /\ x1 < PacketLen
    <3>1. CASE Begun
      BY <3>1, <2>1
    <3>2. CASE ~Begun
      BY <3>2, <2>1
    <3> QED
      BY <3>1, <3>2
  <2> QED
    BY <2>1, <2>2, <2>3, <1>4
<1>6. n >= 1
  <2>1. i - 1 + p <= z + x1 /\ i >= 1 /\ i \in Nat
    BY <1>1, <1>5
  <2>2. z # 0
    BY <2>1, <1>5
  <2>3. n = 0 => z = 0
    BY <1>5
  <2> QED
    BY <2>2, <2>3
<1>7. z >= p
  <2>1. 1 * p <= n * p
    BY <1>6, Grows
  <2> QED
    BY <2>1, <1>5
<1>8. HeaderAt(out, 1) /\ Decode(SubSeq(out, 1 + HDR_LEN, Len(out))) = responses[1]
  <2>1. Len(responses) >= 1 /\ Len(out) >= PacketLen
    BY <1>5, <1>6, <1>7
  <2> QED
    BY <2>1, <1>4, FirstDecoded
<1>9. i = 1
  <2>1. i # 1 => 1 \in 1 .. i - 1
    <3>1. i \in Nat /\ i >= 1
      BY <1>1, <1>4
    <3> QED
      BY <3>1
  <2> QED
    BY <2>1, <1>1, <1>8
<1>10. out' = SubSeq(out, PacketLen + 1, Len(out)) /\ responses # <<>>
  <2>1. 1 + PacketLen = PacketLen + 1
    BY LineNames
  <2>2. responses # <<>>
    BY <1>5, <1>6
  <2> QED
    BY <2>1, <2>2, <1>1, <1>9
<1>11. action' = <<{responses[1]}, {responses[1]}>> /\ responses' = Tail(responses)
  BY <1>1, <1>8, <1>9, <1>10, <1>4 DEF Act
<1>12. /\ Holds(out', responses') /\ out' \in Seq(OutByte) /\ responses' \in Seq(Replies)
       /\ Len(responses') = Len(responses) - 1 /\ Len(out') = Len(out) - PacketLen
       /\ \A c \in 1 .. Len(out) - PacketLen : out'[c] = out[c + PacketLen]
  <2>1. Len(responses) >= 1 /\ Len(out) >= Len(responses) * PacketLen
    BY <1>5, <1>6
  <2> QED
    BY <2>1, <1>4, <1>10, <1>11, HoldsOneLess
<1>13. PICK y \in Nat : y = (n - 1) * p /\ z = y + p /\ y = Len(responses') * PacketLen
  <2>1. n - 1 \in Nat
    BY <1>6
  <2>2. (n - 1) * p \in Nat /\ n * p = (n - 1) * p + p
    BY <2>1
  <2>3. Len(responses') = n - 1
    BY <1>5, <1>12
  <2> QED
    BY <2>2, <2>3, <1>5
<1>14. Len(out') = y + x1 /\ Len(out) - PacketLen = y + x1
  BY <1>5, <1>12, <1>13
<1>15. Begun' = Begun
  BY <1>2 DEF Begun
<1>16. Len(out') = Len(responses') * PacketLen + (IF Begun' THEN HDR_LEN + 1 ELSE 0)
  BY <1>5, <1>13, <1>14, <1>15
<1>17. ASSUME NEW d \in Drones, wpc'[d] = "body", NEW q \in 1 .. HDR_LEN + 1
       PROVE  out'[Len(responses') * PacketLen + q] = ByteOf(<<d, 0>>, q)
  <2>1. Begun /\ wpc[d] = "body"
    BY <1>2, <1>17 DEF Begun
  <2>2. x1 = HDR_LEN + 1 /\ q \in 1 .. x1
    BY <2>1, <1>5
  <2>3. y + q \in 1 .. y + x1 /\ (y + q) + p = z + q
    BY <2>2, <1>13
  <2>4. out'[y + q] = out[(y + q) + p]
    BY <2>3, <1>5, <1>12, <1>14
  <2>5. out[z + q] = ByteOf(<<d, 0>>, q)
    BY <2>1, <1>4, <1>5
  <2> QED
    BY <2>3, <2>4, <2>5, <1>13
<1>18. ActionsDecoded'
  BY <1>11 DEF ActionsDecoded
<1>19. Stream'
  BY <1>12, <1>16, <1>17, <1>18 DEF Stream, Holds
<1> QED
  BY <1>3, <1>19 DEF LineInv

\* The host that reads in fixed sizes keeps it.
LEMMA HilKeeps == ASSUME LineInv, HilHeader \/ HilAction \/ HilTimeout PROVE LineInv'
<1>1. /\ host = "hil"
      /\ UNCHANGED <<firmware, host, fleet, line, pk, rpc, match_idx, num, rid, rj, obs, new_state, wpc, cur, wj, uart_mutex>>
  BY DEF HilHeader, HilAction, HilTimeout, programs, sent, receiver, tasks, workers
<1>2. MainTypes' /\ WorkerTypes' /\ OneSender' /\ NoStateLost'
  BY <1>1 DEF LineInv, MainTypes, WorkerTypes, OneSender, NoStateLost, Copied, Writing
<1> QED
  BY <1>1, <1>2 DEF LineInv

\* The invariant holds at first, whichever programs are at the ends of the line.
LEMMA LineInvInit == ASSUME Init PROVE LineInv
<1>1. PICK s \in Setups : firmware = s[1] /\ host = s[2]
  BY DEF Init
<1>2. firmware \in {"binary", "echo"} /\ host \in {"console", "hil"}
  BY <1>1, SerialAssumption
<1>3. /\ fleet \in 1 .. NUM_DRONES /\ line = <<>> /\ pk = 0
      /\ rpc = "sync" /\ num = 0 /\ rid = 0 /\ rj = 1
      /\ obs = [d \in Drones |-> [j \in Places |-> 0]] /\ new_state = [d \in Drones |-> FALSE]
      /\ wpc = [d \in Drones |-> "wait"] /\ cur = [d \in Drones |-> [j \in Places |-> 0]]
      /\ wj = [d \in Drones |-> 1] /\ out = <<>> /\ responses = <<>> /\ action = <<{}, {}>>
  BY DEF Init
<1>4. 0 \in Named /\ 0 \in 0 .. MAX_PACKETS /\ NSTATES \in Nat
  BY LineNames, SerialNumbers
<1>5. MainTypes
  BY <1>2, <1>3, <1>4 DEF MainTypes
<1>6. WorkerTypes
  BY <1>3, <1>4 DEF WorkerTypes
<1>7. OneSender
  BY <1>3 DEF OneSender
<1>8. NoStateLost
  <2>1. ASSUME NEW d \in Drones, NEW j \in 1 .. Copied(d) PROVE cur[d][j] = obs[d][j]
    BY <1>3
  <2> QED
    BY <2>1 DEF NoStateLost
<1>9. Stream
  <2>1. ~Begun /\ \A d \in Drones : wpc[d] # "body"
    BY <1>3 DEF Begun
  <2>2. out \in Seq(OutByte) /\ responses \in Seq(Replies) /\ Len(out) = 0 /\ Len(responses) = 0
    BY <1>3
  <2>3. Len(out) = Len(responses) * PacketLen + (IF Begun THEN HDR_LEN + 1 ELSE 0)
    BY <2>1, <2>2, LineNames
  <2>4. ActionsDecoded
    BY <1>3 DEF ActionsDecoded
  <2> QED
    BY <2>1, <2>2, <2>3, <2>4 DEF Stream
<1> QED
  BY <1>5, <1>6, <1>7, <1>8, <1>9 DEF LineInv

\* Nothing happens on the binary line while another program runs.
LEMMA LineIdles == ASSUME LineInv, UNCHANGED serialVars PROVE LineInv'
<1>1. UNCHANGED <<firmware, host, fleet, line, pk, rpc, num, rid, rj, obs, new_state, wpc, cur, wj, uart_mutex, out, responses, action>>
  BY DEF serialVars, programs, sent, receiver, tasks, workers, answers, client
<1> QED
  BY <1>1 DEF LineInv, MainTypes, WorkerTypes, OneSender, NoStateLost, Copied, Writing, Stream, Begun, ActionsDecoded

\* Every step keeps it.
LEMMA LineInvKept == ASSUME LineInv, MCNext \/ UNCHANGED serialVars PROVE LineInv'
<1>1. CASE UNCHANGED serialVars
  BY <1>1, LineIdles
<1>2. CASE Next
  <2>1. CASE \E d \in Drones : Worker(d)
    BY <2>1, TakeStateKeeps, CopyWordKeeps, LockUartKeeps, SendHeaderKeeps, SendBodyKeeps DEF Worker
  <2>2. CASE Main
    BY <2>2, ReceiverKeeps, StoreWordKeeps, SetNewStateKeeps, EchoReplyKeeps DEF Main
  <2>3. CASE HostReads \/ HilTimeout
    BY <2>3, ConsoleReadKeeps, HilKeeps DEF HostReads
  <2> QED
    BY <1>2, <2>1, <2>2, <2>3, SendStatesKeeps, LoseByteKeeps DEF Next
<1> QED
  BY <1>1, <1>2 DEF MCNext

\* SerialHil: whichever of the two programs and of the two hosts are at its ends, and
\* whatever bytes the line loses, no state that main stored is overlooked by its worker,
\* and the host that looks for the header reads every response whole and in order.
THEOREM LineIsSound == MCSpec => []LineSound
<1>1. MCInit => LineInv
  BY LineInvInit DEF MCInit
<1>2. LineInv /\ [MCNext]_<<running, serialVars, textVars, setupVars>> => LineInv'
  BY LineInvKept
<1>3. LineInv => LineSound
  BY DEF LineInv, LineSound, Stream, ActionsDecoded
<1> QED
  BY <1>1, <1>2, <1>3, PTL DEF MCSpec

=============================================================================
