--------------------------- MODULE Dashboard_proofs ---------------------------
(***************************************************************************)
(* Theorems about Dashboard, for any pages and handlers, any number of     *)
(* fetches under way, versions, navigations and errors.                    *)
(*                                                                         *)
(* The invariant says what is under way: no fetch has seen more than the   *)
(* server has, nor been answered less than it was sent after (FlightInv);  *)
(* while the form is to be kept, no fetch will set it (FormInv); the one   *)
(* interval that runs is the one of this.timer, and it knows when the last *)
(* error was (SignInv).                                                    *)
(***************************************************************************)
EXTENDS Dashboard, TLAPS

FlightType == [inst : Nat \ {0}, path : Pages, kind : {"first", "poll", "put"},
               asked : Versions, ver : Versions \cup {NoVersion}]
ShownType  == [path : Pages \cup {NoPage}, ver : Versions \cup {NoVersion}]

TypeOK ==
  /\ version \in [Pages -> Versions]
  /\ page \in Pages /\ inst \in Nat \ {0}
  /\ shown \in ShownType /\ config \in Versions \cup {NoVersion} /\ typed \in BOOLEAN
  /\ flights \in [Slots -> FlightType \cup {NoFetch}]
  /\ moves \in Nat /\ errors \in Nat
  /\ isDisconnected \in BOOLEAN /\ kept \in BOOLEAN
  /\ timer \in Intervals \cup {NoTimer} /\ since \in 0..3
  /\ left \in [Intervals -> 0..3]

Timely(f, v) ==
  f # NoFetch => /\ f.asked <= v[f.path]
                 /\ f.ver # NoVersion => f.asked <= f.ver /\ f.ver <= v[f.path]

FlightInv == \A i \in Slots : Timely(flights[i], version)

Sets(f, n) == f # NoFetch /\ f.inst = n /\ SetsForm(f)

FormInv == kept => typed /\ \A i \in Slots : ~Sets(flights[i], inst)

SignInv ==
  /\ \A t \in Intervals : t # timer => left[t] = 0
  /\ timer = NoTimer => ~isDisconnected /\ since >= 2
  /\ timer # NoTimer => isDisconnected /\ since <= 2 /\ left[timer] = 3 - since

-----------------------------------------------------------------------------
(* FETCHES *)

LEMMA FetchTypes ==
  /\ NoFetch \notin FlightType
  /\ \A f \in FlightType : f # NoFetch
  /\ NoVersion \notin Versions /\ Versions \subseteq Nat /\ MaxVersion \in Nat /\ 1 \in Slots
<1>1. NoPage \notin Pages /\ MaxVersion \in Nat /\ MaxFlights \in Nat \ {0}
  BY DashboardAssumption DEF DashboardAssumption
<1>2. \A f \in FlightType : f.path \in Pages
  BY DEF FlightType
<1>3. NoFetch.path = NoPage
  BY DEF NoFetch
<1> QED
  BY <1>1, <1>2, <1>3 DEF Versions, NoVersion, Slots

Sent(n, p, kind) == [inst |-> n, path |-> p, kind |-> kind, asked |-> version[p], ver |-> NoVersion]

(* Fetch puts one request under way. *)
LEMMA FetchIs ==
  ASSUME TypeOK, NEW n \in Nat \ {0}, NEW p \in Pages, NEW kind \in {"first", "poll", "put"},
         Fetch(n, p, kind)
  PROVE  /\ Sent(n, p, kind) \in FlightType
         /\ \E i \in Slots : flights' = [flights EXCEPT ![i] = Sent(n, p, kind)]
         /\ flights' \in [Slots -> FlightType \cup {NoFetch}]
         /\ \A i \in Slots : flights'[i] \in {flights[i], Sent(n, p, kind)}
<1>1. Sent(n, p, kind) \in FlightType
  BY DEF Sent, FlightType, TypeOK
<1>2. PICK i \in Slots : flights' = [flights EXCEPT ![i] = Sent(n, p, kind)]
  BY DEF Fetch, Sent
<1> QED
  BY <1>1, <1>2 DEF TypeOK

(* An answer, or nothing more, in place of a fetch. *)
Replaced(i, f) == flights' = [flights EXCEPT ![i] = f]

LEMMA AnswerIs ==
  ASSUME TypeOK, NEW i \in Slots, Answer(i)
  PROVE  /\ flights[i] \in FlightType
         /\ version' \in [Pages -> Versions]
         /\ \A p \in Pages : version[p] <= version'[p]
         /\ \E v \in Versions : /\ v = version'[flights[i].path]
                                /\ Replaced(i, [flights[i] EXCEPT !.ver = v])
                                /\ [flights[i] EXCEPT !.ver = v] \in FlightType
         /\ UNCHANGED <<pageVars, errors, signVars>>
<1> DEFINE f == flights[i]
           p == f.path
<1>1. f \in FlightType /\ p \in Pages
  BY FetchTypes DEF Answer, TypeOK, FlightType
<1>2. version[p] \in Nat /\ version[p] <= MaxVersion /\ MaxVersion \in Nat
  BY <1>1, FetchTypes DEF TypeOK, Versions
<1>3. version' = version \/ version' = [version EXCEPT ![p] = version[p] + 1]
  BY DEF Answer
<1>4. version'[p] <= MaxVersion
  BY DEF Answer
<1>5. version' \in [Pages -> Versions] /\ \A r \in Pages : version[r] <= version'[r]
  <2>1. CASE version' = version
    BY <2>1, FetchTypes DEF TypeOK, Versions
  <2>2. CASE version' = [version EXCEPT ![p] = version[p] + 1]
    <3>1. version[p] + 1 \in Versions
      BY <1>1, <1>2, <1>4, <2>2 DEF TypeOK, Versions
    <3> QED
      BY <1>1, <1>2, <2>2, <3>1, FetchTypes DEF TypeOK, Versions
  <2> QED
    BY <1>3, <2>1, <2>2
<1>6. PICK v \in {version'[p]} \cup {version[p]} :
        /\ f.kind = "put" => v = version'[p]
        /\ f.kind # "put" => v = version[p] /\ version' = version
        /\ flights' = [flights EXCEPT ![i].ver = v]
  BY DEF Answer, Current
<1>7. v = version'[p] /\ v \in Versions
  BY <1>1, <1>5, <1>6
<1>8. [f EXCEPT !.ver = v] \in FlightType
  BY <1>1, <1>7 DEF FlightType
<1>9. flights' = [flights EXCEPT ![i] = [f EXCEPT !.ver = v]]
  BY <1>6
<1>10. UNCHANGED <<pageVars, errors, signVars>>
  BY DEF Answer
<1> QED
  BY <1>1, <1>5, <1>7, <1>8, <1>9, <1>10 DEF Replaced

-----------------------------------------------------------------------------
(* TYPES *)

LEMMA InitTypes == Init => TypeOK
<1> SUFFICES ASSUME Init PROVE TypeOK
  OBVIOUS
<1>1. flights \in [Slots -> FlightType \cup {NoFetch}]
  BY FetchTypes DEF Init, FlightType, Versions
<1>2. shown \in ShownType
  BY DEF Init, ShownType, Blank
<1>3. version \in [Pages -> Versions]
  BY FetchTypes DEF Init, Versions
<1>4. left \in [Intervals -> 0..3]
  BY DEF Init
<1>5. isDisconnected \in BOOLEAN /\ kept \in BOOLEAN /\ typed \in BOOLEAN
  BY DEF Init
<1>6. /\ page \in Pages /\ inst \in Nat \ {0} /\ config \in Versions \cup {NoVersion}
      /\ moves \in Nat /\ errors \in Nat /\ timer \in Intervals \cup {NoTimer} /\ since \in 0..3
  BY DEF Init
<1> QED
  BY <1>1, <1>2, <1>3, <1>4, <1>5, <1>6 DEF TypeOK

(* The steps, by the part of the state that they touch: a fetch is sent, a  *)
(* fetch ends, the sign changes, or none of these.                          *)
Sends(f) == /\ f \in FlightType /\ f.asked = version[f.path] /\ f.ver = NoVersion
            /\ \A i \in Slots : flights'[i] \in {flights[i], f}

LEMMA SendTypes ==
  ASSUME TypeOK
  PROVE  /\ Poll => \E f : Sends(f) /\ f.kind = "poll" /\ f.inst = inst
         /\ Put => \E f : Sends(f) /\ f.inst = inst
         /\ \A p \in Pages : Remount(p) => \E f : Sends(f) /\ f.kind = "first" /\ f.inst = inst'
         /\ (Poll \/ Put \/ \E p \in Pages : Remount(p)) =>
              flights' \in [Slots -> FlightType \cup {NoFetch}]
<1>1. ASSUME NEW n \in Nat \ {0}, NEW p \in Pages, NEW kind \in {"first", "poll", "put"},
             Fetch(n, p, kind)
      PROVE  /\ \E f : Sends(f) /\ f.kind = kind /\ f.inst = n
             /\ flights' \in [Slots -> FlightType \cup {NoFetch}]
  <2> DEFINE f == Sent(n, p, kind)
  <2>1. f.asked = version[f.path] /\ f.ver = NoVersion /\ f.kind = kind /\ f.inst = n
    BY DEF Sent
  <2>2. Sends(f) /\ flights' \in [Slots -> FlightType \cup {NoFetch}]
    BY <1>1, <2>1, FetchIs DEF Sends
  <2> HIDE DEF f
  <2> QED
    BY <2>1, <2>2
<1>2. inst \in Nat \ {0} /\ page \in Pages
  BY DEF TypeOK
<1>3. ASSUME NEW p \in Pages, Remount(p) PROVE inst' = inst + 1 /\ Fetch(inst + 1, p, "first")
  BY <1>3 DEF Remount, Fetch
<1>4. inst + 1 \in Nat \ {0}
  BY <1>2
<1> QED
  BY <1>1, <1>2, <1>3, <1>4 DEF Poll, Put

LEMMA SignTypes ==
  ASSUME TypeOK
  PROVE  /\ ReportConnError => /\ isDisconnected' \in BOOLEAN /\ since' \in 0..3
                               /\ timer' \in Intervals \cup {NoTimer} /\ left' \in [Intervals -> 0..3]
         /\ Tick => since' \in 0..3 /\ left' \in [Intervals -> 0..3]
         /\ \A t \in Intervals : ClearConnError(t) =>
              /\ isDisconnected' \in BOOLEAN /\ timer' \in Intervals \cup {NoTimer}
              /\ left' \in [Intervals -> 0..3]
<1>1. StopTimer \in [Intervals -> 0..3]
  BY DEF TypeOK, StopTimer
<1>2. ASSUME ReportConnError
      PROVE  /\ isDisconnected' \in BOOLEAN /\ since' \in 0..3
             /\ timer' \in Intervals \cup {NoTimer} /\ left' \in [Intervals -> 0..3]
  BY <1>1, <1>2 DEF ReportConnError
<1>3. ASSUME Tick PROVE since' \in 0..3 /\ left' \in [Intervals -> 0..3]
  BY <1>3 DEF Tick, TypeOK
<1>4. ASSUME NEW t \in Intervals, ClearConnError(t)
      PROVE  /\ isDisconnected' \in BOOLEAN /\ timer' \in Intervals \cup {NoTimer}
             /\ left' \in [Intervals -> 0..3]
  <2>1. isDisconnected' \in BOOLEAN /\ timer' \in Intervals \cup {NoTimer}
    BY <1>4 DEF ClearConnError
  <2>2. left' \in [Intervals -> 0..3]
    BY <1>4 DEF ClearConnError, TypeOK
  <2> QED
    BY <2>1, <2>2
<1> QED
  BY <1>2, <1>3, <1>4

LEMMA NextTypes == TypeOK /\ [Next]_vars => TypeOK'
<1> SUFFICES ASSUME TypeOK, [Next]_vars PROVE TypeOK'
  OBVIOUS
<1>1. CASE Poll
  BY <1>1, SendTypes DEF Poll, TypeOK, pageVars, signVars
<1>2. CASE Put
  BY <1>2, SendTypes DEF Put, TypeOK, signVars
<1>3. CASE Type
  BY <1>3 DEF Type, TypeOK, signVars
<1>4. ASSUME NEW p \in Pages, Remount(p) PROVE TypeOK'
  <2>1. flights' \in [Slots -> FlightType \cup {NoFetch}]
    BY <1>4, SendTypes
  <2>2. Blank \in ShownType
    BY DEF Blank, ShownType
  <2>3. kept' \in BOOLEAN /\ config' \in Versions \cup {NoVersion} /\ typed' \in BOOLEAN
    BY <1>4 DEF Remount
  <2>4. /\ page' \in Pages /\ inst' \in Nat \ {0} /\ shown' \in ShownType /\ moves' \in Nat
        /\ UNCHANGED <<version, errors, signVars>>
    BY <1>4, <2>2 DEF Remount, Navigate, TypeOK
  <2> QED
    BY <2>1, <2>3, <2>4 DEF TypeOK, signVars
<1>5. ASSUME NEW p \in Pages, Reuse(p) PROVE TypeOK'
  BY <1>5 DEF Reuse, Navigate, TypeOK, signVars
<1>6. ASSUME NEW p \in Pages, Change(p) PROVE TypeOK'
  <2>1. version[p] + 1 \in Versions
    BY <1>6, FetchTypes DEF Change, TypeOK, Versions
  <2>2. version' \in [Pages -> Versions]
    BY <1>6, <2>1 DEF Change, TypeOK
  <2> QED
    BY <1>6, <2>2 DEF Change, TypeOK, pageVars, signVars
<1>7. ASSUME NEW i \in Slots, Answer(i) PROVE TypeOK'
  <2>1. flights' \in [Slots -> FlightType \cup {NoFetch}]
    BY <1>7, AnswerIs DEF Replaced, TypeOK
  <2> QED
    BY <1>7, <2>1, AnswerIs DEF TypeOK, pageVars, signVars
<1>8. ASSUME NEW i \in Slots, Arrive(i) PROVE TypeOK'
  <2>1. flights[i] \in FlightType
    BY <1>8 DEF Arrive, TypeOK
  <2>2. [path |-> flights[i].path, ver |-> flights[i].ver] \in ShownType
    BY <2>1 DEF FlightType, ShownType
  <2>3. flights' \in [Slots -> FlightType \cup {NoFetch}] /\ shown' \in ShownType
    BY <1>8, <2>2 DEF Arrive, TypeOK
  <2>4. config' \in Versions \cup {NoVersion}
    BY <1>8, <2>1 DEF Arrive, TypeOK, FlightType
  <2>5. typed' \in BOOLEAN
    BY <1>8, Zenon DEF Arrive, TypeOK
  <2> QED
    BY <1>8, <2>3, <2>4, <2>5 DEF Arrive, TypeOK, signVars
<1>9. ASSUME NEW i \in Slots, Catch(i) PROVE TypeOK'
  <2>1. flights' \in [Slots -> FlightType \cup {NoFetch}] /\ errors' \in Nat
    BY <1>9 DEF Catch, TypeOK
  <2> QED
    BY <1>9, <2>1, SignTypes DEF Catch, TypeOK, pageVars
<1>10. CASE Tick
  BY <1>10, SignTypes DEF Tick, TypeOK, pageVars
<1>11. ASSUME NEW t \in Intervals, ClearConnError(t) PROVE TypeOK'
  BY <1>11, SignTypes DEF ClearConnError, TypeOK, pageVars
<1>12. CASE UNCHANGED vars
  BY <1>12 DEF vars, pageVars, signVars, TypeOK
<1> QED
  BY <1>1, <1>2, <1>3, <1>4, <1>5, <1>6, <1>7, <1>8, <1>9, <1>10, <1>11, <1>12 DEF Next

-----------------------------------------------------------------------------
(* WHAT A FETCH HAS SEEN *)

LEMMA FlightTypes ==
  ASSUME TypeOK, NEW i \in Slots
  PROVE  /\ flights[i] # NoFetch <=> flights[i] \in FlightType
         /\ flights[i] \in FlightType =>
              /\ flights[i].path \in Pages /\ flights[i].asked \in Nat
              /\ flights[i].ver # NoVersion => flights[i].ver \in Nat
              /\ version[flights[i].path] \in Nat
<1>1. flights[i] # NoFetch <=> flights[i] \in FlightType
  BY FetchTypes DEF TypeOK
<1>2. \A p \in Pages : version[p] \in Nat
  BY FetchTypes DEF TypeOK
<1> QED
  BY <1>1, <1>2, FetchTypes DEF FlightType

LEMMA NextFlights == TypeOK /\ FlightInv /\ [Next]_vars => FlightInv'
<1> SUFFICES ASSUME TypeOK, FlightInv, [Next]_vars PROVE FlightInv'
  OBVIOUS
(* A fetch stays timely while versions grow, and a new one is.              *)
<1>1. ASSUME NEW f, Timely(f, version), f # NoFetch => f \in FlightType, version' \in [Pages -> Versions],
             \A p \in Pages : version[p] <= version'[p]
      PROVE  Timely(f, version')
  <2>1. CASE f \in FlightType
    <3>1. f.path \in Pages
      BY <2>1 DEF FlightType
    <3>2. version[f.path] \in Nat /\ version'[f.path] \in Nat /\ version[f.path] <= version'[f.path]
      BY <1>1, <3>1, FetchTypes DEF TypeOK
    <3>3. f.ver # NoVersion => f.ver \in Nat
      BY <2>1, FetchTypes DEF FlightType
    <3>4. f.asked \in Nat
      BY <2>1, FetchTypes DEF FlightType
    <3> QED
      BY <1>1, <2>1, <3>2, <3>3, <3>4, FetchTypes DEF Timely
  <2> QED
    BY <1>1, <2>1 DEF Timely
<1>2. \A i \in Slots : Timely(flights[i], version)
  BY DEF FlightInv
<1>3. Timely(NoFetch, version')
  BY DEF Timely
<1>4. ASSUME version' = version, \A i \in Slots : flights'[i] = flights[i] \/ flights'[i] = NoFetch
      PROVE  FlightInv'
  BY <1>2, <1>4 DEF FlightInv, Timely
<1>5. ASSUME version' = version, NEW f, Sends(f) PROVE FlightInv'
  <2>1. f.asked = version[f.path] /\ f.ver = NoVersion /\ version[f.path] \in Nat
    BY <1>5, FetchTypes DEF Sends, FlightType, TypeOK
  <2>2. \A i \in Slots : flights'[i] = flights[i] \/ flights'[i] = f
    BY <1>5 DEF Sends
  <2>3. Timely(f, version)
    BY <2>1 DEF Timely
  <2> QED
    BY <1>2, <1>5, <2>2, <2>3 DEF FlightInv, Timely
<1>6. ASSUME NEW p \in Pages, Change(p) PROVE FlightInv'
  <2>1. version' \in [Pages -> Versions] /\ flights' = flights
    BY <1>6, NextTypes DEF Next, TypeOK, Change
  <2>2. \A r \in Pages : version[r] <= version'[r]
    <3>1. \A r \in Pages : version[r] \in Nat
      BY FetchTypes DEF TypeOK
    <3> QED
      BY <1>6, <3>1 DEF Change, TypeOK
  <2> QED
    BY <1>1, <1>2, <2>1, <2>2, FlightTypes DEF FlightInv
<1>7. ASSUME NEW i \in Slots, Answer(i) PROVE FlightInv'
  <2>1. /\ flights[i] \in FlightType /\ version' \in [Pages -> Versions]
        /\ \A p \in Pages : version[p] <= version'[p]
    BY <1>7, AnswerIs
  <2>2. PICK v \in Versions : /\ v = version'[flights[i].path]
                              /\ Replaced(i, [flights[i] EXCEPT !.ver = v])
    BY <1>7, AnswerIs
  <2> DEFINE g == [flights[i] EXCEPT !.ver = v]
  <2>3. /\ g.path = flights[i].path /\ g.asked = flights[i].asked /\ g.ver = v
        /\ g \in FlightType
    BY <2>1 DEF FlightType
  <2>4. flights'[i] = g /\ \A j \in Slots \ {i} : flights'[j] = flights[j]
    BY <2>2 DEF Replaced, TypeOK
  <2> HIDE DEF g
  <2>5. flights[i].asked <= version[flights[i].path]
    BY <1>2, <2>1, FlightTypes DEF Timely
  <2>6. flights[i].asked <= v
    <3>1. flights[i].path \in Pages /\ flights[i].asked \in Nat /\ version[flights[i].path] \in Nat
      BY <2>1, FlightTypes
    <3>2. v \in Nat /\ version[flights[i].path] <= v
      BY <2>1, <2>2, <3>1, FetchTypes
    <3> QED
      BY <2>5, <3>1, <3>2
  <2>7. v \in Nat
    BY FetchTypes
  <2>8. Timely(flights'[i], version')
    BY <2>2, <2>3, <2>4, <2>6, <2>7 DEF Timely
  <2>9. \A j \in Slots \ {i} : Timely(flights[j], version')
    BY <1>1, <1>2, <2>1, <2>4, FlightTypes
  <2> QED
    BY <2>4, <2>8, <2>9 DEF FlightInv
<1>8. CASE Poll \/ Put
  BY <1>5, <1>8, SendTypes DEF Poll, Put
<1>9. ASSUME NEW p \in Pages, Remount(p) PROVE FlightInv'
  BY <1>5, <1>9, SendTypes DEF Remount
<1>10. ASSUME NEW i \in Slots, Arrive(i) \/ Catch(i) PROVE FlightInv'
  BY <1>4, <1>10 DEF Arrive, Catch, TypeOK
<1>11. CASE \/ Type \/ (\E p \in Pages : Reuse(p)) \/ Tick \/ (\E t \in Intervals : ClearConnError(t))
            \/ UNCHANGED vars
  BY <1>4, <1>11 DEF Type, Reuse, Tick, ClearConnError, vars
<1> QED
  BY <1>6, <1>7, <1>8, <1>9, <1>10, <1>11 DEF Next

-----------------------------------------------------------------------------
(* WHAT SETS THE FORM *)

LEMMA NextForm == TypeOK /\ FormInv /\ [Next]_vars => FormInv'
<1> SUFFICES ASSUME TypeOK, FormInv, [Next]_vars PROVE FormInv'
  OBVIOUS
<1>1. CASE ~kept'
  BY <1>1 DEF FormInv
(* Nobody starts a fetch that would set it.                                 *)
<1>2. ASSUME kept' = kept, typed' = typed, inst' = inst,
             \A i \in Slots : Sets(flights'[i], inst) => Sets(flights[i], inst)
      PROVE  FormInv'
  BY <1>2 DEF FormInv
<1>3. CASE Poll
  <2>1. PICK f : Sends(f) /\ f.kind = "poll"
    BY <1>3, SendTypes
  <2>2. ~Sets(f, inst)
    BY <2>1 DEF Sets, SetsForm
  <2>3. \A i \in Slots : flights'[i] = flights[i] \/ flights'[i] = f
    BY <2>1 DEF Sends
  <2> QED
    BY <1>2, <1>3, <2>2, <2>3 DEF Poll, pageVars
<1>4. CASE Type
  BY <1>4 DEF Type, FormInv, Sets, SetsForm
<1>5. ASSUME NEW i \in Slots, Answer(i) PROVE FormInv'
  <2>1. flights[i] \in FlightType /\ UNCHANGED pageVars
    BY <1>5, AnswerIs
  <2>2. PICK v : Replaced(i, [flights[i] EXCEPT !.ver = v])
    BY <1>5, AnswerIs
  <2> DEFINE g == [flights[i] EXCEPT !.ver = v]
  <2>3. g.inst = flights[i].inst /\ g.kind = flights[i].kind /\ g.path = flights[i].path
    BY <2>1 DEF FlightType
  <2>4. flights'[i] = g /\ \A j \in Slots \ {i} : flights'[j] = flights[j]
    BY <2>2 DEF Replaced, TypeOK
  <2> HIDE DEF g
  <2>5. flights[i] # NoFetch
    BY <2>1, FetchTypes
  <2>6. Sets(g, inst) => Sets(flights[i], inst)
    BY <2>3, <2>5 DEF Sets, SetsForm
  <2> QED
    BY <1>2, <2>1, <2>4, <2>6 DEF pageVars
<1>6. ASSUME NEW i \in Slots, Arrive(i) PROVE FormInv'
  <2>1. /\ \A j \in Slots : flights'[j] = flights[j] \/ flights'[j] = NoFetch
        /\ kept' = kept /\ inst' = inst
    BY <1>6 DEF Arrive, TypeOK
  <2>2. kept => typed' = typed
    BY <1>6 DEF Arrive, FormInv, Sets
  <2>3. \A j \in Slots : Sets(flights'[j], inst) => Sets(flights[j], inst)
    BY <2>1 DEF Sets
  <2> QED
    BY <1>1, <1>2, <2>1, <2>2, <2>3
<1>7. ASSUME NEW i \in Slots, Catch(i) PROVE FormInv'
  <2>1. \A j \in Slots : flights'[j] = flights[j] \/ flights'[j] = NoFetch
    BY <1>7 DEF Catch, TypeOK
  <2>2. \A j \in Slots : Sets(flights'[j], inst) => Sets(flights[j], inst)
    BY <2>1 DEF Sets
  <2> QED
    BY <1>2, <1>7, <2>2 DEF Catch, pageVars
<1>8. CASE \/ \E p \in Pages : Reuse(p) \/ Change(p)
           \/ Tick \/ (\E t \in Intervals : ClearConnError(t)) \/ UNCHANGED vars
  BY <1>2, <1>8 DEF Reuse, Change, Tick, ClearConnError, pageVars, vars
<1>9. CASE Put \/ \E p \in Pages : Remount(p)
  BY <1>1, <1>9 DEF Put, Remount
<1> QED
  BY <1>3, <1>4, <1>5, <1>6, <1>7, <1>8, <1>9 DEF Next

-----------------------------------------------------------------------------
(* THE SIGN *)

LEMMA NextSign == TypeOK /\ SignInv /\ [Next]_vars => SignInv'
<1> SUFFICES ASSUME TypeOK, SignInv, [Next]_vars PROVE SignInv'
  OBVIOUS
<1>0. /\ timer \in 0..3 /\ since \in 0..3 /\ \A t \in Intervals : left[t] \in 0..3
      /\ NoTimer = 0 /\ Intervals = 1..3
  BY DEF TypeOK, NoTimer, Intervals
<1>1. ASSUME ReportConnError PROVE SignInv'
  <2>1. \A t \in Intervals : StopTimer[t] = 0
    BY DEF StopTimer, SignInv
  <2>2. PICK t \in Intervals : timer' = t /\ left' = [StopTimer EXCEPT ![t] = 3]
    BY <1>1 DEF ReportConnError
  <2>3. left'[t] = 3 /\ \A u \in Intervals \ {t} : left'[u] = 0
    BY <2>1, <2>2 DEF StopTimer
  <2>4. isDisconnected' = TRUE /\ since' = 0
    BY <1>1 DEF ReportConnError
  <2> QED
    BY <1>0, <2>2, <2>3, <2>4 DEF SignInv
<1>2. CASE Tick
  <2>1. /\ since' = since + 1 /\ isDisconnected' = isDisconnected /\ timer' = timer
        /\ \A t \in Intervals : /\ left[t] # 1
                                /\ left'[t] = IF left[t] > 1 THEN left[t] - 1 ELSE 0
    BY <1>2 DEF Tick
  <2>2. CASE timer = NoTimer
    BY <1>0, <2>1, <2>2 DEF SignInv
  <2>3. CASE timer # NoTimer
    <3>1. timer \in Intervals /\ isDisconnected /\ since <= 2 /\ left[timer] = 3 - since
      BY <1>0, <2>3 DEF SignInv
    <3>2. since <= 1
      BY <1>0, <2>1, <3>1
    <3>3. left'[timer] = 3 - since' /\ since' <= 2
      BY <1>0, <2>1, <3>1, <3>2
    <3> QED
      BY <1>0, <2>1, <2>3, <3>1, <3>3 DEF SignInv
  <2> QED
    BY <2>2, <2>3
(* Only the interval of this.timer can be due.                              *)
<1>3. ASSUME NEW t \in Intervals, ClearConnError(t) PROVE SignInv'
  <2>1. t = timer
    BY <1>3 DEF ClearConnError, SignInv
  <2>2. since = 2
    BY <1>0, <1>3, <2>1 DEF ClearConnError, SignInv
  <2>3. /\ timer' = NoTimer /\ isDisconnected' = FALSE /\ since' = since
        /\ \A u \in Intervals : left'[u] = IF u = timer THEN 0 ELSE IF u = t THEN 3 ELSE left[u]
    BY <1>3 DEF ClearConnError
  <2>4. \A u \in Intervals : left'[u] = 0
    BY <2>1, <2>3 DEF SignInv
  <2> QED
    BY <2>2, <2>3, <2>4 DEF SignInv
<1>4. ASSUME UNCHANGED signVars PROVE SignInv'
  BY <1>4 DEF signVars, SignInv
<1> QED
  BY <1>1, <1>2, <1>3, <1>4
  DEF Next, Poll, Put, Type, Remount, Reuse, Change, Answer, Arrive, Catch, vars

-----------------------------------------------------------------------------
(* THE THEOREMS *)

IInv == TypeOK /\ FlightInv /\ FormInv /\ SignInv

LEMMA InitIInv == Init => IInv
<1> SUFFICES ASSUME Init PROVE IInv
  OBVIOUS
<1>1. FlightInv
  <2>1. \A i \in Slots : flights[i] # NoFetch =>
          flights[i].asked = 0 /\ flights[i].ver = NoVersion /\ flights[i].path \in Pages
    BY DEF Init
  <2> QED
    BY <2>1 DEF Init, FlightInv, Timely
<1>2. FormInv
  BY DEF Init, FormInv
<1>3. SignInv
  BY DEF Init, SignInv, NoTimer, Intervals
<1> QED
  BY <1>1, <1>2, <1>3, InitTypes DEF IInv

LEMMA Inductive == Spec => []IInv
<1>1. IInv /\ [Next]_vars => IInv'
  BY NextTypes, NextFlights, NextForm, NextSign DEF IInv
<1> QED
  BY <1>1, InitIInv, PTL DEF Spec

(* A page goes back in time only by an answer that was asked for before the *)
(* server had what it shows (probe.jsx, 14-44; keygen.jsx, 64-103),         *)
(* whichever answers overtake each other or come late from another page.    *)
THEOREM OldWereAsked == Spec => OldOnlyFromBefore
<1>1. IInv /\ [Next]_vars =>
        [inst' = inst =>
           /\ shown'.path = shown.path /\ shown'.ver < shown.ver => EndsFetchFromBefore(shown.ver)
           /\ config' < config => EndsFetchFromBefore(config)]_vars
  <2> SUFFICES ASSUME IInv, Next, inst' = inst
               PROVE  /\ shown'.ver < shown.ver => EndsFetchFromBefore(shown.ver)
                      /\ config' < config => EndsFetchFromBefore(config)
    OBVIOUS
  <2>1. /\ TypeOK /\ FlightInv
        /\ shown.ver \in Nat \cup {-1} /\ config \in Nat \cup {-1}
    BY FetchTypes DEF IInv, TypeOK, ShownType, NoVersion
  <2>2. \A p \in Pages : ~Remount(p)
    BY <2>1 DEF Remount, TypeOK
  <2>3. CASE shown' = shown /\ config' = config
    BY <2>1, <2>3
  <2>4. CASE ~(shown' = shown /\ config' = config)
    <3>1. PICK i \in Slots : Arrive(i)
      BY <2>1, <2>2, <2>4, AnswerIs
      DEF Next, Poll, Put, Type, Reuse, Change, Catch, Tick, ClearConnError, pageVars
    <3>2. /\ flights[i] # NoFetch /\ flights[i].ver # NoVersion /\ flights'[i] = NoFetch
          /\ shown' \in {shown, [path |-> flights[i].path, ver |-> flights[i].ver]}
          /\ config' \in {config, flights[i].ver}
      BY <3>1 DEF Arrive, TypeOK, IInv
    <3>3. shown'.ver \in {shown.ver, flights[i].ver}
      BY <3>2
    <3>4. flights[i].asked <= flights[i].ver
      BY <2>1, <3>2 DEF FlightInv, Timely
    <3>5. flights[i].asked \in Nat /\ flights[i].ver \in Nat
      BY <2>1, <3>2, FlightTypes
    <3>6. ASSUME NEW v \in Nat \cup {-1}, flights[i].ver < v PROVE EndsFetchFromBefore(v)
      BY <3>2, <3>4, <3>5, <3>6 DEF EndsFetchFromBefore
    <3> QED
      BY <2>1, <3>2, <3>3, <3>5, <3>6
  <2> QED
    BY <2>3, <2>4
<1> QED
  BY <1>1, Inductive, PTL DEF Spec, OldOnlyFromBefore

(* What is typed into the form while no answer is due that sets it stays    *)
(* until it is submitted (keygen.jsx, 64-110), however many polls come in.  *)
THEOREM TypedStays == Spec => []TypedIsKept
<1>1. IInv => TypedIsKept
  BY DEF IInv, FormInv, TypedIsKept
<1> QED
  BY <1>1, Inductive, PTL

(* The sign is on for two seconds after the last of any errors, and off     *)
(* after that (disconnected.jsx, 11-23).                                    *)
THEOREM SignIsOn == Spec => []SignTells
<1>1. IInv => SignTells
  BY DEF IInv, TypeOK, SignInv, SignTells
<1> QED
  BY <1>1, Inductive, PTL

=============================================================================
