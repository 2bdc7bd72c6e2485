------------------------------ MODULE Dashboard ------------------------------
(***************************************************************************)
(* The web client of kuard (client/src) on the pages that poll the server: *)
(* the two probes, KeyGen and MemQ.  A page fetches the server's state     *)
(* when it is mounted, every second after that, and with the answer to     *)
(* each of its PUTs.  Nothing orders the answers.                          *)
(*                                                                         *)
(* What a page shows is the version of the server's state it was answered  *)
(* with.  KeyGen's state has two parts, the history that every answer sets *)
(* and the configuration in the form, which is loaded at first and with    *)
(* the answers to the page's own PUTs.                                     *)
(*                                                                         *)
(* React keeps a component's instance when the next page has the same      *)
(* handler in the same place, unless the router (external) asks for a new  *)
(* one: both are possible here.                                            *)
(***************************************************************************)
EXTENDS Integers, FiniteSets

CONSTANTS
  Pages,
  Handler,      \* the component of each page
  MaxFlights,   \* bound: fetches under way at a time
  MaxVersion,   \* bound: changes of the server's state of a page
  MaxMoves,     \* bound: navigations
  MaxErrors     \* bound: fetches that fail

Slots    == 1..MaxFlights
Versions == 0..MaxVersion
NoVersion == -1
NoPage   == "none"
NoFetch  == [inst |-> 0, path |-> NoPage, kind |-> "none",
             asked |-> NoVersion, ver |-> NoVersion]
Blank    == [path |-> NoPage, ver |-> NoVersion]

ASSUME DashboardAssumption ==
  /\ NoPage \notin Pages
  /\ Handler \in [Pages -> {"Probe", "KeyGen", "MemQ"}]
  /\ MaxFlights \in Nat \ {0}
  /\ {MaxVersion, MaxMoves, MaxErrors} \subseteq Nat

VARIABLES
  version,    \* of the server's state behind each page
  page,       \* what the location says
  inst,       \* the component's instance, counted; also the number of mounts
  shown,      \* what it shows: of which page, which version (of KeyGen, the history)
  config,     \* KeyGen's configuration: the version that it was loaded from
  typed,      \* and whether the form was typed in since
  flights,    \* fetches under way
  moves, errors,
  isDisconnected, timer, left,  \* Disconnected: sign, this.timer, seconds to each interval
  \* History variables: no step reads them.
  kept,       \* the form was typed in when no answer was due that sets it
  since       \* seconds since the last error was reported, up to 3

pageVars == <<page, inst, shown, config, typed, moves, kept>>
signVars == <<isDisconnected, timer, left, since>>
vars     == <<version, pageVars, flights, errors, signVars>>

Intervals == 1..3
NoTimer   == 0

Init ==
  /\ version = [p \in Pages |-> 0]
  /\ page \in Pages
  /\ inst = 1
  /\ shown = Blank /\ config = NoVersion /\ typed = FALSE
  /\ flights = [i \in Slots |-> IF i # 1 THEN NoFetch ELSE
                  [inst |-> 1, path |-> page, kind |-> "first", asked |-> 0, ver |-> NoVersion]]
  /\ moves = 0 /\ errors = 0
  /\ isDisconnected = FALSE /\ timer = NoTimer /\ left = [t \in Intervals |-> 0]
  /\ kept = FALSE /\ since = 3

-----------------------------------------------------------------------------
(* The pages: fetch(this.props.serverPath ...) *)
Fetch(n, p, kind) ==
  \E i \in Slots :
    /\ flights[i] = NoFetch /\ \A j \in 1..(i - 1) : flights[j] # NoFetch
    /\ flights' = [flights EXCEPT ![i] = [inst |-> n, path |-> p, kind |-> kind,
                                          asked |-> version[p], ver |-> NoVersion]]

(* The interval is cleared by the first answer. *)
BadPoll ==
  /\ shown = Blank
  /\ Fetch(inst, page, "poll")
  /\ UNCHANGED <<version, pageVars, errors, signVars>>

(* setInterval(loadState, 1000) *)
Poll ==
  /\ Fetch(inst, page, "poll")
  /\ UNCHANGED <<version, pageVars, errors, signVars>>

(* Probe.configure, KeyGen.handleSubmit *)
Put ==
  /\ Handler[page] \in {"Probe", "KeyGen"}
  /\ Fetch(inst, page, "put")
  /\ kept' = FALSE
  /\ UNCHANGED <<version, page, inst, shown, config, typed, moves, errors, signVars>>

(* Every answer sets the whole state. *)
BadSetsForm(f) == Handler[f.path] = "KeyGen"

(* KeyGen takes its configuration from the first load and from the answers  *)
(* to its own PUTs; polls set the history only.                             *)
SetsForm(f) == Handler[f.path] = "KeyGen" /\ f.kind \in {"first", "put"}

(* KeyGen.handleChange *)
Type ==
  /\ Handler[page] = "KeyGen"
  /\ typed' = TRUE
  /\ kept' = ~\E i \in Slots : /\ flights[i] # NoFetch
                               /\ flights[i].inst = inst /\ SetsForm(flights[i])
  /\ UNCHANGED <<version, page, inst, shown, config, moves, flights, errors, signVars>>

Navigate(p) ==
  /\ p # page
  /\ moves < MaxMoves /\ moves' = moves + 1
  /\ page' = p

(* componentWillUnmount, then the constructor and componentDidMount *)
Remount(p) ==
  /\ Navigate(p)
  /\ inst' = inst + 1
  /\ shown' = Blank /\ config' = NoVersion /\ typed' = FALSE /\ kept' = FALSE
  /\ Fetch(inst', p, "first")
  /\ UNCHANGED <<version, errors, signVars>>

(* Only this.props changes. *)
Reuse(p) ==
  /\ Navigate(p)
  /\ Handler[p] = Handler[page]
  /\ UNCHANGED <<version, inst, shown, config, typed, kept, flights, errors, signVars>>

-----------------------------------------------------------------------------
(* The server: someone else changes the state behind a page. *)
Change(p) ==
  /\ version[p] < MaxVersion
  /\ version' = [version EXCEPT ![p] = @ + 1]
  /\ UNCHANGED <<pageVars, flights, errors, signVars>>

(* A browser may answer from its cache. *)
BadCurrent(p) == 0..version[p]

(* apiutils.NoCache: every answer is the server's own. *)
Current(p) == {version[p]}

Answer(i) ==
  LET f == flights[i]
  IN /\ f # NoFetch /\ f.ver = NoVersion
     /\ \/ f.kind # "put" /\ UNCHANGED version
        \/ f.kind = "put" /\ version' \in {version, [version EXCEPT ![f.path] = @ + 1]}
     /\ version'[f.path] <= MaxVersion
     /\ \E v \in IF f.kind = "put" THEN {version'[f.path]} ELSE Current(f.path) :
          flights' = [flights EXCEPT ![i].ver = v]
     /\ UNCHANGED <<pageVars, errors, signVars>>

(* .then(response => this.setState(response)), or only its history; an      *)
(* instance that is unmounted ignores it.                                   *)
Arrive(i) ==
  LET f == flights[i]
  IN /\ f # NoFetch /\ f.ver # NoVersion
     /\ flights' = [flights EXCEPT ![i] = NoFetch]
     /\ IF f.inst = inst
        THEN /\ shown' = [path |-> f.path, ver |-> f.ver]
             /\ config' = IF SetsForm(f) THEN f.ver ELSE config
             /\ typed' = (typed /\ ~SetsForm(f))
        ELSE UNCHANGED <<shown, config, typed>>
     /\ UNCHANGED <<version, page, inst, moves, kept, errors, signVars>>

-----------------------------------------------------------------------------
(* Disconnected: an interval of two seconds hides the sign again. *)

(* The running interval is not cleared. *)
BadStopTimer == left

StopTimer == [t \in Intervals |-> IF t = timer THEN 0 ELSE left[t]]

ReportConnError ==
  /\ isDisconnected' = TRUE
  /\ \E t \in Intervals :
       /\ StopTimer[t] = 0 /\ \A u \in 1..(t - 1) : StopTimer[u] # 0
       /\ timer' = t
       /\ left' = [StopTimer EXCEPT ![t] = 3]
  /\ since' = 0

(* The fetch fails, or fetchError throws: a status that is not ok.  The     *)
(* request may have taken effect all the same.                              *)
Catch(i) ==
  /\ flights[i] # NoFetch
  /\ errors < MaxErrors /\ errors' = errors + 1
  /\ flights' = [flights EXCEPT ![i] = NoFetch]
  /\ ReportConnError
  /\ UNCHANGED <<version, pageVars>>

(* Seconds pass; an interval is due at 1, before the next second. *)
Tick ==
  /\ \A t \in Intervals : left[t] # 1
  /\ since < 3
  /\ left' = [t \in Intervals |-> IF left[t] > 1 THEN left[t] - 1 ELSE 0]
  /\ since' = since + 1
  /\ UNCHANGED <<version, pageVars, flights, errors, isDisconnected, timer>>

(* clearConnError; an interval that is not this.timer starts over. *)
ClearConnError(t) ==
  /\ left[t] = 1
  /\ isDisconnected' = FALSE
  /\ timer' = NoTimer
  /\ left' = [u \in Intervals |-> IF u = timer THEN 0 ELSE IF u = t THEN 3 ELSE left[u]]
  /\ UNCHANGED <<version, pageVars, flights, errors, since>>

-----------------------------------------------------------------------------
Next ==
  \/ Poll \/ Put \/ Type
  \/ \E p \in Pages : Remount(p) \/ Reuse(p) \/ Change(p)
  \/ \E i \in Slots : Answer(i) \/ Arrive(i) \/ Catch(i)
  \/ Tick
  \/ \E t \in Intervals : ClearConnError(t)

Spec == Init /\ [][Next]_vars

(* Timers fire, and every fetch ends: with an answer but for MaxErrors.     *)
Fairness ==
  /\ WF_vars(Poll)
  /\ \A i \in Slots : WF_vars(Answer(i)) /\ WF_vars(Arrive(i))

FairSpec == Spec /\ Fairness

-----------------------------------------------------------------------------
(* PROPERTIES *)

(* Once nobody changes it any more, the page shows what it polls of the     *)
(* server's state and keeps showing it: a probe or the queues as a whole,   *)
(* KeyGen's history, of its own path, also if the instance was taken over   *)
(* from another page, and whatever answers were late.  KeyGen's form does   *)
(* not follow the server: it gets a configuration, unless a fetch failed,   *)
(* and keeps it.                                                            *)
EventuallyShows ==
  <>[](/\ shown.path = page /\ shown.ver = version[page]
       /\ Handler[page] = "KeyGen" /\ errors = 0 => config # NoVersion)

(* A page goes back to an older state, and the form to an older             *)
(* configuration, only by an answer to a fetch that was sent before the     *)
(* server had the newer one: a poll or a first load that a PUT overtook,    *)
(* never a fetch that was sent after the PUT's answer was seen.             *)
EndsFetchFromBefore(v) ==
  \E i \in Slots : /\ flights[i] # NoFetch /\ flights'[i] = NoFetch
                   /\ flights[i].asked < v

OldOnlyFromBefore ==
  [][inst' = inst =>
       /\ shown'.path = shown.path /\ shown'.ver < shown.ver => EndsFetchFromBefore(shown.ver)
       /\ config' < config => EndsFetchFromBefore(config)]_vars

(* What is typed into KeyGen's form while no answer is due that sets it     *)
(* stays there until Submit, however many polls come in.                    *)
TypedIsKept == kept => typed

(* The sign is on for two seconds after every error, not only after the     *)
(* first of several, and off after that.                                    *)
SignTells == /\ since < 2 => isDisconnected
             /\ isDisconnected => since <= 2

=============================================================================
