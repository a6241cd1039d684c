------------------------ MODULE ListenerAdminProofs ------------------------
(***************************************************************************)
(* Theorems about ListenerAdmin, for every number of requests that         *)
(* overlap, every set of listeners, ports and services, and whatever       *)
(* fails.                                                                  *)
(***************************************************************************)
EXTENDS ListenerAdmin, ProxyServerProofs, GoSlicesProofs

-----------------------------------------------------------------------------
(* Types: what the locals of a request hold at each of its steps *)

(* The entries the handlers can make: what was given, with any switch. *)
GivenListener == {e \in ListenerEntry : AsListener(e) \in ListenersGiven}
GivenService == {e \in ServiceEntry : AsService(e) \in ServicesGiven}
GivenConfig == [listener : ListenersGiven, services : SUBSET ServicesGiven]

IndexPointer == [kept : {FALSE}, at : Nat \ {0}]
KeptPointer(E) == [kept : {TRUE}, element : E]
Pointer(E) == IndexPointer \cup KeptPointer(E)

IdleState == [pc : {"idle"}]
SnapshotState == [pc : {"snapshot"}, listener : ListenersGiven, todo : Seq(ListenersGiven)]
Starting == IdleState \cup SnapshotState
ApplyState == [pc : {"apply"}, todo : Seq(ListenersGiven), config : GivenConfig]
ReloadState == [pc : {"reload"}, portID : Listener]
AddState ==
  [pc : {"addListener"}, default : {{}} \cup {{s} : s \in GivenService},
   listener : GivenListener]
DefaultState == [pc : {"addDefault"}, service : GivenService, then : Starting]
UpdateState ==
  [pc : {"saveUpdated", "updated"}, pListener : Pointer(GivenListener),
   listener : GivenListener]
DeleteState == [pc : {"stopDeleted", "delete"}, id : Listener]
ToggleState == [pc : {"toggle"}, id : Listener, pListener : Pointer(GivenListener)]
OnState == [pc : {"saveOn"}, listener : GivenListener]
OffState ==
  [pc : {"stopToggled", "saveOff", "saveUnstopped"}, id : Listener,
   pListener : Pointer(GivenListener), listener : GivenListener]
StartState == [pc : {"start"}]
ServiceState == [pc : {"saveService"}, service : GivenService, reload : BOOLEAN]
RemoveState == [pc : {"deleteService"}, id : Service, pService : Pointer(GivenService)]
PointedState == [pc : {"reloadPointed"}, pService : Pointer(GivenService)]
FlipState == [pc : {"flip", "copy"}, id : Service, pService : Pointer(GivenService)]
ToggledState ==
  [pc : {"saveToggled"}, id : Service, pService : Pointer(GivenService), service : GivenService]

RequestState ==
  UNION {IdleState, SnapshotState, ApplyState, ReloadState, AddState, DefaultState, UpdateState,
         DeleteState, ToggleState, OnState, OffState, StartState, ServiceState, RemoveState,
         PointedState, FlipState, ToggledState}

(* The steps at which a request holds a pointer. *)
HoldsListener(x) ==
  x.pc \in {"saveUpdated", "updated", "toggle", "stopToggled", "saveOff", "saveUnstopped"}
HoldsService(x) ==
  x.pc \in {"deleteService", "reloadPointed", "flip", "copy", "saveToggled"}

(* A pointer into a list leads into its array. *)
Leads(s, p) == p \in IndexPointer => p.at <= Len(s.cells)

ListsOK == cfgListeners \in SliceOf(GivenListener) /\ cfgServices \in SliceOf(GivenService)
RequestsOK ==
  /\ req \in [Request -> RequestState]
  /\ \A r \in Request :
       /\ HoldsListener(req[r]) => Leads(cfgListeners, req[r].pListener)
       /\ HoldsService(req[r]) => Leads(cfgServices, req[r].pService)
AdminTypeInv == ListsOK /\ RequestsOK

-----------------------------------------------------------------------------
(* Identifiers: those in the lists, those requests are about to add and    *)
(* those nobody uses are apart.                                            *)

AddsListeners(r) == IF At(r, "addListener") THEN {req[r].listener.id} ELSE {}
AddsServices(r) ==
  IF At(r, "addListener") THEN IdSet(req[r].default)
  ELSE IF At(r, "addDefault") THEN {req[r].service.id} ELSE {}

UniqueInv ==
  /\ DistinctIds(cfgListeners) /\ DistinctIds(cfgServices)
  /\ unused \cap IdsOf(cfgListeners) = {} /\ unused \cap IdsOf(cfgServices) = {}
  /\ \A r \in Request :
       /\ AddsListeners(r) \cap (unused \cup IdsOf(cfgListeners)) = {}
       /\ AddsServices(r) \cap (unused \cup IdsOf(cfgServices)) = {}
  /\ \A r, q \in Request :
       r # q => /\ AddsListeners(r) \cap AddsListeners(q) = {}
                /\ AddsServices(r) \cap AddsServices(q) = {}

-----------------------------------------------------------------------------
(* What is known of a request at a step, and of its locals. *)
LEMMA RequestShapes ==
  ASSUME NEW x \in RequestState
  PROVE  /\ x.pc = "idle" => x \in IdleState
         /\ x.pc = "snapshot" => x \in SnapshotState
         /\ x.pc = "apply" => x \in ApplyState
         /\ x.pc = "reload" => x \in ReloadState
         /\ x.pc = "addListener" => x \in AddState
         /\ x.pc = "addDefault" => x \in DefaultState
         /\ x.pc \in {"saveUpdated", "updated"} => x \in UpdateState
         /\ x.pc \in {"stopDeleted", "delete"} => x \in DeleteState
         /\ x.pc = "toggle" => x \in ToggleState
         /\ x.pc = "saveOn" => x \in OnState
         /\ x.pc \in {"stopToggled", "saveOff", "saveUnstopped"} => x \in OffState
         /\ x.pc = "start" => x \in StartState
         /\ x.pc = "saveService" => x \in ServiceState
         /\ x.pc = "deleteService" => x \in RemoveState
         /\ x.pc = "reloadPointed" => x \in PointedState
         /\ x.pc \in {"flip", "copy"} => x \in FlipState
         /\ x.pc = "saveToggled" => x \in ToggledState
  BY DEF RequestState, IdleState, SnapshotState, ApplyState, ReloadState, AddState, DefaultState,
         UpdateState, DeleteState, ToggleState, OnState, OffState, StartState, ServiceState,
         RemoveState, PointedState, FlipState, ToggledState

LEMMA IdleIsIdle == Idle \in IdleState /\ \A x \in IdleState : x = Idle
  BY DEF Idle, IdleState

(* The pointers are the only locals that another request changes. *)
Alike(x, y) ==
  \/ y = x
  \/ HoldsListener(x) /\ \E p \in KeptPointer(GivenListener) : y = [x EXCEPT !.pListener = p]
  \/ HoldsService(x) /\ \E p \in KeptPointer(GivenService) : y = [x EXCEPT !.pService = p]

LEMMA PointerFields ==
  ASSUME NEW x \in RequestState
  PROVE  /\ "pListener" \in DOMAIN x <=> HoldsListener(x)
         /\ "pService" \in DOMAIN x <=> HoldsService(x)
         /\ HoldsListener(x) => x.pListener \in Pointer(GivenListener)
         /\ HoldsService(x) => x.pService \in Pointer(GivenService)
<1>1. /\ "pListener" \in DOMAIN x <=> HoldsListener(x)
      /\ "pService" \in DOMAIN x <=> HoldsService(x)
  BY DEF HoldsListener, HoldsService, RequestState, IdleState, SnapshotState, ApplyState,
         ReloadState, AddState, DefaultState, UpdateState, DeleteState, ToggleState, OnState,
         OffState, StartState, ServiceState, RemoveState, PointedState, FlipState, ToggledState
<1> QED
  BY <1>1, RequestShapes DEF HoldsListener, HoldsService, UpdateState, ToggleState, OffState,
     RemoveState, PointedState, FlipState, ToggledState

LEMMA AlikeFields ==
  ASSUME NEW x \in RequestState, NEW y, Alike(x, y)
  PROVE  /\ y \in RequestState /\ y.pc = x.pc
         /\ ~HoldsListener(x) /\ ~HoldsService(x) => y = x
         /\ x.pc \in {"saveUpdated", "stopToggled", "saveOff", "saveUnstopped"} =>
              y.listener = x.listener
         /\ \/ y = x
            \/ HoldsListener(y) /\ y.pListener \in KeptPointer(GivenListener)
            \/ HoldsService(y) /\ y.pService \in KeptPointer(GivenService)
<1>1. CASE y = x
  BY <1>1
<1>2. ASSUME NEW p \in KeptPointer(GivenListener), y = [x EXCEPT !.pListener = p],
             HoldsListener(x)
      PROVE  /\ y \in RequestState /\ y.pc = x.pc /\ y.pListener = p
             /\ x.pc \in {"saveUpdated", "stopToggled", "saveOff", "saveUnstopped"} =>
                  y.listener = x.listener
  <2>1. CASE x.pc \in {"saveUpdated", "updated"}
    <3>1. y \in UpdateState /\ y.pc = x.pc /\ y.pListener = p /\ y.listener = x.listener
      BY <1>2, <2>1, RequestShapes DEF UpdateState, Pointer
    <3> QED
      BY <3>1 DEF RequestState
  <2>2. CASE x.pc = "toggle"
    <3>1. y \in ToggleState /\ y.pc = x.pc /\ y.pListener = p
      BY <1>2, <2>2, RequestShapes DEF ToggleState, Pointer
    <3> QED
      BY <2>2, <3>1 DEF RequestState
  <2>3. CASE x.pc \in {"stopToggled", "saveOff", "saveUnstopped"}
    <3>1. y \in OffState /\ y.pc = x.pc /\ y.pListener = p /\ y.listener = x.listener
      BY <1>2, <2>3, RequestShapes DEF OffState, Pointer
    <3> QED
      BY <3>1 DEF RequestState
  <2> QED
    BY <1>2, <2>1, <2>2, <2>3 DEF HoldsListener
<1>3. ASSUME NEW p \in KeptPointer(GivenService), y = [x EXCEPT !.pService = p],
             HoldsService(x)
      PROVE  y \in RequestState /\ y.pc = x.pc /\ y.pService = p
  <2>1. CASE x.pc = "deleteService"
    <3>1. y \in RemoveState /\ y.pc = x.pc /\ y.pService = p
      BY <1>3, <2>1, RequestShapes DEF RemoveState, Pointer
    <3> QED
      BY <3>1 DEF RequestState
  <2>2. CASE x.pc = "reloadPointed"
    <3>1. y \in PointedState /\ y.pc = x.pc /\ y.pService = p
      BY <1>3, <2>2, RequestShapes DEF PointedState, Pointer
    <3> QED
      BY <3>1 DEF RequestState
  <2>3. CASE x.pc \in {"flip", "copy"}
    <3>1. y \in FlipState /\ y.pc = x.pc /\ y.pService = p
      BY <1>3, <2>3, RequestShapes DEF FlipState, Pointer
    <3> QED
      BY <3>1 DEF RequestState
  <2>4. CASE x.pc = "saveToggled"
    <3>1. y \in ToggledState /\ y.pc = x.pc /\ y.pService = p
      BY <1>3, <2>4, RequestShapes DEF ToggledState, Pointer
    <3> QED
      BY <3>1 DEF RequestState
  <2> QED
    BY <1>3, <2>1, <2>2, <2>3, <2>4 DEF HoldsService
<1> QED
  BY <1>1, <1>2, <1>3 DEF Alike, HoldsListener, HoldsService


-----------------------------------------------------------------------------
(* Entries *)

LEMMA GivenEntries ==
  /\ NewListeners \cup ListenerBodies \in SUBSET GivenListener
  /\ ServiceBodies \in SUBSET GivenService
  /\ Slice(StoredListeners) \in SliceOf(GivenListener)
  /\ Slice(StoredServices) \in SliceOf(GivenService)
  /\ GivenConfig \in SUBSET Configs
<1>1. /\ StoredListeners \in Seq(ListenerEntry) /\ StoredServices \in Seq(ServiceEntry)
      /\ NewListeners \cup ListenerBodies \subseteq ListenerEntry
      /\ ServiceBodies \subseteq ServiceEntry
  BY StoredAssumption, BodiesAssumption
<1>2. ASSUME NEW e \in ServiceEntry
      PROVE  [e EXCEPT !.enabled = e.enabled] = e /\ e.enabled \in BOOLEAN
  BY DEF ServiceEntry
<1>3. ServiceBodies \in SUBSET GivenService
  BY <1>1, <1>2 DEF GivenService, ServicesGiven
<1>4. \A i \in DOMAIN StoredListeners : StoredListeners[i] \in Elements(Slice(StoredListeners))
  BY <1>1 DEF Slice, Elements
<1>5. \A i \in DOMAIN StoredServices : StoredServices[i] \in Elements(Slice(StoredServices))
  BY <1>1 DEF Slice, Elements
<1>6. \A i \in DOMAIN StoredListeners : StoredListeners[i] \in GivenListener
  BY <1>1, <1>4 DEF GivenListener, ListenersGiven
<1>7. \A i \in DOMAIN StoredServices : StoredServices[i] \in GivenService
  <2> SUFFICES ASSUME NEW i \in DOMAIN StoredServices
               PROVE  StoredServices[i] \in GivenService
    OBVIOUS
  <2> DEFINE e == StoredServices[i]
  <2>1. e \in ServiceEntry
    BY <1>1
  <2>2. e \in Elements(Slice(StoredServices))
    BY <1>5
  <2> HIDE DEF e
  <2>3. e \in GivenService
    BY <1>2, <2>1, <2>2 DEF GivenService, ServicesGiven
  <2> QED
    BY <2>3 DEF e
<1>8. StoredListeners \in Seq(GivenListener) /\ StoredServices \in Seq(GivenService)
  BY <1>1, <1>6, <1>7
<1> QED
  BY <1>1, <1>3, <1>8, SliceIn, SubmittedAssumption DEF GivenListener, ListenersGiven, GivenConfig

(* Turning the switch makes no new entry. *)
LEMMA Switched ==
  /\ \A e \in GivenListener, on \in BOOLEAN :
       /\ [e EXCEPT !.enabled = on] \in GivenListener
       /\ [e EXCEPT !.enabled = on].id = e.id /\ [e EXCEPT !.enabled = on].port = e.port
  /\ \A e \in GivenService, on \in BOOLEAN :
       /\ [e EXCEPT !.enabled = on] \in GivenService
       /\ [e EXCEPT !.enabled = on].id = e.id
<1>1. ASSUME NEW e \in GivenListener, NEW on \in BOOLEAN
      PROVE  /\ [e EXCEPT !.enabled = on] \in GivenListener
             /\ [e EXCEPT !.enabled = on].id = e.id /\ [e EXCEPT !.enabled = on].port = e.port
  <2> DEFINE x == [e EXCEPT !.enabled = on]
  <2>1. e \in ListenerEntry /\ AsListener(e) \in ListenersGiven
    BY DEF GivenListener
  <2>2. /\ x \in ListenerEntry /\ x.id = e.id /\ x.port = e.port
        /\ x.protocol = e.protocol
    BY <2>1 DEF ListenerEntry
  <2> HIDE DEF x
  <2>3. AsListener(x) = AsListener(e)
    BY <2>2 DEF AsListener
  <2>4. x \in GivenListener
    BY <2>1, <2>2, <2>3 DEF GivenListener
  <2> QED
    BY <2>2, <2>4 DEF x
<1>2. ASSUME NEW e \in GivenService, NEW on \in BOOLEAN
      PROVE  [e EXCEPT !.enabled = on] \in GivenService /\ [e EXCEPT !.enabled = on].id = e.id
  <2> DEFINE x == [e EXCEPT !.enabled = on]
  <2>1. e \in ServiceEntry /\ AsService(e) \in ServicesGiven
    BY DEF GivenService
  <2> DEFINE B == ServiceBodies \cup Elements(Slice(StoredServices))
             F(b, was) == AsService([b EXCEPT !.enabled = was])
  <2>a. ServicesGiven = {F(b, was) : b \in B, was \in BOOLEAN}
    BY DEF ServicesGiven
  <2> HIDE DEF B, F
  <2>b. PICK b \in B, was \in BOOLEAN : AsService(e) = F(b, was)
    BY <2>1, <2>a
  <2>2. /\ b \in ServiceBodies \cup Elements(Slice(StoredServices))
        /\ AsService(e) = AsService([b EXCEPT !.enabled = was])
    BY <2>b DEF B, F
  <2>3. b \in ServiceEntry
    <3>1. \A y \in Elements(Slice(StoredServices)) : y \in GivenService
      BY GivenEntries, SliceFacts DEF Elements
    <3> QED
      BY <2>2, <3>1, BodiesAssumption DEF GivenService
  <2>4. AsService([b EXCEPT !.enabled = was]) =
          [id |-> b.id, enabled |-> was, valid |-> b.valid, http2 |-> FALSE, http3 |-> FALSE]
    BY <2>3 DEF AsService, ServiceEntry
  <2>5. AsService([b EXCEPT !.enabled = on]) =
          [id |-> b.id, enabled |-> on, valid |-> b.valid, http2 |-> FALSE, http3 |-> FALSE]
    BY <2>3 DEF AsService, ServiceEntry
  <2>6. AsService(e).id = e.id /\ AsService(e).valid = e.valid
    BY DEF AsService
  <2>7. b.id = e.id /\ b.valid = e.valid
    BY <2>2, <2>4, <2>6
  <2>8. x \in ServiceEntry /\ x.id = e.id /\ x.valid = e.valid /\ x.enabled = on
    BY <2>1 DEF ServiceEntry
  <2> HIDE DEF x
  <2>9. AsService(x) = AsService([b EXCEPT !.enabled = on])
    BY <2>5, <2>7, <2>8 DEF AsService
  <2>10. x \in GivenService
    BY <2>2, <2>8, <2>9 DEF GivenService, ServicesGiven
  <2> QED
    BY <2>8, <2>10 DEF x
<1> QED
  BY <1>1, <1>2

-----------------------------------------------------------------------------
(* Lists and pointers into them *)

LEMMA ElementsIn ==
  ASSUME NEW E, NEW s \in SliceOf(E)
  PROVE  /\ Elements(s) \in SUBSET E
         /\ \A id \in IdsOf(s) : /\ IndexOf(s, id) \in 1 .. s.len
                                 /\ Element(s, id) \in Elements(s) /\ Element(s, id).id = id
         /\ \A i \in 1 .. s.len : /\ PointerTo(i) \in IndexPointer /\ Leads(s, PointerTo(i))
                                  /\ Deref(s, PointerTo(i)) = s.cells[i]
                                  /\ s.cells[i] \in Elements(s) /\ s.cells[i].id \in IdsOf(s)
<1>1. Elements(s) \in SUBSET E
  BY SliceFacts DEF Elements
<1>2. s.len \in Nat /\ Len(s.cells) \in Nat /\ s.len <= Len(s.cells)
  BY SliceFacts
<1>3. ASSUME NEW i \in 1 .. s.len
      PROVE  /\ PointerTo(i) \in IndexPointer /\ Leads(s, PointerTo(i))
             /\ Deref(s, PointerTo(i)) = s.cells[i]
             /\ s.cells[i] \in Elements(s) /\ s.cells[i].id \in IdsOf(s)
  <2>1. i \in Nat \ {0} /\ i <= Len(s.cells)
    BY <1>2
  <2>2. PointerTo(i) \in IndexPointer /\ PointerTo(i).at = i /\ PointerTo(i).kept = FALSE
    BY <2>1 DEF PointerTo, IndexPointer
  <2>3. s.cells[i] \in Elements(s)
    BY DEF Elements
  <2>4. s.cells[i].id \in IdsOf(s)
    BY <2>3 DEF IdsOf, IdSet
  <2> QED
    BY <2>1, <2>2, <2>3, <2>4 DEF Leads, Deref
<1> QED
  BY <1>1, <1>3, IndexOfFirst

LEMMA PointerKinds ==
  \A E : \A p \in KeptPointer(E) : p \notin IndexPointer /\ \A s : Leads(s, p)
<1> SUFFICES ASSUME NEW E, NEW p \in KeptPointer(E)
             PROVE  p \notin IndexPointer
  BY DEF Leads
<1>1. p.kept = TRUE /\ \A q \in IndexPointer : q.kept = FALSE
  BY DEF KeptPointer, IndexPointer
<1> QED
  BY <1>1

LEMMA DerefIn ==
  ASSUME NEW E, NEW s \in SliceOf(E), NEW p \in Pointer(E), Leads(s, p)
  PROVE  Deref(s, p) \in E
<1>1. CASE p \in IndexPointer
  <2>1. p.kept = FALSE /\ p.at \in Nat \ {0} /\ p.at <= Len(s.cells)
    BY <1>1 DEF Leads, IndexPointer
  <2>2. p.at \in 1 .. Len(s.cells)
    BY <2>1, SliceFacts
  <2>3. s.cells[p.at] \in E
    BY <2>2, SliceFacts
  <2> QED
    BY <2>1, <2>3 DEF Deref
<1>2. CASE p \in KeptPointer(E)
  BY <1>2 DEF KeptPointer, Deref
<1> QED
  BY <1>1, <1>2 DEF Pointer

(* Overwriting an entry by one of the same identifier, and deleting one,   *)
(* bring no identifier into a list, and leave the array where it is.       *)
Shrinks(s, t) == IdsOf(t) \subseteq IdsOf(s) /\ (DistinctIds(s) => DistinctIds(t))
Stays(s, t) == Len(s.cells) <= Len(t.cells)

LEMMA SetShrinks ==
  ASSUME NEW E, NEW s \in SliceOf(E), NEW i \in 1 .. s.len, NEW e \in E, e.id = s.cells[i].id
  PROVE  /\ SetElement(s, i, e) \in SliceOf(E)
         /\ Shrinks(s, SetElement(s, i, e)) /\ Stays(s, SetElement(s, i, e))
<1>1. SetElement(s, i, e) \in SliceOf(E) /\ Len(SetElement(s, i, e).cells) = Len(s.cells)
  BY SetElementIn
<1>2. Len(s.cells) \in Nat
  BY SliceFacts
<1> QED
  BY <1>1, <1>2, SetElementIds DEF Shrinks, Stays

LEMMA RemoveShrinks ==
  ASSUME NEW E, NEW s \in SliceOf(E), NEW i \in 1 .. s.len
  PROVE  /\ Remove(s, i) \in SliceOf(E)
         /\ Shrinks(s, Remove(s, i)) /\ Stays(s, Remove(s, i))
<1>1. Remove(s, i) \in SliceOf(E) /\ Len(Remove(s, i).cells) = Len(s.cells)
  BY RemoveIn
<1>2. Len(s.cells) \in Nat
  BY SliceFacts
<1> QED
  BY <1>1, <1>2, RemoveIds DEF Shrinks, Stays


-----------------------------------------------------------------------------
(* What a step does to the requests *)

(* Request r goes on with x, and an append or a deletion may have replaced *)
(* the array under the pointers of the others.                             *)
Moves(r, x) ==
  /\ req' = [q \in Request |-> req'[q]] /\ req'[r] = x
  /\ \A q \in Request \ {r} : Alike(req[q], req'[q])

LEMMA GotoMoves ==
  ASSUME RequestsOK, NEW r \in Request, NEW x, Goto(r, x)
  PROVE  Moves(r, x)
<1>1. req' = [req EXCEPT ![r] = x] /\ req = [q \in Request |-> req[q]]
  BY DEF Goto, RequestsOK
<1> QED
  BY <1>1 DEF Moves, Alike

(* The locals after the array behind a list is replaced. *)
LEMMA KeepingListeners ==
  ASSUME ListsOK, RequestsOK
  PROVE  LET ws == Keeping("pListener", cfgListeners)
         IN ws = [q \in Request |-> ws[q]] /\ \A q \in Request : Alike(req[q], ws[q])
<1> DEFINE ws == Keeping("pListener", cfgListeners)
<1>1. ws = [q \in Request |-> ws[q]]
  BY DEF Keeping
<1>2. ASSUME NEW q \in Request
      PROVE  Alike(req[q], ws[q])
  <2>1. req[q] \in RequestState
    BY DEF RequestsOK
  <2>2. CASE "pListener" \notin DOMAIN req[q]
    <3>1. ws[q] = req[q]
      BY <2>2 DEF Keeping
    <3> QED
      BY <3>1 DEF Alike
  <2>3. CASE "pListener" \in DOMAIN req[q]
    <3>1. HoldsListener(req[q]) /\ req[q].pListener \in Pointer(GivenListener)
      BY <2>1, <2>3, PointerFields
    <3>2. Deref(cfgListeners, req[q].pListener) \in GivenListener
      BY <3>1, DerefIn DEF ListsOK, RequestsOK
    <3> DEFINE p == [kept |-> TRUE, element |-> Deref(cfgListeners, req[q].pListener)]
    <3>3. p \in KeptPointer(GivenListener)
      BY <3>2 DEF KeptPointer
    <3>4. ws[q] = [req[q] EXCEPT !.pListener = p]
      BY <2>3 DEF Keeping
    <3> QED
      BY <3>1, <3>3, <3>4 DEF Alike
  <2> QED
    BY <2>2, <2>3
<1> QED
  BY <1>1, <1>2

LEMMA KeepingServices ==
  ASSUME ListsOK, RequestsOK
  PROVE  LET ws == Keeping("pService", cfgServices)
         IN /\ ws = [q \in Request |-> ws[q]]
            /\ \A q \in Request :
                 /\ Alike(req[q], ws[q])
                 /\ HoldsService(ws[q]) => ws[q].pService \in KeptPointer(GivenService)
<1> DEFINE ws == Keeping("pService", cfgServices)
<1>1. ws = [q \in Request |-> ws[q]]
  BY DEF Keeping
<1>2. ASSUME NEW q \in Request
      PROVE  /\ Alike(req[q], ws[q])
             /\ HoldsService(ws[q]) => ws[q].pService \in KeptPointer(GivenService)
  <2>1. req[q] \in RequestState
    BY DEF RequestsOK
  <2>2. CASE "pService" \notin DOMAIN req[q]
    <3>1. ws[q] = req[q]
      BY <2>2 DEF Keeping
    <3> QED
      BY <2>1, <2>2, <3>1, PointerFields DEF Alike
  <2>3. CASE "pService" \in DOMAIN req[q]
    <3>1. HoldsService(req[q]) /\ req[q].pService \in Pointer(GivenService)
      BY <2>1, <2>3, PointerFields
    <3>2. Deref(cfgServices, req[q].pService) \in GivenService
      BY <3>1, DerefIn DEF ListsOK, RequestsOK
    <3> DEFINE p == [kept |-> TRUE, element |-> Deref(cfgServices, req[q].pService)]
    <3>3. p \in KeptPointer(GivenService)
      BY <3>2 DEF KeptPointer
    <3>4. ws[q] = [req[q] EXCEPT !.pService = p]
      BY <2>3 DEF Keeping
    <3>5. ws[q].pService = p
      BY <2>3, <3>4
    <3> QED
      BY <3>1, <3>3, <3>4, <3>5 DEF Alike
  <2> QED
    BY <2>2, <2>3
<1> QED
  BY <1>1, <1>2

LEMMA SavedMoves ==
  ASSUME ListsOK, RequestsOK, NEW r \in Request, NEW ws, NEW saves, NEW next, NEW failed,
         ws = req \/ ws = Keeping("pListener", cfgListeners)
           \/ ws = Keeping("pService", cfgServices),
         AfterSave(r, ws, saves, next, failed)
  PROVE  Moves(r, next) \/ Moves(r, failed)
<1>1. req = [q \in Request |-> req[q]]
  BY DEF RequestsOK
<1>2. ws = [q \in Request |-> ws[q]] /\ \A q \in Request : Alike(req[q], ws[q])
  BY <1>1, KeepingListeners, KeepingServices DEF Alike
<1> DEFINE F == [q \in Request |-> ws[q]]
<1>3. req' = [F EXCEPT ![r] = next] \/ req' = [F EXCEPT ![r] = failed]
  BY <1>2 DEF AfterSave
<1>4. ASSUME NEW x, req' = [F EXCEPT ![r] = x]
      PROVE  Moves(r, x)
  <2>1. req' = [q \in Request |-> req'[q]] /\ req'[r] = x
        /\ \A q \in Request \ {r} : req'[q] = ws[q]
    BY <1>4
  <2> QED
    BY <1>2, <2>1 DEF Moves
<1> QED
  BY <1>3, <1>4

LEMMA RequestsMove ==
  ASSUME ListsOK, RequestsOK, ListsOK', NEW r \in Request, NEW x \in RequestState, Moves(r, x),
         Stays(cfgListeners, cfgListeners'),
         Stays(cfgServices, cfgServices')
           \/ \A q \in Request : HoldsService(req'[q]) => req'[q].pService \in KeptPointer(GivenService),
         HoldsListener(x) => Leads(cfgListeners, x.pListener) \/ Leads(cfgListeners', x.pListener),
         HoldsService(x) => Leads(cfgServices, x.pService) \/ Leads(cfgServices', x.pService)
  PROVE  RequestsOK'
<1>1. req \in [Request -> RequestState]
  BY DEF RequestsOK
<1>2. Len(cfgListeners.cells) \in Nat /\ Len(cfgListeners'.cells) \in Nat
      /\ Len(cfgServices.cells) \in Nat /\ Len(cfgServices'.cells) \in Nat
  BY SliceFacts DEF ListsOK
<1>3. ASSUME NEW p, Leads(cfgListeners, p)
      PROVE  Leads(cfgListeners', p)
  <2>1. p \in IndexPointer => p.at \in Nat
    BY DEF IndexPointer
  <2> QED
    BY <1>2, <1>3, <2>1 DEF Leads, Stays
<1>4. ASSUME NEW p, Leads(cfgServices, p), Stays(cfgServices, cfgServices')
      PROVE  Leads(cfgServices', p)
  <2>1. p \in IndexPointer => p.at \in Nat
    BY DEF IndexPointer
  <2> QED
    BY <1>2, <1>4, <2>1 DEF Leads, Stays
<1>5. ASSUME NEW q \in Request
      PROVE  /\ req'[q] \in RequestState
             /\ HoldsListener(req'[q]) => Leads(cfgListeners', req'[q].pListener)
             /\ HoldsService(req'[q]) => Leads(cfgServices', req'[q].pService)
  <2>1. CASE q = r
    <3>1. req'[q] = x
      BY <2>1 DEF Moves
    <3>2. HoldsListener(x) => Leads(cfgListeners', x.pListener)
      BY <1>3
    <3>3. HoldsService(x) => Leads(cfgServices', x.pService)
      <4>1. CASE Stays(cfgServices, cfgServices')
        BY <1>4, <4>1
      <4>2. CASE ~Stays(cfgServices, cfgServices')
        BY <3>1, <4>2, PointerKinds
      <4> QED
        BY <4>1, <4>2
    <3> QED
      BY <3>1, <3>2, <3>3
  <2>2. CASE q # r
    <3> DEFINE y == req'[q]
    <3>1. req[q] \in RequestState /\ Alike(req[q], y)
      BY <1>1, <1>5, <2>2 DEF Moves
    <3>2. /\ y \in RequestState
          /\ \/ y = req[q]
             \/ HoldsListener(y) /\ y.pListener \in KeptPointer(GivenListener)
             \/ HoldsService(y) /\ y.pService \in KeptPointer(GivenService)
      BY <3>1, AlikeFields
    <3>3. HoldsListener(y) => ~HoldsService(y)
      BY DEF HoldsListener, HoldsService
    <3>4. HoldsListener(y) => Leads(cfgListeners', y.pListener)
      BY <1>3, <3>2, <3>3, PointerKinds DEF RequestsOK
    <3>5. HoldsService(y) => Leads(cfgServices', y.pService)
      BY <1>4, <3>2, <3>3, PointerKinds DEF RequestsOK
    <3> QED
      BY <3>2, <3>4, <3>5
  <2> QED
    BY <2>1, <2>2
<1>6. req' = [q \in Request |-> req'[q]]
  BY DEF Moves
<1>7. req' \in [Request -> RequestState]
  BY <1>5, <1>6
<1> QED
  BY <1>5, <1>7 DEF RequestsOK


-----------------------------------------------------------------------------
(* Steps that bring no identifier into a list *)

Adding == {"addListener", "addDefault"}

(* The lists lose identifiers at most, and the request adds none next. *)
NothingAdded(r) ==
  /\ Shrinks(cfgListeners, cfgListeners') /\ Shrinks(cfgServices, cfgServices')
  /\ unused' = unused
  /\ req'[r].pc \notin Adding
  /\ \A q \in Request \ {r} : Alike(req[q], req'[q])

(* A request that goes on with x leaves the lists alone. *)
Plain(x) == x \in RequestState /\ x.pc \notin Adding

LEMMA QuietStep ==
  ASSUME AdminTypeInv, NEW r \in Request, NEW x, Plain(x), Goto(r, x), UNCHANGED cfgVars,
         HoldsListener(x) => Leads(cfgListeners, x.pListener),
         HoldsService(x) => Leads(cfgServices, x.pService)
  PROVE  AdminTypeInv' /\ NothingAdded(r)
<1>1. Moves(r, x)
  BY GotoMoves DEF AdminTypeInv
<1>2. cfgListeners' = cfgListeners /\ cfgServices' = cfgServices /\ unused' = unused
  BY DEF cfgVars
<1>3. Len(cfgListeners.cells) \in Nat /\ Len(cfgServices.cells) \in Nat
  BY SliceFacts DEF AdminTypeInv, ListsOK
<1>4. /\ Stays(cfgListeners, cfgListeners') /\ Stays(cfgServices, cfgServices')
      /\ Shrinks(cfgListeners, cfgListeners') /\ Shrinks(cfgServices, cfgServices')
  BY <1>2, <1>3 DEF Stays, Shrinks
<1>5. ListsOK'
  BY <1>2 DEF AdminTypeInv, ListsOK
<1>6. RequestsOK'
  BY <1>1, <1>4, <1>5, RequestsMove DEF AdminTypeInv, Plain
<1> QED
  BY <1>1, <1>2, <1>4, <1>5, <1>6 DEF AdminTypeInv, NothingAdded, Moves, Plain

(* The same with a change of the lists. *)
LEMMA ListStep ==
  ASSUME AdminTypeInv, NEW r \in Request, NEW x, Plain(x), Moves(r, x), unused' = unused,
         ListsOK', Stays(cfgListeners, cfgListeners'), Stays(cfgServices, cfgServices'),
         Shrinks(cfgListeners, cfgListeners'), Shrinks(cfgServices, cfgServices'),
         HoldsListener(x) => Leads(cfgListeners, x.pListener),
         HoldsService(x) => Leads(cfgServices, x.pService) \/ Leads(cfgServices', x.pService)
  PROVE  AdminTypeInv' /\ NothingAdded(r)
<1>1. RequestsOK'
  BY RequestsMove DEF AdminTypeInv, Plain
<1> QED
  BY <1>1 DEF AdminTypeInv, NothingAdded, Moves, Plain

LEMMA UnchangedList ==
  ASSUME NEW E, NEW s \in SliceOf(E), NEW t, t = s
  PROVE  t \in SliceOf(E) /\ Stays(s, t) /\ Shrinks(s, t)
<1>1. Len(s.cells) \in Nat
  BY SliceFacts
<1> QED
  BY <1>1 DEF Stays, Shrinks

LEMMA StartingStates ==
  /\ \A x \in Starting : Plain(x) /\ ~HoldsListener(x) /\ ~HoldsService(x)
  /\ Idle \in Starting
  /\ \A todo \in Seq(ListenersGiven) : StartAll(todo) \in Starting
  /\ \A e \in GivenListener : Start1(e) \in Starting /\ AsListener(e) \in ListenersGiven
<1>1. \A x \in Starting : Plain(x) /\ ~HoldsListener(x) /\ ~HoldsService(x)
  BY DEF Starting, IdleState, SnapshotState, RequestState, HoldsListener, HoldsService, Adding, Plain
<1>2. Idle \in Starting
  BY IdleIsIdle DEF Starting
<1>3. ASSUME NEW todo \in Seq(ListenersGiven)
      PROVE  StartAll(todo) \in Starting
  <2>1. CASE todo = <<>>
    BY <1>2, <2>1 DEF StartAll
  <2>2. CASE todo # <<>>
    <3>1. Head(todo) \in ListenersGiven /\ Tail(todo) \in Seq(ListenersGiven)
      BY <2>2
    <3> QED
      BY <2>2, <3>1 DEF StartAll, Starting, SnapshotState
  <2> QED
    BY <2>1, <2>2
<1>4. ASSUME NEW e \in GivenListener
      PROVE  Start1(e) \in Starting /\ AsListener(e) \in ListenersGiven
  <2>1. AsListener(e) \in ListenersGiven
    BY DEF GivenListener
  <2>2. <<AsListener(e)>> \in Seq(ListenersGiven)
    BY <2>1
  <2> QED
    BY <1>3, <2>1, <2>2 DEF Start1
<1> QED
  BY <1>1, <1>2, <1>3, <1>4

LEMMA ReloadStates ==
  ASSUME NEW l \in Listener
  PROVE  Plain(Reload(l)) /\ ~HoldsListener(Reload(l)) /\ ~HoldsService(Reload(l))
  BY DEF Reload, ReloadState, RequestState, HoldsListener, HoldsService, Adding, Plain

LEMMA ServicesByPortGiven ==
  ASSUME ListsOK, NEW l
  PROVE  ServicesByPort(l) \in SUBSET ServicesGiven
<1>1. Elements(cfgServices) \in SUBSET GivenService
  BY ElementsIn DEF ListsOK
<1> QED
  BY <1>1 DEF ServicesByPort, GivenService

-----------------------------------------------------------------------------
(* The listener table: starting, applying and reloading *)

LEMMA StartListenerStep ==
  ASSUME AdminTypeInv, NEW r \in Request, StartListener(r)
  PROVE  AdminTypeInv' /\ [Next]_vars /\ NothingAdded(r)
<1> DEFINE e == req[r].listener
           x == [pc |-> "apply", todo |-> req[r].todo,
                 config |-> [listener |-> e, services |-> ServicesByPort(e.id)]]
<1>1. req[r] \in SnapshotState
  BY RequestShapes DEF AdminTypeInv, RequestsOK, StartListener, At
<1>2. e \in ListenersGiven /\ req[r].todo \in Seq(ListenersGiven)
  BY <1>1 DEF SnapshotState
<1>3. ServicesByPort(e.id) \in SUBSET ServicesGiven
  BY ServicesByPortGiven DEF AdminTypeInv
<1>4. x \in ApplyState
  BY <1>2, <1>3 DEF ApplyState, GivenConfig
<1>5. Goto(r, x) /\ UNCHANGED vars /\ UNCHANGED cfgVars
  BY DEF StartListener
<1>6. x.pc = "apply"
  OBVIOUS
<1> HIDE DEF x
<1>7. Plain(x) /\ ~HoldsListener(x) /\ ~HoldsService(x)
  BY <1>4, <1>6 DEF Plain, Adding, RequestState, HoldsListener, HoldsService
<1> QED
  BY <1>5, <1>7, QuietStep

LEMMA ApplyStep ==
  ASSUME AdminTypeInv, NEW r \in Request, Apply(r)
  PROVE  AdminTypeInv' /\ [Next]_vars /\ NothingAdded(r)
<1>1. req[r] \in ApplyState
  BY RequestShapes DEF AdminTypeInv, RequestsOK, Apply, At
<1>2. req[r].config \in GivenConfig /\ req[r].todo \in Seq(ListenersGiven)
  BY <1>1 DEF ApplyState
<1>3. req[r].config \in Configs
  BY <1>2, GivenEntries
<1>4. Next
  BY <1>3 DEF Apply, Next
<1> DEFINE x == StartAll(req[r].todo)
<1>5. x \in Starting
  BY <1>2, StartingStates
<1>6. Goto(r, x) /\ UNCHANGED cfgVars
  BY DEF Apply
<1> HIDE DEF x
<1>7. Plain(x) /\ ~HoldsListener(x) /\ ~HoldsService(x)
  BY <1>5, StartingStates
<1> QED
  BY <1>4, <1>6, <1>7, QuietStep

LEMMA ReloadListenerStep ==
  ASSUME AdminTypeInv, NEW r \in Request, ReloadListener(r)
  PROVE  AdminTypeInv' /\ [Next]_vars /\ NothingAdded(r)
<1> DEFINE l == req[r].portID
           x == IF HasListener(l) THEN Start1(Element(cfgListeners, l)) ELSE Idle
<1>1. x \in Starting
  <2>1. CASE HasListener(l)
    <3>1. Element(cfgListeners, l) \in GivenListener
      BY <2>1, ElementsIn DEF HasListener, AdminTypeInv, ListsOK
    <3> QED
      BY <2>1, <3>1, StartingStates
  <2> QED
    BY <2>1, StartingStates
<1>2. Goto(r, x) /\ UNCHANGED vars /\ UNCHANGED cfgVars
  BY DEF ReloadListener
<1> HIDE DEF x
<1>3. Plain(x) /\ ~HoldsListener(x) /\ ~HoldsService(x)
  BY <1>1, StartingStates
<1> QED
  BY <1>2, <1>3, QuietStep


-----------------------------------------------------------------------------
(* Handlers of listeners: steps that leave the lists alone *)

LEMMA StoppedStep ==
  ASSUME AdminTypeInv, NEW r \in Request, NEW l \in Listener, NEW next, NEW failed,
         Stopped(r, l, next, failed), UNCHANGED cfgVars, Plain(next), Plain(failed),
         HoldsListener(next) => Leads(cfgListeners, next.pListener), ~HoldsService(next),
         HoldsListener(failed) => Leads(cfgListeners, failed.pListener), ~HoldsService(failed)
  PROVE  AdminTypeInv' /\ [Next]_vars /\ NothingAdded(r)
<1>1. Next
  BY DEF Stopped, Next
<1>2. Goto(r, next) \/ Goto(r, failed)
  BY DEF Stopped
<1> QED
  BY <1>1, <1>2, QuietStep

(* A body that fits keeps its identifier when its port is occupied. *)
LEMMA Requested ==
  ASSUME NEW e \in GivenListener
  PROVE  [e EXCEPT !.enabled = @ /\ ~PortOccupied(e)] \in GivenListener
<1> DEFINE on == e.enabled /\ ~PortOccupied(e)
<1>1. on \in BOOLEAN
  BY DEF GivenListener, ListenerEntry
<1>2. [e EXCEPT !.enabled = @ /\ ~PortOccupied(e)] = [e EXCEPT !.enabled = on]
  BY Zenon
<1> HIDE DEF on
<1> QED
  BY <1>1, <1>2, Switched

LEMMA UpdateListenerStep ==
  ASSUME AdminTypeInv, NEW r \in Request, UpdateListener(r)
  PROVE  AdminTypeInv' /\ [Next]_vars /\ NothingAdded(r)
<1>1. PICK e \in ListenerBodies :
        /\ HasListener(e.id)
        /\ Goto(r, [pc |-> "saveUpdated",
                    pListener |-> PointerTo(IndexOf(cfgListeners, e.id)),
                    listener |-> [e EXCEPT !.enabled = @ /\ ~PortOccupied(e)]])
  BY DEF UpdateListener
<1>2. PICK p : p = PointerTo(IndexOf(cfgListeners, e.id))
  OBVIOUS
<1>3. PICK n : n = [e EXCEPT !.enabled = @ /\ ~PortOccupied(e)]
  OBVIOUS
<1>4. p \in IndexPointer /\ Leads(cfgListeners, p)
  BY <1>1, <1>2, ElementsIn DEF HasListener, AdminTypeInv, ListsOK
<1>5. n \in GivenListener
  BY <1>3, GivenEntries, Requested
<1> DEFINE x == [pc |-> "saveUpdated", pListener |-> p, listener |-> n]
<1>6. Goto(r, x) /\ UNCHANGED vars /\ UNCHANGED cfgVars
  BY <1>1, <1>2, <1>3 DEF UpdateListener
<1>7. x \in UpdateState /\ x.pc = "saveUpdated" /\ x.pListener = p
  BY <1>4, <1>5 DEF UpdateState, Pointer
<1> HIDE DEF x
<1>8. Plain(x) /\ ~HoldsService(x)
  BY <1>7 DEF Plain, Adding, RequestState, HoldsService
<1> QED
  BY <1>4, <1>6, <1>7, <1>8, QuietStep

LEMMA UpdatedStartsStep ==
  ASSUME AdminTypeInv, NEW r \in Request, UpdatedStarts(r)
  PROVE  AdminTypeInv' /\ [Next]_vars /\ NothingAdded(r)
<1>1. req[r] \in UpdateState
  BY RequestShapes DEF AdminTypeInv, RequestsOK, UpdatedStarts, At
<1> DEFINE x == Start1(req[r].listener)
<1>2. x \in Starting
  BY <1>1, StartingStates DEF UpdateState
<1>3. Goto(r, x) /\ UNCHANGED vars /\ UNCHANGED cfgVars
  BY DEF UpdatedStarts
<1> HIDE DEF x
<1>4. Plain(x) /\ ~HoldsListener(x) /\ ~HoldsService(x)
  BY <1>2, StartingStates
<1> QED
  BY <1>3, <1>4, QuietStep

LEMMA UpdatedStopsStep ==
  ASSUME AdminTypeInv, NEW r \in Request, UpdatedStops(r)
  PROVE  AdminTypeInv' /\ [Next]_vars /\ NothingAdded(r)
<1>1. req[r] \in UpdateState
  BY RequestShapes DEF AdminTypeInv, RequestsOK, UpdatedStops, At
<1>2. req[r].listener.id \in Listener
  BY <1>1 DEF UpdateState, GivenListener, ListenerEntry
<1>3. Plain(Idle) /\ ~HoldsListener(Idle) /\ ~HoldsService(Idle)
  BY StartingStates
<1>4. UNCHANGED cfgVars
      /\ (Stopped(r, req[r].listener.id, Idle, Idle) \/ (Goto(r, Idle) /\ UNCHANGED vars))
  BY DEF UpdatedStops
<1>5. CASE Stopped(r, req[r].listener.id, Idle, Idle)
  BY <1>2, <1>3, <1>4, <1>5, StoppedStep
<1>6. CASE Goto(r, Idle) /\ UNCHANGED vars
  BY <1>3, <1>4, <1>6, QuietStep
<1> QED
  BY <1>4, <1>5, <1>6

LEMMA DeleteListenerStep ==
  ASSUME AdminTypeInv, NEW r \in Request, DeleteListener(r)
  PROVE  AdminTypeInv' /\ [Next]_vars /\ NothingAdded(r)
<1>1. PICK l \in IdsOf(cfgListeners) :
        Goto(r, [pc |-> IF Element(cfgListeners, l).enabled THEN "stopDeleted" ELSE "delete",
                 id |-> l])
  BY DEF DeleteListener
<1>2. PICK pc : pc = (IF Element(cfgListeners, l).enabled THEN "stopDeleted" ELSE "delete")
  OBVIOUS
<1>3. pc \in {"stopDeleted", "delete"}
  BY <1>2
<1>4. l \in Listener
  BY <1>1, ElementsIn DEF AdminTypeInv, ListsOK, GivenListener, ListenerEntry
<1> DEFINE x == [pc |-> pc, id |-> l]
<1>5. Goto(r, x) /\ UNCHANGED vars /\ UNCHANGED cfgVars
  BY <1>1, <1>2 DEF DeleteListener
<1>6. x \in DeleteState /\ x.pc = pc
  BY <1>3, <1>4 DEF DeleteState
<1> HIDE DEF x
<1>7. Plain(x) /\ ~HoldsService(x) /\ ~HoldsListener(x)
  BY <1>3, <1>6 DEF Plain, Adding, RequestState, HoldsService, HoldsListener
<1> QED
  BY <1>5, <1>7, QuietStep

LEMMA StopDeletedStep ==
  ASSUME AdminTypeInv, NEW r \in Request, StopDeleted(r)
  PROVE  AdminTypeInv' /\ [Next]_vars /\ NothingAdded(r)
<1>1. req[r] \in DeleteState
  BY RequestShapes DEF AdminTypeInv, RequestsOK, StopDeleted, At
<1> DEFINE x == [req[r] EXCEPT !.pc = "delete"]
<1>2. req[r].id \in Listener /\ x \in DeleteState /\ x.pc = "delete"
  BY <1>1 DEF DeleteState
<1>3. Stopped(r, req[r].id, x, x) /\ UNCHANGED cfgVars
  BY DEF StopDeleted
<1> HIDE DEF x
<1>4. Plain(x) /\ ~HoldsService(x) /\ ~HoldsListener(x)
  BY <1>2 DEF Plain, Adding, RequestState, HoldsService, HoldsListener
<1> QED
  BY <1>2, <1>3, <1>4, StoppedStep

LEMMA ToggleListenerStep ==
  ASSUME AdminTypeInv, NEW r \in Request, ToggleListener(r)
  PROVE  AdminTypeInv' /\ [Next]_vars /\ NothingAdded(r)
<1>1. PICK l \in IdsOf(cfgListeners) :
        Goto(r, [pc |-> "toggle", id |-> l, pListener |-> PointerTo(IndexOf(cfgListeners, l))])
  BY DEF ToggleListener
<1>2. PICK p : p = PointerTo(IndexOf(cfgListeners, l))
  OBVIOUS
<1>3. p \in IndexPointer /\ Leads(cfgListeners, p)
  BY <1>2, ElementsIn DEF AdminTypeInv, ListsOK
<1>4. l \in Listener
  BY <1>1, ElementsIn DEF AdminTypeInv, ListsOK, GivenListener, ListenerEntry
<1> DEFINE x == [pc |-> "toggle", id |-> l, pListener |-> p]
<1>5. Goto(r, x) /\ UNCHANGED vars /\ UNCHANGED cfgVars
  BY <1>1, <1>2 DEF ToggleListener
<1>6. x \in ToggleState /\ x.pc = "toggle" /\ x.pListener = p
  BY <1>3, <1>4 DEF ToggleState, Pointer
<1> HIDE DEF x
<1>7. Plain(x) /\ ~HoldsService(x)
  BY <1>6 DEF Plain, Adding, RequestState, HoldsService
<1> QED
  BY <1>3, <1>5, <1>6, <1>7, QuietStep

LEMMA ToggleOnStep ==
  ASSUME AdminTypeInv, NEW r \in Request, ToggleOn(r)
  PROVE  AdminTypeInv' /\ [Next]_vars /\ NothingAdded(r)
<1>1. req[r] \in ToggleState /\ Leads(cfgListeners, req[r].pListener)
  BY RequestShapes DEF AdminTypeInv, RequestsOK, ToggleOn, At, HoldsListener
<1>2. PICK n : n = [Deref(cfgListeners, req[r].pListener) EXCEPT !.enabled = TRUE]
  OBVIOUS
<1>3. n \in GivenListener
  BY <1>1, <1>2, DerefIn, Switched DEF AdminTypeInv, ListsOK, ToggleState
<1> DEFINE x == [pc |-> "saveOn", listener |-> n]
<1>4. Goto(r, x) /\ UNCHANGED vars /\ UNCHANGED cfgVars
  BY <1>2 DEF ToggleOn
<1>5. x \in OnState /\ x.pc = "saveOn"
  BY <1>3 DEF OnState
<1> HIDE DEF x
<1>6. Plain(x) /\ ~HoldsService(x) /\ ~HoldsListener(x)
  BY <1>5 DEF Plain, Adding, RequestState, HoldsService, HoldsListener
<1> QED
  BY <1>4, <1>6, QuietStep

LEMMA ToggleOffStep ==
  ASSUME AdminTypeInv, NEW r \in Request, ToggleOff(r)
  PROVE  AdminTypeInv' /\ [Next]_vars /\ NothingAdded(r)
<1>1. req[r] \in ToggleState /\ Leads(cfgListeners, req[r].pListener)
  BY RequestShapes DEF AdminTypeInv, RequestsOK, ToggleOff, At, HoldsListener
<1>2. PICK l, p, n : /\ l = req[r].id /\ p = req[r].pListener
                     /\ n = [Deref(cfgListeners, req[r].pListener) EXCEPT !.enabled = FALSE]
  OBVIOUS
<1>3. n \in GivenListener
  BY <1>1, <1>2, DerefIn, Switched DEF AdminTypeInv, ListsOK, ToggleState
<1> DEFINE x == [pc |-> "stopToggled", id |-> l, pListener |-> p, listener |-> n]
<1>4. Goto(r, x) /\ UNCHANGED vars /\ UNCHANGED cfgVars
  BY <1>2 DEF ToggleOff
<1>5. x \in OffState /\ x.pc = "stopToggled" /\ x.pListener = p
  BY <1>1, <1>2, <1>3 DEF OffState, ToggleState
<1> HIDE DEF x
<1>6. Plain(x) /\ ~HoldsService(x)
  BY <1>5 DEF Plain, Adding, RequestState, HoldsService
<1> QED
  BY <1>1, <1>2, <1>4, <1>5, <1>6, QuietStep

LEMMA StopToggledStep ==
  ASSUME AdminTypeInv, NEW r \in Request, StopToggled(r)
  PROVE  AdminTypeInv' /\ [Next]_vars /\ NothingAdded(r)
<1>1. req[r] \in OffState /\ Leads(cfgListeners, req[r].pListener)
  BY RequestShapes DEF AdminTypeInv, RequestsOK, StopToggled, At, HoldsListener
<1> DEFINE x == [req[r] EXCEPT !.pc = "saveOff"]
           y == [req[r] EXCEPT !.pc = "saveUnstopped"]
<1>2. /\ req[r].id \in Listener
      /\ x \in OffState /\ x.pc = "saveOff" /\ x.pListener = req[r].pListener
      /\ y \in OffState /\ y.pc = "saveUnstopped" /\ y.pListener = req[r].pListener
  BY <1>1 DEF OffState
<1>3. Stopped(r, req[r].id, x, y) /\ UNCHANGED cfgVars
  BY DEF StopToggled
<1> HIDE DEF x, y
<1>4. Plain(x) /\ ~HoldsService(x) /\ Plain(y) /\ ~HoldsService(y)
  BY <1>2 DEF Plain, Adding, RequestState, HoldsService
<1> QED
  BY <1>1, <1>2, <1>3, <1>4, StoppedStep

LEMMA ReloadRequestedStep ==
  ASSUME AdminTypeInv, NEW r \in Request, ReloadRequested(r) \/ ReorderServices(r)
  PROVE  AdminTypeInv' /\ [Next]_vars /\ NothingAdded(r)
<1>1. PICK e \in Elements(cfgListeners) : Goto(r, Reload(e.id)) \/ Goto(r, Start1(e))
  BY DEF ReloadRequested, ReorderServices
<1>2. e \in GivenListener
  BY ElementsIn DEF AdminTypeInv, ListsOK
<1>3. e.id \in Listener
  BY <1>2 DEF GivenListener, ListenerEntry
<1>4. UNCHANGED vars /\ UNCHANGED cfgVars
  BY DEF ReloadRequested, ReorderServices
<1>5. PICK x : Goto(r, x) /\ (x = Reload(e.id) \/ x = Start1(e))
  BY <1>1
<1>6. Plain(x) /\ ~HoldsListener(x) /\ ~HoldsService(x)
  BY <1>2, <1>3, <1>5, StartingStates, ReloadStates
<1> QED
  BY <1>4, <1>5, <1>6, QuietStep

LEMMA RestartStep ==
  ASSUME AdminTypeInv, NEW r \in Request, Restart(r)
  PROVE  AdminTypeInv' /\ [Next]_vars /\ NothingAdded(r)
<1> DEFINE x == [pc |-> "start"]
<1>1. Goto(r, x) /\ Next /\ UNCHANGED cfgVars
  BY DEF Restart, Next
<1>2. x \in StartState /\ x.pc = "start"
  BY DEF StartState
<1> HIDE DEF x
<1>3. Plain(x) /\ ~HoldsService(x) /\ ~HoldsListener(x)
  BY <1>2 DEF Plain, Adding, RequestState, HoldsService, HoldsListener
<1> QED
  BY <1>1, <1>3, QuietStep

LEMMA StartConfiguredStep ==
  ASSUME AdminTypeInv, NEW r \in Request, StartConfigured(r)
  PROVE  AdminTypeInv' /\ [Next]_vars /\ NothingAdded(r)
<1> DEFINE I == {i \in 1 .. cfgListeners.len : cfgListeners.cells[i].enabled}
           chosen == Selected(cfgListeners, I)
           x == StartAll(EnabledListeners)
<1>1. I \in SUBSET (1 .. cfgListeners.len)
  OBVIOUS
<1> HIDE DEF I
<1>2. chosen \in Seq(GivenListener)
  BY <1>1, SelectedIn DEF AdminTypeInv, ListsOK
<1>3. EnabledListeners = [i \in 1 .. Len(chosen) |-> AsListener(chosen[i])]
  BY DEF EnabledListeners, I
<1> HIDE DEF chosen
<1>4. \A i \in 1 .. Len(chosen) : AsListener(chosen[i]) \in ListenersGiven
  BY <1>2, StartingStates
<1>5. EnabledListeners \in Seq(ListenersGiven)
  BY <1>2, <1>3, <1>4
<1>6. x \in Starting
  BY <1>5, StartingStates
<1>7. Goto(r, x) /\ UNCHANGED vars /\ UNCHANGED cfgVars
  BY DEF StartConfigured
<1> HIDE DEF x
<1>8. Plain(x) /\ ~HoldsListener(x) /\ ~HoldsService(x)
  BY <1>6, StartingStates
<1> QED
  BY <1>7, <1>8, QuietStep


-----------------------------------------------------------------------------
(* Handlers of services: steps that leave the lists alone *)

LEMMA UpdateServiceStep ==
  ASSUME AdminTypeInv, NEW r \in Request, UpdateService(r)
  PROVE  AdminTypeInv' /\ [Next]_vars /\ NothingAdded(r)
<1>1. PICK e \in ServiceBodies :
        Goto(r, [pc |-> "saveService", service |-> e,
                 reload |-> ~ \E x \in Elements(cfgListeners) : x.id = e.portID /\ ~x.enabled])
  BY DEF UpdateService
<1>2. PICK b \in BOOLEAN :
        b = ~ \E x \in Elements(cfgListeners) : x.id = e.portID /\ ~x.enabled
  OBVIOUS
<1> DEFINE x == [pc |-> "saveService", service |-> e, reload |-> b]
<1>3. Goto(r, x) /\ UNCHANGED vars /\ UNCHANGED cfgVars
  BY <1>1, <1>2 DEF UpdateService
<1>4. x \in ServiceState /\ x.pc = "saveService"
  BY GivenEntries DEF ServiceState
<1> HIDE DEF x
<1>5. Plain(x) /\ ~HoldsService(x) /\ ~HoldsListener(x)
  BY <1>4 DEF Plain, Adding, RequestState, HoldsService, HoldsListener
<1> QED
  BY <1>3, <1>5, QuietStep

LEMMA DeleteServiceStep ==
  ASSUME AdminTypeInv, NEW r \in Request, DeleteService(r)
  PROVE  AdminTypeInv' /\ [Next]_vars /\ NothingAdded(r)
<1>1. PICK s \in IdsOf(cfgServices) :
        Goto(r, [pc |-> "deleteService", id |-> s,
                 pService |-> PointerTo(IndexOf(cfgServices, s))])
  BY DEF DeleteService
<1>2. PICK p : p = PointerTo(IndexOf(cfgServices, s))
  OBVIOUS
<1>3. p \in IndexPointer /\ Leads(cfgServices, p)
  BY <1>2, ElementsIn DEF AdminTypeInv, ListsOK
<1>4. s \in Service
  BY <1>1, ElementsIn DEF AdminTypeInv, ListsOK, GivenService, ServiceEntry
<1> DEFINE x == [pc |-> "deleteService", id |-> s, pService |-> p]
<1>5. Goto(r, x) /\ UNCHANGED vars /\ UNCHANGED cfgVars
  BY <1>1, <1>2 DEF DeleteService
<1>6. x \in RemoveState /\ x.pc = "deleteService" /\ x.pService = p
  BY <1>3, <1>4 DEF RemoveState, Pointer
<1> HIDE DEF x
<1>7. Plain(x) /\ ~HoldsListener(x)
  BY <1>6 DEF Plain, Adding, RequestState, HoldsListener
<1> QED
  BY <1>3, <1>5, <1>6, <1>7, QuietStep

LEMMA ReloadPointedStep ==
  ASSUME AdminTypeInv, NEW r \in Request, ReloadPointed(r)
  PROVE  AdminTypeInv' /\ [Next]_vars /\ NothingAdded(r)
<1>1. req[r] \in PointedState /\ Leads(cfgServices, req[r].pService)
  BY RequestShapes DEF AdminTypeInv, RequestsOK, ReloadPointed, At, HoldsService
<1>2. PICK l : l = Deref(cfgServices, req[r].pService).portID
  OBVIOUS
<1>3. Deref(cfgServices, req[r].pService) \in GivenService
  BY <1>1, DerefIn DEF AdminTypeInv, ListsOK, PointedState
<1>4. l \in Listener
  BY <1>2, <1>3 DEF GivenService, ServiceEntry
<1>5. Goto(r, Reload(l)) /\ UNCHANGED vars /\ UNCHANGED cfgVars
  BY <1>2 DEF ReloadPointed
<1>6. PICK x : x = Reload(l)
  OBVIOUS
<1>7. Plain(x) /\ ~HoldsListener(x) /\ ~HoldsService(x)
  BY <1>4, <1>6, ReloadStates
<1> QED
  BY <1>5, <1>6, <1>7, QuietStep

-----------------------------------------------------------------------------
(* Steps that overwrite or delete an entry *)

LEMMA UpdatedList ==
  ASSUME ListsOK, NEW e \in GivenListener
  PROVE  /\ Updated(e) \in SliceOf(GivenListener)
         /\ Stays(cfgListeners, Updated(e)) /\ Shrinks(cfgListeners, Updated(e))
<1>1. cfgListeners \in SliceOf(GivenListener)
  BY DEF ListsOK
<1>2. CASE HasListener(e.id)
  <2>1. PICK i \in 1 .. cfgListeners.len :
          i = IndexOf(cfgListeners, e.id) /\ cfgListeners.cells[i].id = e.id
    BY <1>1, <1>2, IndexOfFirst DEF HasListener
  <2>2. Updated(e) = SetElement(cfgListeners, i, e)
    BY <1>2, <2>1 DEF Updated
  <2> QED
    BY <1>1, <2>1, <2>2, SetShrinks
<1>3. CASE ~HasListener(e.id)
  <2>1. Updated(e) = cfgListeners
    BY <1>3 DEF Updated
  <2> QED
    BY <1>1, <2>1, UnchangedList
<1> QED
  BY <1>2, <1>3

LEMMA UpdatedServiceList ==
  ASSUME ListsOK, NEW e \in GivenService
  PROVE  /\ UpdatedService(e) \in SliceOf(GivenService)
         /\ Stays(cfgServices, UpdatedService(e)) /\ Shrinks(cfgServices, UpdatedService(e))
<1>1. cfgServices \in SliceOf(GivenService)
  BY DEF ListsOK
<1>2. CASE HasService(e.id)
  <2>1. PICK i \in 1 .. cfgServices.len :
          i = IndexOf(cfgServices, e.id) /\ cfgServices.cells[i].id = e.id
    BY <1>1, <1>2, IndexOfFirst DEF HasService
  <2>2. UpdatedService(e) = SetElement(cfgServices, i, e)
    BY <1>2, <2>1 DEF UpdatedService
  <2> QED
    BY <1>1, <2>1, <2>2, SetShrinks
<1>3. CASE ~HasService(e.id)
  <2>1. UpdatedService(e) = cfgServices
    BY <1>3 DEF UpdatedService
  <2> QED
    BY <1>1, <2>1, UnchangedList
<1> QED
  BY <1>2, <1>3

(* A step that stores a listener. *)
LEMMA ListenerSaved ==
  ASSUME AdminTypeInv, NEW r \in Request, NEW e \in GivenListener, cfgListeners' = Updated(e),
         NEW x, Plain(x), Moves(r, x), UNCHANGED <<vars, cfgServices, unused>>,
         HoldsListener(x) => Leads(cfgListeners, x.pListener), ~HoldsService(x)
  PROVE  AdminTypeInv' /\ [Next]_vars /\ NothingAdded(r)
<1>1. /\ cfgListeners' \in SliceOf(GivenListener)
      /\ Stays(cfgListeners, cfgListeners') /\ Shrinks(cfgListeners, cfgListeners')
  BY UpdatedList DEF AdminTypeInv
<1>2. /\ cfgServices' \in SliceOf(GivenService)
      /\ Stays(cfgServices, cfgServices') /\ Shrinks(cfgServices, cfgServices')
  BY UnchangedList DEF AdminTypeInv, ListsOK
<1> QED
  BY <1>1, <1>2, ListStep DEF ListsOK

(* A step that stores a service, or otherwise changes the list of services *)
(* without bringing one into it.                                           *)
LEMMA ServiceSaved ==
  ASSUME AdminTypeInv, NEW r \in Request, cfgServices' \in SliceOf(GivenService),
         Stays(cfgServices, cfgServices'), Shrinks(cfgServices, cfgServices'),
         NEW x, Plain(x), Moves(r, x), UNCHANGED <<vars, cfgListeners, unused>>,
         HoldsService(x) => Leads(cfgServices, x.pService) \/ Leads(cfgServices', x.pService),
         ~HoldsListener(x)
  PROVE  AdminTypeInv' /\ [Next]_vars /\ NothingAdded(r)
<1>1. /\ cfgListeners' \in SliceOf(GivenListener)
      /\ Stays(cfgListeners, cfgListeners') /\ Shrinks(cfgListeners, cfgListeners')
  BY UnchangedList DEF AdminTypeInv, ListsOK
<1> QED
  BY <1>1, ListStep DEF ListsOK

LEMMA SaveUpdatedStep ==
  ASSUME AdminTypeInv, NEW r \in Request, SaveUpdated(r)
  PROVE  AdminTypeInv' /\ [Next]_vars /\ NothingAdded(r)
<1>1. req[r] \in UpdateState /\ Leads(cfgListeners, req[r].pListener)
  BY RequestShapes DEF AdminTypeInv, RequestsOK, SaveUpdated, At, HoldsListener
<1> DEFINE x == [req[r] EXCEPT !.pc = "updated"]
<1>2. x \in UpdateState /\ x.pc = "updated" /\ x.pListener = req[r].pListener
  BY <1>1 DEF UpdateState
<1>3. AfterSave(r, req, HasListener(req[r].listener.id), x, Idle)
  BY DEF SaveUpdated
<1> HIDE DEF x
<1>4. Moves(r, x) \/ Moves(r, Idle)
  BY <1>3, SavedMoves DEF AdminTypeInv
<1>5. PICK y : Moves(r, y) /\ (y = x \/ y = Idle)
  BY <1>4
<1>6. Plain(y) /\ ~HoldsService(y) /\ (HoldsListener(y) => Leads(cfgListeners, y.pListener))
  BY <1>1, <1>2, <1>5, StartingStates DEF Plain, Adding, RequestState, HoldsService
<1>7. req[r].listener \in GivenListener /\ cfgListeners' = Updated(req[r].listener)
      /\ UNCHANGED <<vars, cfgServices, unused>>
  BY <1>1 DEF UpdateState, SaveUpdated
<1> QED
  BY <1>5, <1>6, <1>7, ListenerSaved

LEMMA SaveOnStep ==
  ASSUME AdminTypeInv, NEW r \in Request, SaveOn(r)
  PROVE  AdminTypeInv' /\ [Next]_vars /\ NothingAdded(r)
<1>1. req[r] \in OnState
  BY RequestShapes DEF AdminTypeInv, RequestsOK, SaveOn, At
<1>2. req[r].listener \in GivenListener /\ cfgListeners' = Updated(req[r].listener)
      /\ UNCHANGED <<vars, cfgServices, unused>>
  BY <1>1 DEF OnState, SaveOn
<1>3. Moves(r, Start1(req[r].listener)) \/ Moves(r, Idle)
  BY SavedMoves DEF SaveOn, AdminTypeInv
<1>4. PICK y : Moves(r, y) /\ y \in Starting
  BY <1>2, <1>3, StartingStates
<1>5. Plain(y) /\ ~HoldsService(y) /\ ~HoldsListener(y)
  BY <1>4, StartingStates
<1> QED
  BY <1>2, <1>4, <1>5, ListenerSaved

LEMMA SaveOffStep ==
  ASSUME AdminTypeInv, NEW r \in Request, SaveOff(r)
  PROVE  AdminTypeInv' /\ [Next]_vars /\ NothingAdded(r)
<1>1. req[r] \in OffState /\ Leads(cfgListeners, req[r].pListener)
  BY RequestShapes DEF AdminTypeInv, RequestsOK, SaveOff, At, HoldsListener
<1>2. req[r].listener \in GivenListener /\ cfgListeners' = Updated(req[r].listener)
      /\ UNCHANGED <<vars, cfgServices, unused>> /\ req[r].pListener \in Pointer(GivenListener)
  BY <1>1 DEF OffState, SaveOff
<1>3. cfgListeners' \in SliceOf(GivenListener) /\ Stays(cfgListeners, cfgListeners')
  BY <1>2, UpdatedList DEF AdminTypeInv
<1>4. PICK p : p = req[r].pListener
  OBVIOUS
<1>5. Leads(cfgListeners', p)
  <2>1. Len(cfgListeners.cells) \in Nat /\ Len(cfgListeners'.cells) \in Nat
    BY <1>3, SliceFacts DEF AdminTypeInv, ListsOK
  <2>2. p \in IndexPointer => p.at \in Nat
    BY DEF IndexPointer
  <2> QED
    BY <1>1, <1>3, <1>4, <2>1, <2>2 DEF Leads, Stays
<1>6. Deref(cfgListeners', p) \in GivenListener
  BY <1>2, <1>3, <1>4, <1>5, DerefIn
<1>7. Moves(r, Idle) \/ Moves(r, Start1(Deref(cfgListeners', p)))
  BY <1>4, SavedMoves DEF SaveOff, AdminTypeInv
<1>8. PICK y : Moves(r, y) /\ y \in Starting
  BY <1>6, <1>7, StartingStates
<1>9. Plain(y) /\ ~HoldsService(y) /\ ~HoldsListener(y)
  BY <1>8, StartingStates
<1> QED
  BY <1>2, <1>8, <1>9, ListenerSaved

LEMMA SaveUnstoppedStep ==
  ASSUME AdminTypeInv, NEW r \in Request, SaveUnstopped(r)
  PROVE  AdminTypeInv' /\ [Next]_vars /\ NothingAdded(r)
<1>1. req[r] \in OffState
  BY RequestShapes DEF AdminTypeInv, RequestsOK, SaveUnstopped, At
<1>2. req[r].listener \in GivenListener /\ cfgListeners' = Updated(req[r].listener)
      /\ UNCHANGED <<vars, cfgServices, unused>>
  BY <1>1 DEF OffState, SaveUnstopped
<1>3. Moves(r, Idle)
  BY GotoMoves DEF SaveUnstopped, AdminTypeInv
<1>4. Plain(Idle) /\ ~HoldsService(Idle) /\ ~HoldsListener(Idle)
  BY StartingStates
<1> QED
  BY <1>2, <1>3, <1>4, ListenerSaved

LEMMA SaveServiceStep ==
  ASSUME AdminTypeInv, NEW r \in Request, SaveService(r)
  PROVE  AdminTypeInv' /\ [Next]_vars /\ NothingAdded(r)
<1>1. req[r] \in ServiceState
  BY RequestShapes DEF AdminTypeInv, RequestsOK, SaveService, At
<1>2. req[r].service \in GivenService /\ cfgServices' = UpdatedService(req[r].service)
      /\ UNCHANGED <<vars, cfgListeners, unused>>
  BY <1>1 DEF ServiceState, SaveService
<1>3. req[r].service.portID \in Listener
  BY <1>2 DEF GivenService, ServiceEntry
<1>4. /\ cfgServices' \in SliceOf(GivenService)
      /\ Stays(cfgServices, cfgServices') /\ Shrinks(cfgServices, cfgServices')
  BY <1>2, UpdatedServiceList DEF AdminTypeInv
<1>5. Moves(r, IF req[r].reload THEN Reload(req[r].service.portID) ELSE Idle) \/ Moves(r, Idle)
  BY SavedMoves DEF SaveService, AdminTypeInv
<1>6. PICK y : Moves(r, y) /\ (y = Reload(req[r].service.portID) \/ y = Idle)
  BY <1>5
<1>7. Plain(y) /\ ~HoldsService(y) /\ ~HoldsListener(y)
  BY <1>3, <1>6, StartingStates, ReloadStates
<1> QED
  BY <1>2, <1>4, <1>6, <1>7, ServiceSaved

LEMMA PointedGoesOn ==
  ASSUME NEW p \in Pointer(GivenService)
  PROVE  LET x == [pc |-> "reloadPointed", pService |-> p]
         IN Plain(x) /\ ~HoldsListener(x) /\ x.pService = p
<1> DEFINE x == [pc |-> "reloadPointed", pService |-> p]
<1>1. x \in PointedState /\ x.pc = "reloadPointed" /\ x.pService = p
  BY DEF PointedState
<1> HIDE DEF x
<1>2. Plain(x) /\ ~HoldsListener(x) /\ x.pService = p
  BY <1>1 DEF Plain, Adding, RequestState, HoldsListener
<1> QED
  BY <1>2 DEF x

LEMMA RemoveServiceStep ==
  ASSUME AdminTypeInv, NEW r \in Request, RemoveService(r)
  PROVE  AdminTypeInv' /\ [Next]_vars /\ NothingAdded(r)
<1>1. req[r] \in RemoveState /\ Leads(cfgServices, req[r].pService)
  BY RequestShapes DEF AdminTypeInv, RequestsOK, RemoveService, At, HoldsService
<1>2. PICK p \in Pointer(GivenService) : p = req[r].pService
  BY <1>1 DEF RemoveState
<1> DEFINE x == [pc |-> "reloadPointed", pService |-> p]
<1>3. Plain(x) /\ ~HoldsListener(x) /\ x.pService = p
  BY PointedGoesOn
<1>4. AfterSave(r, req, HasService(req[r].id), x, Idle)
  BY <1>2 DEF RemoveService
<1> HIDE DEF x
<1>5. Moves(r, x) \/ Moves(r, Idle)
  BY <1>4, SavedMoves DEF AdminTypeInv
<1>6. PICK y : Moves(r, y) /\ (y = x \/ y = Idle)
  BY <1>5
<1>7. Plain(y) /\ ~HoldsListener(y) /\ (HoldsService(y) => Leads(cfgServices, y.pService))
  BY <1>1, <1>2, <1>3, <1>6, StartingStates
<1>8. /\ cfgServices' \in SliceOf(GivenService)
      /\ Stays(cfgServices, cfgServices') /\ Shrinks(cfgServices, cfgServices')
  <2>1. cfgServices \in SliceOf(GivenService)
    BY DEF AdminTypeInv, ListsOK
  <2>2. CASE HasService(req[r].id)
    <3>1. PICK i \in 1 .. cfgServices.len : i = IndexOf(cfgServices, req[r].id)
      BY <2>1, <2>2, IndexOfFirst DEF HasService
    <3>2. cfgServices' = Remove(cfgServices, i)
      BY <2>2, <3>1 DEF RemoveService
    <3> QED
      BY <2>1, <3>2, RemoveShrinks
  <2>3. CASE ~HasService(req[r].id)
    <3>1. cfgServices' = cfgServices
      BY <2>3 DEF RemoveService
    <3> QED
      BY <2>1, <3>1, UnchangedList
  <2> QED
    BY <2>2, <2>3
<1>9. UNCHANGED <<vars, cfgListeners, unused>>
  BY DEF RemoveService
<1> QED
  BY <1>6, <1>7, <1>8, <1>9, ServiceSaved

LEMMA ToggleServiceStep ==
  ASSUME AdminTypeInv, NEW r \in Request, ToggleService(r)
  PROVE  AdminTypeInv' /\ [Next]_vars /\ NothingAdded(r)
<1>1. PICK s \in IdsOf(cfgServices) :
        Goto(r, [pc |-> "flip", id |-> s, pService |-> PointerTo(IndexOf(cfgServices, s))])
  BY DEF ToggleService
<1>2. PICK p : p = PointerTo(IndexOf(cfgServices, s))
  OBVIOUS
<1>3. p \in IndexPointer /\ Leads(cfgServices, p)
  BY <1>2, ElementsIn DEF AdminTypeInv, ListsOK
<1>4. s \in Service
  BY <1>1, ElementsIn DEF AdminTypeInv, ListsOK, GivenService, ServiceEntry
<1> DEFINE x == [pc |-> "flip", id |-> s, pService |-> p]
<1>5. Goto(r, x) /\ UNCHANGED vars /\ UNCHANGED cfgVars
  BY <1>1, <1>2 DEF ToggleService
<1>6. x \in FlipState /\ x.pc = "flip" /\ x.pService = p
  BY <1>3, <1>4 DEF FlipState, Pointer
<1> HIDE DEF x
<1>7. Plain(x) /\ ~HoldsListener(x)
  BY <1>6 DEF Plain, Adding, RequestState, HoldsListener
<1> QED
  BY <1>3, <1>5, <1>6, <1>7, QuietStep

(* The cell the pointer leads to may lie behind the end of the list. *)
LEMMA FlipShrinks ==
  ASSUME NEW s \in SliceOf(GivenService), NEW i \in 1 .. Len(s.cells), NEW t,
         t = [s EXCEPT !.cells[i].enabled = ~@]
  PROVE  t \in SliceOf(GivenService) /\ Stays(s, t) /\ Shrinks(s, t)
<1>1. /\ s.len \in Nat /\ Len(s.cells) \in Nat /\ s.len <= Len(s.cells)
      /\ s = [cells |-> s.cells, len |-> s.len]
      /\ s.cells \in Seq(GivenService)
      /\ \A k \in 1 .. Len(s.cells) : s.cells[k] \in GivenService
  BY SliceFacts DEF SliceOf
<1>2. PICK e : e = [s.cells[i] EXCEPT !.enabled = ~s.cells[i].enabled]
  OBVIOUS
<1>3. e \in GivenService /\ e.id = s.cells[i].id
  BY <1>1, <1>2, Switched
<1>4. t = SetElement(s, i, e)
  BY <1>2 DEF SetElement
<1>5. CASE i <= s.len
  <2>1. i \in 1 .. s.len
    BY <1>1, <1>5
  <2> QED
    BY <1>3, <1>4, <2>1, SetShrinks
<1>6. CASE ~(i <= s.len)
  <2> DEFINE d == [s.cells EXCEPT ![i] = e]
  <2>1. d \in Seq(GivenService) /\ Len(d) = Len(s.cells)
    BY <1>1, <1>3
  <2>2. \A k \in 1 .. s.len : d[k] = s.cells[k]
    BY <1>1, <1>6
  <2>3. t = [cells |-> d, len |-> s.len]
    BY <1>1, <1>4 DEF SetElement
  <2> HIDE DEF d
  <2>4. t.cells = d /\ t.len = s.len
    BY <2>3
  <2>5. t \in SliceOf(GivenService)
    <3>1. s.len \in Nat /\ s.len <= Len(d)
      BY <1>1, <2>1
    <3>2. [cells |-> d, len |-> s.len] \in SliceOf(GivenService)
      BY <2>1, <3>1 DEF SliceOf
    <3> QED
      BY <2>3, <3>2
  <2>6. IdsOf(t) = IdsOf(s)
    BY <2>2, <2>4 DEF IdsOf, IdSet, Elements
  <2>7. DistinctIds(s) => DistinctIds(t)
    BY <2>2, <2>4 DEF DistinctIds
  <2>8. Stays(s, t)
    BY <1>1, <2>1, <2>4 DEF Stays
  <2> QED
    BY <2>5, <2>6, <2>7, <2>8 DEF Shrinks
<1> QED
  BY <1>5, <1>6

LEMMA FlipListedStep ==
  ASSUME AdminTypeInv, NEW r \in Request, FlipListed(r)
  PROVE  AdminTypeInv' /\ [Next]_vars /\ NothingAdded(r)
<1>1. req[r] \in FlipState /\ Leads(cfgServices, req[r].pService)
  BY RequestShapes DEF AdminTypeInv, RequestsOK, FlipListed, At, HoldsService
<1>2. PICK p \in Pointer(GivenService) : p = req[r].pService
  BY <1>1 DEF FlipState
<1>3. p.kept = FALSE /\ p \in IndexPointer
  BY <1>2 DEF FlipListed, Pointer, KeptPointer, IndexPointer
<1>4. p.at \in Nat \ {0} /\ p.at <= Len(cfgServices.cells)
  BY <1>1, <1>2, <1>3 DEF Leads, IndexPointer
<1>5. cfgServices \in SliceOf(GivenService)
  BY DEF AdminTypeInv, ListsOK
<1>6. p.at \in 1 .. Len(cfgServices.cells)
  BY <1>4, <1>5, SliceFacts
<1>7. cfgServices' = [cfgServices EXCEPT !.cells[p.at].enabled = ~@]
      /\ UNCHANGED <<vars, cfgListeners, unused>>
  BY <1>2 DEF FlipListed
<1>8. /\ cfgServices' \in SliceOf(GivenService)
      /\ Stays(cfgServices, cfgServices') /\ Shrinks(cfgServices, cfgServices')
  BY <1>5, <1>6, <1>7, FlipShrinks
<1> DEFINE x == [req[r] EXCEPT !.pc = "copy"]
<1>9. x \in FlipState /\ x.pc = "copy" /\ x.pService = p
  BY <1>1, <1>2 DEF FlipState
<1>10. Goto(r, x)
  BY DEF FlipListed
<1> HIDE DEF x
<1>11. Plain(x) /\ ~HoldsListener(x)
  BY <1>9 DEF Plain, Adding, RequestState, HoldsListener
<1>12. Moves(r, x)
  BY <1>10, GotoMoves DEF AdminTypeInv
<1> QED
  BY <1>1, <1>2, <1>7, <1>8, <1>9, <1>11, <1>12, ServiceSaved

LEMMA FlipKeptStep ==
  ASSUME AdminTypeInv, NEW r \in Request, FlipKept(r)
  PROVE  AdminTypeInv' /\ [Next]_vars /\ NothingAdded(r)
<1>1. req[r] \in FlipState
  BY RequestShapes DEF AdminTypeInv, RequestsOK, FlipKept, At
<1>2. PICK p \in KeptPointer(GivenService) : p = req[r].pService
  BY <1>1 DEF FlipState, FlipKept, Pointer, IndexPointer
<1>3. p.element \in GivenService
  BY DEF KeptPointer
<1>4. PICK e : e = [p.element EXCEPT !.enabled = ~p.element.enabled]
  OBVIOUS
<1>5. e \in GivenService
  BY <1>3, <1>4, Switched
<1> DEFINE x == [req[r] EXCEPT !.pc = "copy", !.pService.element.enabled = ~@]
           q == [p EXCEPT !.element = e]
<1>6. q \in KeptPointer(GivenService)
  BY <1>5 DEF KeptPointer
<1>7. x = [req[r] EXCEPT !.pc = "copy", !.pService = q]
  BY <1>1, <1>2, <1>4 DEF FlipState
<1>8. Goto(r, x) /\ UNCHANGED vars /\ UNCHANGED cfgVars
  BY DEF FlipKept
<1> HIDE DEF x, q
<1>9. x \in FlipState /\ x.pc = "copy" /\ x.pService = q
  BY <1>1, <1>6, <1>7 DEF FlipState, Pointer
<1>10. Plain(x) /\ ~HoldsListener(x) /\ Leads(cfgServices, x.pService)
  BY <1>6, <1>9, PointerKinds DEF Plain, Adding, RequestState, HoldsListener
<1> QED
  BY <1>8, <1>10, QuietStep

LEMMA CopyToggledStep ==
  ASSUME AdminTypeInv, NEW r \in Request, CopyToggled(r)
  PROVE  AdminTypeInv' /\ [Next]_vars /\ NothingAdded(r)
<1>1. req[r] \in FlipState /\ Leads(cfgServices, req[r].pService)
  BY RequestShapes DEF AdminTypeInv, RequestsOK, CopyToggled, At, HoldsService
<1>2. PICK p \in Pointer(GivenService), s \in Service : p = req[r].pService /\ s = req[r].id
  BY <1>1 DEF FlipState
<1>3. PICK e : e = Deref(cfgServices, p)
  OBVIOUS
<1>4. e \in GivenService
  BY <1>1, <1>2, <1>3, DerefIn DEF AdminTypeInv, ListsOK
<1> DEFINE x == [pc |-> "saveToggled", id |-> s, pService |-> p, service |-> e]
<1>5. Goto(r, x) /\ UNCHANGED vars /\ UNCHANGED cfgVars
  BY <1>2, <1>3 DEF CopyToggled
<1>6. x \in ToggledState /\ x.pc = "saveToggled" /\ x.pService = p
  BY <1>4 DEF ToggledState
<1> HIDE DEF x
<1>7. Plain(x) /\ ~HoldsListener(x)
  BY <1>6 DEF Plain, Adding, RequestState, HoldsListener
<1> QED
  BY <1>1, <1>2, <1>5, <1>6, <1>7, QuietStep

LEMMA SaveToggledStep ==
  ASSUME AdminTypeInv, NEW r \in Request, SaveToggled(r)
  PROVE  AdminTypeInv' /\ [Next]_vars /\ NothingAdded(r)
<1>1. req[r] \in ToggledState /\ Leads(cfgServices, req[r].pService)
  BY RequestShapes DEF AdminTypeInv, RequestsOK, SaveToggled, At, HoldsService
<1>2. PICK p \in Pointer(GivenService), e \in GivenService :
        p = req[r].pService /\ e = req[r].service
  BY <1>1 DEF ToggledState
<1> DEFINE x == [pc |-> "reloadPointed", pService |-> p]
<1>3. Plain(x) /\ ~HoldsListener(x) /\ x.pService = p
  BY PointedGoesOn
<1>4. AfterSave(r, req, HasService(e.id), x, Idle) /\ cfgServices' = UpdatedService(e)
      /\ UNCHANGED <<vars, cfgListeners, unused>>
  BY <1>2 DEF SaveToggled
<1> HIDE DEF x
<1>5. Moves(r, x) \/ Moves(r, Idle)
  BY <1>4, SavedMoves DEF AdminTypeInv
<1>6. PICK y : Moves(r, y) /\ (y = x \/ y = Idle)
  BY <1>5
<1>7. Plain(y) /\ ~HoldsListener(y) /\ (HoldsService(y) => Leads(cfgServices, y.pService))
  BY <1>1, <1>2, <1>3, <1>6, StartingStates
<1>8. /\ cfgServices' \in SliceOf(GivenService)
      /\ Stays(cfgServices, cfgServices') /\ Shrinks(cfgServices, cfgServices')
  BY <1>4, UpdatedServiceList DEF AdminTypeInv
<1> QED
  BY <1>4, <1>6, <1>7, <1>8, ServiceSaved


(* Deleting a listener rebuilds the list of services in a new array: the   *)
(* pointers into the old one keep what they led to.                        *)
LEMMA DeleteFromConfigStep ==
  ASSUME AdminTypeInv, NEW r \in Request, DeleteFromConfig(r)
  PROVE  AdminTypeInv' /\ [Next]_vars /\ NothingAdded(r)
<1>1. cfgListeners \in SliceOf(GivenListener) /\ cfgServices \in SliceOf(GivenService)
      /\ req = [q \in Request |-> req[q]] /\ ListsOK /\ RequestsOK
  BY DEF AdminTypeInv, ListsOK, RequestsOK
<1>2. Plain(Idle) /\ ~HoldsService(Idle) /\ ~HoldsListener(Idle) /\ Idle \in RequestState
  BY StartingStates DEF Plain
<1>3. UNCHANGED vars /\ unused' = unused
  BY DEF DeleteFromConfig
<1>4. CASE HasListener(req[r].id)
  <2> DEFINE I == {i \in 1 .. cfgServices.len : cfgServices.cells[i].portID # req[r].id}
             ws == Keeping("pService", cfgServices)
  <2>1. PICK i \in 1 .. cfgListeners.len : i = IndexOf(cfgListeners, req[r].id)
    BY <1>1, <1>4, IndexOfFirst DEF HasListener
  <2>2. /\ cfgListeners' = Remove(cfgListeners, i)
        /\ cfgServices' = Slice(Selected(cfgServices, I))
        /\ req' = [ws EXCEPT ![r] = Idle]
    BY <1>4, <2>1 DEF DeleteFromConfig
  <2>3. I \in SUBSET (1 .. cfgServices.len)
    OBVIOUS
  <2> HIDE DEF I
  <2>4. /\ cfgListeners' \in SliceOf(GivenListener)
        /\ Stays(cfgListeners, cfgListeners') /\ Shrinks(cfgListeners, cfgListeners')
    BY <1>1, <2>2, RemoveShrinks
  <2>5. cfgServices' \in SliceOf(GivenService) /\ Shrinks(cfgServices, cfgServices')
    BY <1>1, <2>2, <2>3, SelectedIn DEF Shrinks
  <2>6. /\ ws = [q \in Request |-> ws[q]]
        /\ \A q \in Request :
             /\ Alike(req[q], ws[q])
             /\ HoldsService(ws[q]) => ws[q].pService \in KeptPointer(GivenService)
    BY <1>1, KeepingServices
  <2> HIDE DEF ws
  <2> DEFINE F == [q \in Request |-> ws[q]]
  <2>7. req' = [F EXCEPT ![r] = Idle]
    BY <2>2, <2>6
  <2>8. /\ req' = [q \in Request |-> req'[q]] /\ req'[r] = Idle
        /\ \A q \in Request \ {r} : req'[q] = ws[q]
    BY <2>7
  <2> HIDE DEF F
  <2>9. Moves(r, Idle)
    BY <2>6, <2>8 DEF Moves
  <2>10. \A q \in Request : HoldsService(req'[q]) => req'[q].pService \in KeptPointer(GivenService)
    BY <1>2, <2>6, <2>8
  <2>11. ListsOK'
    BY <2>4, <2>5 DEF ListsOK
  <2>12. RequestsOK'
    BY <1>1, <1>2, <2>4, <2>9, <2>10, <2>11, RequestsMove
  <2> QED
    BY <1>2, <1>3, <2>4, <2>5, <2>9, <2>11, <2>12 DEF AdminTypeInv, NothingAdded, Moves, Plain
<1>5. CASE ~HasListener(req[r].id)
  <2>1. Goto(r, Idle) /\ UNCHANGED cfgVars
    BY <1>3, <1>5 DEF DeleteFromConfig, cfgVars
  <2> QED
    BY <1>2, <1>3, <2>1, QuietStep
<1> QED
  BY <1>4, <1>5

-----------------------------------------------------------------------------
(* Identifiers *)

(* Only a request under way to add an entry brings its identifier into a   *)
(* list, or a create request that takes a new one.                         *)
NoneComesBack ==
  /\ \A l \in IdsOf(cfgListeners)' \ IdsOf(cfgListeners) :
       \E r \in Request : At(r, "addListener") /\ req[r].listener.id = l
  /\ \A s \in IdsOf(cfgServices)' \ IdsOf(cfgServices) :
       s \in unused \/ \E r \in Request : At(r, "addDefault") /\ req[r].service.id = s

LEMMA AddersStay ==
  ASSUME RequestsOK, NEW q \in Request, Alike(req[q], req'[q])
  PROVE  AddsListeners(q)' = AddsListeners(q) /\ AddsServices(q)' = AddsServices(q)
<1>1. req[q] \in RequestState
  BY DEF RequestsOK
<1>2. req'[q].pc = req[q].pc /\ (req[q].pc \in Adding => req'[q] = req[q])
  BY <1>1, AlikeFields DEF HoldsListener, HoldsService, Adding
<1> QED
  BY <1>2 DEF AddsListeners, AddsServices, At, Adding

LEMMA UniqueStep ==
  ASSUME UniqueInv, RequestsOK, NEW r \in Request,
         \A q \in Request \ {r} : Alike(req[q], req'[q]),
         DistinctIds(cfgListeners'), DistinctIds(cfgServices'), unused' \subseteq unused,
         IdsOf(cfgListeners') \subseteq IdsOf(cfgListeners) \cup AddsListeners(r),
         IdsOf(cfgServices')
           \subseteq IdsOf(cfgServices) \cup AddsServices(r) \cup (unused \ unused'),
         AddsListeners(r)' \subseteq AddsListeners(r) \cup (unused \ unused'),
         AddsServices(r)' \subseteq AddsServices(r) \cup (unused \ unused'),
         AddsListeners(r)' \cap IdsOf(cfgListeners') = {},
         AddsServices(r)' \cap IdsOf(cfgServices') = {}
  PROVE  UniqueInv'
<1>1. \A q \in Request \ {r} :
        AddsListeners(q)' = AddsListeners(q) /\ AddsServices(q)' = AddsServices(q)
  BY AddersStay
<1>2. unused' \cap IdsOf(cfgListeners') = {} /\ unused' \cap IdsOf(cfgServices') = {}
  BY DEF UniqueInv
<1>3. ASSUME NEW q \in Request \ {r}
      PROVE  /\ AddsListeners(q)' \cap (unused' \cup IdsOf(cfgListeners')) = {}
             /\ AddsServices(q)' \cap (unused' \cup IdsOf(cfgServices')) = {}
             /\ AddsListeners(r)' \cap AddsListeners(q)' = {}
             /\ AddsServices(r)' \cap AddsServices(q)' = {}
  <2>1. AddsListeners(q)' = AddsListeners(q) /\ AddsServices(q)' = AddsServices(q)
    BY <1>1
  <2>2. /\ AddsListeners(q) \cap (unused \cup IdsOf(cfgListeners)) = {}
        /\ AddsServices(q) \cap (unused \cup IdsOf(cfgServices)) = {}
        /\ AddsListeners(r) \cap AddsListeners(q) = {}
        /\ AddsServices(r) \cap AddsServices(q) = {}
    BY DEF UniqueInv
  <2> QED
    BY <2>1, <2>2
<1>4. /\ AddsListeners(r)' \cap (unused' \cup IdsOf(cfgListeners')) = {}
      /\ AddsServices(r)' \cap (unused' \cup IdsOf(cfgServices')) = {}
  <2>1. AddsListeners(r) \cap unused = {} /\ AddsServices(r) \cap unused = {}
    BY DEF UniqueInv
  <2> QED
    BY <2>1
<1>5. \A q \in Request \ {r}, p \in Request \ {r} : q # p =>
        AddsListeners(q)' \cap AddsListeners(p)' = {} /\ AddsServices(q)' \cap AddsServices(p)' = {}
  BY <1>1 DEF UniqueInv
<1> QED
  BY <1>2, <1>3, <1>4, <1>5 DEF UniqueInv

LEMMA NothingAddedIsSafe ==
  ASSUME RequestsOK, NEW r \in Request, NothingAdded(r)
  PROVE  NoneComesBack /\ (UniqueInv => UniqueInv')
<1>1. AddsListeners(r)' = {} /\ AddsServices(r)' = {}
  BY DEF NothingAdded, AddsListeners, AddsServices, At, Adding
<1>2. /\ IdsOf(cfgListeners') \subseteq IdsOf(cfgListeners)
      /\ IdsOf(cfgServices') \subseteq IdsOf(cfgServices)
      /\ DistinctIds(cfgListeners) => DistinctIds(cfgListeners')
      /\ DistinctIds(cfgServices) => DistinctIds(cfgServices')
      /\ unused' = unused /\ \A q \in Request \ {r} : Alike(req[q], req'[q])
  BY DEF NothingAdded, Shrinks
<1>3. NoneComesBack
  BY <1>2 DEF NoneComesBack
<1>4. ASSUME UniqueInv
      PROVE  UniqueInv'
  <2>1. DistinctIds(cfgListeners') /\ DistinctIds(cfgServices')
    BY <1>2, <1>4 DEF UniqueInv
  <2> QED
    BY <1>1, <1>2, <1>4, <2>1, UniqueStep
<1> QED
  BY <1>3, <1>4


-----------------------------------------------------------------------------
(* Steps that create an entry *)

CreateEffect ==
  AdminTypeInv' /\ [Next]_vars /\ (UniqueInv => UniqueInv' /\ NoneComesBack)

LEMMA CreateListenerStep ==
  ASSUME AdminTypeInv, NEW r \in Request, CreateListener(r)
  PROVE  CreateEffect
<1>1. PICK e \in NewListeners, dflt \in {{}} \cup {{s} : s \in ServiceBodies} :
        /\ {e.id} \cup IdSet(dflt) \subseteq unused
        /\ unused' = unused \ ({e.id} \cup IdSet(dflt))
        /\ Goto(r, [pc |-> "addListener", default |-> dflt,
                    listener |-> [e EXCEPT !.enabled = @ /\ ~PortOccupied(e)]])
  BY DEF CreateListener
<1>2. e \in GivenListener /\ dflt \in {{}} \cup {{s} : s \in GivenService}
  BY GivenEntries
<1>3. PICK n : n = [e EXCEPT !.enabled = @ /\ ~PortOccupied(e)]
  OBVIOUS
<1>4. n \in GivenListener /\ n.id = e.id
  <2>1. n \in GivenListener
    BY <1>2, <1>3, Requested
  <2>2. e \in ListenerEntry
    BY <1>2 DEF GivenListener
  <2>3. n.id = e.id
    BY <1>3, <2>2 DEF ListenerEntry
  <2> QED
    BY <2>1, <2>3
<1> DEFINE x == [pc |-> "addListener", default |-> dflt, listener |-> n]
<1>5. x \in AddState /\ x.pc = "addListener" /\ x.default = dflt /\ x.listener.id = e.id
  BY <1>2, <1>4 DEF AddState
<1>6. Goto(r, x)
  BY <1>1, <1>3
<1> HIDE DEF x
<1>7. x \in RequestState /\ ~HoldsListener(x) /\ ~HoldsService(x)
  BY <1>5 DEF RequestState, HoldsListener, HoldsService
<1>8. UNCHANGED vars /\ cfgListeners' = cfgListeners /\ cfgServices' = cfgServices
  BY DEF CreateListener
<1>9. Moves(r, x)
  BY <1>6, GotoMoves DEF AdminTypeInv
<1>10. ListsOK' /\ Stays(cfgListeners, cfgListeners') /\ Stays(cfgServices, cfgServices')
  BY <1>8, UnchangedList DEF AdminTypeInv, ListsOK
<1>11. RequestsOK'
  BY <1>7, <1>9, <1>10, RequestsMove DEF AdminTypeInv
<1>12. AddsListeners(r)' = {e.id} /\ AddsServices(r)' = IdSet(dflt)
  BY <1>5, <1>9 DEF Moves, AddsListeners, AddsServices, At
<1>13. ASSUME UniqueInv
       PROVE  UniqueInv'
  <2>1. e.id \notin IdsOf(cfgListeners) /\ IdSet(dflt) \cap IdsOf(cfgServices) = {}
    BY <1>1, <1>13 DEF UniqueInv
  <2>2. {e.id} \subseteq unused \ unused' /\ IdSet(dflt) \subseteq unused \ unused'
        /\ unused' \subseteq unused
    BY <1>1
  <2>3. \A q \in Request \ {r} : Alike(req[q], req'[q])
    BY <1>9 DEF Moves
  <2>4. DistinctIds(cfgListeners') /\ DistinctIds(cfgServices')
    BY <1>8, <1>13 DEF UniqueInv
  <2> QED
    BY <1>8, <1>12, <1>13, <2>1, <2>2, <2>3, <2>4, UniqueStep DEF AdminTypeInv
<1>14. NoneComesBack
  BY <1>8 DEF NoneComesBack
<1> QED
  BY <1>8, <1>10, <1>11, <1>13, <1>14 DEF CreateEffect, AdminTypeInv

LEMMA AppendedTypes ==
  ASSUME NEW E, NEW s \in SliceOf(E), NEW e \in E
  PROVE  /\ Appended(s, e) \in SliceOf(E) /\ Stays(s, Appended(s, e))
         /\ IdsOf(Appended(s, e)) = IdsOf(s) \cup {e.id}
         /\ DistinctIds(s) /\ e.id \notin IdsOf(s) => DistinctIds(Appended(s, e))
<1>1. Len(s.cells) \in Nat /\ Appended(s, e) \in SliceOf(E)
      /\ Len(Appended(s, e).cells) >= Len(s.cells)
  BY AppendedIn, SliceFacts
<1>2. Len(Appended(s, e).cells) \in Nat
  BY <1>1, SliceFacts
<1>3. Stays(s, Appended(s, e))
  BY <1>1, <1>2 DEF Stays
<1> QED
  BY <1>1, <1>3, AppendedIds

LEMMA AddListenerStep ==
  ASSUME AdminTypeInv, NEW r \in Request, AddListener(r)
  PROVE  CreateEffect
<1>1. req[r] \in AddState /\ ListsOK /\ RequestsOK /\ At(r, "addListener")
  BY RequestShapes DEF AdminTypeInv, RequestsOK, AddListener, At
<1>2. PICK e, dflt : e = req[r].listener /\ dflt = req[r].default
  OBVIOUS
<1>3. e \in GivenListener /\ dflt \in {{}} \cup {{s} : s \in GivenService}
  BY <1>1, <1>2 DEF AddState
<1>4. PICK started : started = (IF e.enabled THEN Start1(e) ELSE Idle)
  OBVIOUS
<1>5. started \in Starting
  BY <1>3, <1>4, StartingStates
<1>6. PICK next : next = (IF dflt = {} THEN started
                          ELSE [pc |-> "addDefault", service |-> CHOOSE s \in dflt : TRUE,
                                then |-> started])
  OBVIOUS
<1>7. /\ cfgListeners' = Appended(cfgListeners, e)
      /\ \E requests \in AfterAppend("pListener", cfgListeners) :
           AfterSave(r, requests, TRUE, next, Idle)
      /\ UNCHANGED vars /\ cfgServices' = cfgServices /\ unused' = unused
  BY <1>2, <1>4, <1>6 DEF AddListener
<1>8. Moves(r, next) \/ Moves(r, Idle)
  BY <1>1, <1>7, SavedMoves DEF AfterAppend
<1>9. PICK x : Moves(r, x) /\ (x = next \/ x = Idle)
  BY <1>8
<1>10. /\ x \in RequestState /\ ~HoldsListener(x) /\ ~HoldsService(x) /\ x.pc # "addListener"
       /\ x.pc = "addDefault" => x.service.id \in IdSet(dflt)
  <2>1. CASE x \in Starting
    BY <2>1, StartingStates DEF Plain, Adding
  <2>2. CASE x \notin Starting
    <3>1. x = next /\ dflt # {}
      BY <1>5, <1>6, <1>9, <2>2, StartingStates
    <3>2. PICK s \in GivenService : dflt = {s}
      BY <1>3, <3>1
    <3>3. x = [pc |-> "addDefault", service |-> s, then |-> started]
      BY <1>6, <3>1, <3>2
    <3>4. x \in DefaultState /\ x.pc = "addDefault" /\ x.service = s
      BY <1>5, <3>3 DEF DefaultState
    <3> QED
      BY <3>2, <3>4 DEF RequestState, HoldsListener, HoldsService, IdSet
  <2> QED
    BY <2>1, <2>2
<1>11. /\ cfgListeners' \in SliceOf(GivenListener) /\ Stays(cfgListeners, cfgListeners')
       /\ IdsOf(cfgListeners') = IdsOf(cfgListeners) \cup {e.id}
       /\ DistinctIds(cfgListeners) /\ e.id \notin IdsOf(cfgListeners) =>
            DistinctIds(cfgListeners')
  BY <1>1, <1>3, <1>7, AppendedTypes DEF ListsOK
<1>12. ListsOK' /\ Stays(cfgServices, cfgServices')
  BY <1>1, <1>7, <1>11, UnchangedList DEF ListsOK
<1>13. RequestsOK'
  BY <1>1, <1>9, <1>10, <1>11, <1>12, RequestsMove
<1>14. AddsListeners(r) = {e.id} /\ AddsServices(r) = IdSet(dflt)
  BY <1>1, <1>2 DEF AddsListeners, AddsServices, At
<1>15. AddsListeners(r)' = {} /\ AddsServices(r)' \subseteq IdSet(dflt)
  BY <1>9, <1>10 DEF Moves, AddsListeners, AddsServices, At
<1>16. ASSUME UniqueInv
       PROVE  UniqueInv'
  <2>1. e.id \notin IdsOf(cfgListeners) /\ IdSet(dflt) \cap IdsOf(cfgServices) = {}
    BY <1>14, <1>16 DEF UniqueInv
  <2>2. DistinctIds(cfgListeners') /\ DistinctIds(cfgServices')
    BY <1>7, <1>11, <1>16, <2>1 DEF UniqueInv
  <2>3. \A q \in Request \ {r} : Alike(req[q], req'[q])
    BY <1>9 DEF Moves
  <2> QED
    BY <1>1, <1>7, <1>11, <1>14, <1>15, <1>16, <2>1, <2>2, <2>3, UniqueStep
<1>17. NoneComesBack
  BY <1>1, <1>2, <1>7, <1>11 DEF NoneComesBack
<1> QED
  BY <1>7, <1>12, <1>13, <1>16, <1>17 DEF CreateEffect, AdminTypeInv

LEMMA AddDefaultServiceStep ==
  ASSUME AdminTypeInv, NEW r \in Request, AddDefaultService(r)
  PROVE  CreateEffect
<1>1. req[r] \in DefaultState /\ ListsOK /\ RequestsOK /\ At(r, "addDefault")
  BY RequestShapes DEF AdminTypeInv, RequestsOK, AddDefaultService, At
<1>2. PICK e, then : e = req[r].service /\ then = req[r].then
  OBVIOUS
<1>3. e \in GivenService /\ then \in Starting
  BY <1>1, <1>2 DEF DefaultState
<1>4. /\ cfgServices' = Appended(cfgServices, e)
      /\ \E requests \in AfterAppend("pService", cfgServices) :
           AfterSave(r, requests, TRUE, then, Idle)
      /\ UNCHANGED vars /\ cfgListeners' = cfgListeners /\ unused' = unused
  BY <1>2 DEF AddDefaultService
<1>5. Moves(r, then) \/ Moves(r, Idle)
  BY <1>1, <1>4, SavedMoves DEF AfterAppend
<1>6. PICK x \in Starting : Moves(r, x)
  BY <1>3, <1>5, StartingStates
<1>7. x \in RequestState /\ ~HoldsListener(x) /\ ~HoldsService(x) /\ x.pc \notin Adding
  BY StartingStates DEF Plain
<1>8. /\ cfgServices' \in SliceOf(GivenService) /\ Stays(cfgServices, cfgServices')
      /\ IdsOf(cfgServices') = IdsOf(cfgServices) \cup {e.id}
      /\ DistinctIds(cfgServices) /\ e.id \notin IdsOf(cfgServices) => DistinctIds(cfgServices')
  BY <1>1, <1>3, <1>4, AppendedTypes DEF ListsOK
<1>9. ListsOK' /\ Stays(cfgListeners, cfgListeners')
  BY <1>1, <1>4, <1>8, UnchangedList DEF ListsOK
<1>10. RequestsOK'
  BY <1>1, <1>6, <1>7, <1>8, <1>9, RequestsMove
<1>11. AddsServices(r) = {e.id} /\ AddsListeners(r)' = {} /\ AddsServices(r)' = {}
  BY <1>1, <1>2, <1>6, <1>7 DEF Moves, AddsListeners, AddsServices, At, Adding
<1>12. ASSUME UniqueInv
       PROVE  UniqueInv'
  <2>1. e.id \notin IdsOf(cfgServices)
    BY <1>11, <1>12 DEF UniqueInv
  <2>2. DistinctIds(cfgListeners') /\ DistinctIds(cfgServices')
    BY <1>4, <1>8, <1>12, <2>1 DEF UniqueInv
  <2>3. \A q \in Request \ {r} : Alike(req[q], req'[q])
    BY <1>6 DEF Moves
  <2> QED
    BY <1>1, <1>4, <1>8, <1>11, <1>12, <2>2, <2>3, UniqueStep
<1>13. NoneComesBack
  BY <1>1, <1>2, <1>4, <1>8 DEF NoneComesBack
<1> QED
  BY <1>4, <1>9, <1>10, <1>12, <1>13 DEF CreateEffect, AdminTypeInv

LEMMA CreateServiceStep ==
  ASSUME AdminTypeInv, NEW r \in Request, CreateService(r)
  PROVE  CreateEffect
<1>1. ListsOK /\ RequestsOK
  BY DEF AdminTypeInv
<1>2. PICK e \in ServiceBodies :
        /\ e.id \in unused
        /\ unused' = unused \ {e.id}
        /\ cfgServices' = Appended(cfgServices, e)
        /\ \E requests \in AfterAppend("pService", cfgServices) :
             AfterSave(r, requests, TRUE, IF e.enabled THEN Reload(e.portID) ELSE Idle, Idle)
  BY DEF CreateService
<1>3. e \in GivenService
  BY GivenEntries
<1>4. e.portID \in Listener
  BY <1>3 DEF GivenService, ServiceEntry
<1>5. UNCHANGED vars /\ cfgListeners' = cfgListeners
  BY DEF CreateService
<1>6. Moves(r, IF e.enabled THEN Reload(e.portID) ELSE Idle) \/ Moves(r, Idle)
  BY <1>1, <1>2, SavedMoves DEF AfterAppend
<1>7. PICK x : Moves(r, x) /\ (x = Reload(e.portID) \/ x = Idle)
  BY <1>6
<1>8. x \in RequestState /\ ~HoldsListener(x) /\ ~HoldsService(x) /\ x.pc \notin Adding
  BY <1>4, <1>7, StartingStates, ReloadStates DEF Plain
<1>9. /\ cfgServices' \in SliceOf(GivenService) /\ Stays(cfgServices, cfgServices')
      /\ IdsOf(cfgServices') = IdsOf(cfgServices) \cup {e.id}
      /\ DistinctIds(cfgServices) /\ e.id \notin IdsOf(cfgServices) => DistinctIds(cfgServices')
  BY <1>1, <1>2, <1>3, AppendedTypes DEF ListsOK
<1>10. ListsOK' /\ Stays(cfgListeners, cfgListeners')
  BY <1>1, <1>5, <1>9, UnchangedList DEF ListsOK
<1>11. RequestsOK'
  BY <1>1, <1>7, <1>8, <1>9, <1>10, RequestsMove
<1>12. AddsListeners(r)' = {} /\ AddsServices(r)' = {}
  BY <1>7, <1>8 DEF Moves, AddsListeners, AddsServices, At, Adding
<1>13. ASSUME UniqueInv
       PROVE  UniqueInv'
  <2>1. e.id \notin IdsOf(cfgServices) /\ e.id \in unused \ unused' /\ unused' \subseteq unused
    BY <1>2, <1>13 DEF UniqueInv
  <2>2. DistinctIds(cfgListeners') /\ DistinctIds(cfgServices')
    BY <1>5, <1>9, <1>13, <2>1 DEF UniqueInv
  <2>3. \A q \in Request \ {r} : Alike(req[q], req'[q])
    BY <1>7 DEF Moves
  <2> QED
    BY <1>1, <1>5, <1>9, <1>12, <1>13, <2>1, <2>2, <2>3, UniqueStep
<1>14. NoneComesBack
  BY <1>2, <1>5, <1>9 DEF NoneComesBack
<1> QED
  BY <1>5, <1>10, <1>11, <1>13, <1>14 DEF CreateEffect, AdminTypeInv


-----------------------------------------------------------------------------
(* Initial states, and every step *)

LEMMA AdminStart == AdminInit => Init /\ AdminTypeInv /\ UniqueInv
<1> SUFFICES ASSUME AdminInit
             PROVE  AdminTypeInv /\ UniqueInv
  BY DEF AdminInit
<1>1. PICK boot \in Request :
        req = [r \in Request |-> IF r = boot THEN [pc |-> "start"] ELSE Idle]
  BY DEF AdminInit
<1>2. cfgListeners = Slice(StoredListeners) /\ cfgServices = Slice(StoredServices)
      /\ unused = (Listener \cup Service) \ (IdsOf(cfgListeners) \cup IdsOf(cfgServices))
  BY DEF AdminInit
<1>3. ListsOK
  BY <1>2, GivenEntries DEF ListsOK
<1>4. [pc |-> "start"] \in StartState /\ Idle \in IdleState
  BY IdleIsIdle DEF StartState
<1>5. ASSUME NEW r \in Request
      PROVE  /\ req[r] \in RequestState /\ req[r].pc \in {"start", "idle"}
             /\ ~HoldsListener(req[r]) /\ ~HoldsService(req[r])
             /\ AddsListeners(r) = {} /\ AddsServices(r) = {}
  <2>1. req[r] \in RequestState /\ req[r].pc \in {"start", "idle"}
    BY <1>1, <1>4 DEF RequestState, Idle
  <2> QED
    BY <2>1 DEF HoldsListener, HoldsService, AddsListeners, AddsServices, At
<1>6. RequestsOK
  BY <1>1, <1>5 DEF RequestsOK
<1>7. DistinctIds(cfgListeners) /\ DistinctIds(cfgServices)
  BY <1>2, StoredAssumption DEF DistinctIds, Slice
<1>8. UniqueInv
  BY <1>2, <1>5, <1>7 DEF UniqueInv
<1> QED
  BY <1>3, <1>6, <1>8 DEF AdminTypeInv

LEMMA HandlerEffect ==
  ASSUME AdminTypeInv, NEW r \in Request, HandlerStep(r)
  PROVE  CreateEffect
<1>1. CASE CreateListener(r)
  BY <1>1, CreateListenerStep
<1>2. CASE AddListener(r)
  BY <1>2, AddListenerStep
<1>3. CASE AddDefaultService(r)
  BY <1>3, AddDefaultServiceStep
<1>4. CASE CreateService(r)
  BY <1>4, CreateServiceStep
<1>5. CASE ~(CreateListener(r) \/ AddListener(r) \/ AddDefaultService(r) \/ CreateService(r))
  <2>1. CASE StartListener(r) \/ Apply(r) \/ ReloadListener(r) \/ Restart(r) \/ StartConfigured(r)
    BY <2>1, StartListenerStep, ApplyStep, ReloadListenerStep, RestartStep, StartConfiguredStep,
       NothingAddedIsSafe DEF CreateEffect, AdminTypeInv
  <2>2. CASE UpdateListener(r) \/ SaveUpdated(r) \/ UpdatedStarts(r) \/ UpdatedStops(r)
    BY <2>2, UpdateListenerStep, SaveUpdatedStep, UpdatedStartsStep, UpdatedStopsStep,
       NothingAddedIsSafe DEF CreateEffect, AdminTypeInv
  <2>3. CASE DeleteListener(r) \/ StopDeleted(r) \/ DeleteFromConfig(r)
    BY <2>3, DeleteListenerStep, StopDeletedStep, DeleteFromConfigStep,
       NothingAddedIsSafe DEF CreateEffect, AdminTypeInv
  <2>4. CASE ToggleListener(r) \/ ToggleOn(r) \/ ToggleOff(r) \/ SaveOn(r)
    BY <2>4, ToggleListenerStep, ToggleOnStep, ToggleOffStep, SaveOnStep,
       NothingAddedIsSafe DEF CreateEffect, AdminTypeInv
  <2>5. CASE StopToggled(r) \/ SaveOff(r) \/ SaveUnstopped(r)
    BY <2>5, StopToggledStep, SaveOffStep, SaveUnstoppedStep,
       NothingAddedIsSafe DEF CreateEffect, AdminTypeInv
  <2>6. CASE UpdateService(r) \/ SaveService(r) \/ DeleteService(r) \/ RemoveService(r)
    BY <2>6, UpdateServiceStep, SaveServiceStep, DeleteServiceStep, RemoveServiceStep,
       NothingAddedIsSafe DEF CreateEffect, AdminTypeInv
  <2>7. CASE ReloadPointed(r) \/ ToggleService(r) \/ CopyToggled(r) \/ SaveToggled(r)
    BY <2>7, ReloadPointedStep, ToggleServiceStep, CopyToggledStep, SaveToggledStep,
       NothingAddedIsSafe DEF CreateEffect, AdminTypeInv
  <2>8. CASE ReloadRequested(r) \/ ReorderServices(r) \/ FlipListed(r) \/ FlipKept(r)
    BY <2>8, ReloadRequestedStep, FlipListedStep, FlipKeptStep,
       NothingAddedIsSafe DEF CreateEffect, AdminTypeInv
  <2> QED
    BY <1>5, <2>1, <2>2, <2>3, <2>4, <2>5, <2>6, <2>7, <2>8 DEF HandlerStep
<1> QED
  BY <1>1, <1>2, <1>3, <1>4, <1>5

LEMMA NothingMoves ==
  ASSUME AdminTypeInv, UNCHANGED <<cfgVars, req>>
  PROVE  AdminTypeInv' /\ NoneComesBack /\ (UniqueInv => UniqueInv')
<1>1. cfgListeners' = cfgListeners /\ cfgServices' = cfgServices /\ unused' = unused /\ req' = req
  BY DEF cfgVars
<1>2. AdminTypeInv'
  BY <1>1 DEF AdminTypeInv, ListsOK, RequestsOK
<1>3. NoneComesBack
  BY <1>1 DEF NoneComesBack
<1>4. \A r \in Request : AddsListeners(r)' = AddsListeners(r) /\ AddsServices(r)' = AddsServices(r)
  BY <1>1 DEF AddsListeners, AddsServices, At
<1>5. UniqueInv => UniqueInv'
  BY <1>1, <1>4 DEF UniqueInv
<1> QED
  BY <1>2, <1>3, <1>5

LEMMA AdminStep == AdminTypeInv /\ [AdminNext]_adminVars => CreateEffect
<1> SUFFICES ASSUME AdminTypeInv, [AdminNext]_adminVars
             PROVE  CreateEffect
  OBVIOUS
<1>1. CASE SocketStep
  <2>1. Next
    BY <1>1 DEF SocketStep, Next, Environment
  <2>2. UNCHANGED <<cfgVars, req>>
    BY <1>1 DEF SocketStep
  <2> QED
    BY <2>1, <2>2, NothingMoves DEF CreateEffect
<1>2. ASSUME NEW r \in Request, HandlerStep(r)
      PROVE  CreateEffect
  BY <1>2, HandlerEffect
<1>3. CASE UNCHANGED adminVars
  BY <1>3, NothingMoves DEF CreateEffect, adminVars
<1> QED
  BY <1>1, <1>2, <1>3 DEF AdminNext

LEMMA AdminInvariantHolds == AdminSpec => [](AdminTypeInv /\ UniqueInv)
<1>1. AdminInit => AdminTypeInv /\ UniqueInv
  BY AdminStart
<1>2. AdminTypeInv /\ UniqueInv /\ [AdminNext]_adminVars => (AdminTypeInv /\ UniqueInv)'
  BY AdminStep DEF CreateEffect
<1> QED
  BY <1>1, <1>2, PTL DEF AdminSpec


-----------------------------------------------------------------------------
(* Theorems *)

(* The lists hold entries made from what was given, a request at a step    *)
(* has the locals of that step, and a pointer it holds leads into the      *)
(* array behind the list or to an entry of its own: no handler reads       *)
(* behind the end of a list that another request shortened.                *)
THEOREM PointersLeadToEntries == AdminSpec => []AdminTypeInv
BY AdminInvariantHolds, PTL

(* GetListener, UpdateListener and DeleteListener take the first entry     *)
(* with an identifier: there is no second one, however requests overlap.   *)
THEOREM IdentifiersStayUnique == AdminSpec => []IdentifiersAreUnique
<1>1. AdminTypeInv /\ UniqueInv => IdentifiersAreUnique
  BY DistinctIdsCount DEF AdminTypeInv, ListsOK, UniqueInv, IdentifiersAreUnique
<1> QED
  BY <1>1, AdminInvariantHolds, PTL

(* Only a create request adds a listener or a service: a handler that      *)
(* saves an old copy finds its entry gone and puts nothing back.           *)
THEOREM DeletedDoesNotComeBack == AdminSpec => DeletedStaysDeleted
<1> DEFINE A == /\ \A l \in IdsOf(cfgListeners)' \ IdsOf(cfgListeners) :
                     \E r \in Request : At(r, "addListener") /\ req[r].listener.id = l
                /\ \A s \in IdsOf(cfgServices)' \ IdsOf(cfgServices) :
                     s \in unused \/ \E r \in Request : At(r, "addDefault") /\ req[r].service.id = s
<1>1. AdminTypeInv /\ UniqueInv /\ [AdminNext]_adminVars => [A]_adminVars
  BY AdminStep DEF CreateEffect, NoneComesBack
<1> QED
  BY <1>1, AdminInvariantHolds, PTL DEF AdminSpec, DeletedStaysDeleted

(* The handlers' steps, interleaved in any way, are steps of ProxyServer   *)
(* or leave its variables alone, by the way they are written.              *)
LEMMA HandlersDriveTheServer == AdminSpec => Spec
<1>1. AdminInit => Init
  BY AdminStart
<1>2. AdminTypeInv /\ [AdminNext]_adminVars => [Next]_vars
  BY AdminStep DEF CreateEffect
<1> QED
  BY <1>1, <1>2, AdminInvariantHolds, PTL DEF AdminSpec, Spec


(* What ProxyServer promises of the listener table therefore holds however *)
(* the handlers' requests overlap and whichever of them fail.              *)
THEOREM TableStaysSound ==
  AdminSpec => /\ [](RunningIsApplied /\ H3Exact /\ NoMixedConfig /\ SnapshotBuildable)
               /\ OutageOnlyWhenPortsTaken
BY HandlersDriveTheServer, RunningListenersAreApplied, HTTP3IsExact, ConfigurationsAreNotMixed,
   SnapshotsCanBeBuilt, OutagesNeedTakenPorts, PTL

-----------------------------------------------------------------------------
(* One request at a time: no two listeners on one port.  The handlers look *)
(* for a duplicate before they save, so that the invariant follows the     *)
(* entry from the check to the list.                                       *)

Saving == {"addListener", "saveUpdated", "saveOn", "stopToggled", "saveOff", "saveUnstopped"}

PortInv ==
  /\ PortsAreUnique
  /\ \A r \in Request :
       /\ req[r].pc \in Saving => ~DuplicatePort(req[r].listener)
       /\ req[r].pc = "toggle" => Deref(cfgListeners, req[r].pListener) \in Elements(cfgListeners)

(* A list that gains nothing keeps its ports apart. *)
LEMMA PortsKept ==
  ASSUME PortInv, NEW r, Request = {r}, Elements(cfgListeners') \subseteq Elements(cfgListeners),
         req'[r].pc \notin Saving \cup {"toggle"}
  PROVE  PortInv'
BY DEF PortInv, PortsAreUnique

(* The entry a request saves takes the place of the one with its identifier. *)
LEMMA UpdatedPorts ==
  ASSUME AdminTypeInv, UniqueInv, PortsAreUnique, NEW n \in GivenListener, ~DuplicatePort(n),
         cfgListeners' = Updated(n)
  PROVE  PortsAreUnique'
<1> DEFINE i == IndexOf(cfgListeners, n.id)
<1>1. CASE ~HasListener(n.id)
  BY <1>1 DEF Updated, PortsAreUnique
<1>2. CASE HasListener(n.id)
  <2>1. cfgListeners \in SliceOf(GivenListener) /\ i \in 1 .. cfgListeners.len
        /\ cfgListeners.cells[i].id = n.id
    BY <1>2, IndexOfFirst DEF HasListener, AdminTypeInv, ListsOK
  <2>2. cfgListeners' = SetElement(cfgListeners, i, n)
    BY <1>2 DEF Updated
  <2> HIDE DEF i
  <2>3. /\ cfgListeners'.len = cfgListeners.len
        /\ \A k \in 1 .. cfgListeners.len :
             cfgListeners'.cells[k] = IF k = i THEN n ELSE cfgListeners.cells[k]
    <3>1. PICK s : s = cfgListeners
      OBVIOUS
    <3>2. s \in SliceOf(GivenListener) /\ i \in 1 .. s.len
      BY <2>1, <3>1
    <3>3. /\ SetElement(s, i, n).len = s.len
          /\ \A k \in 1 .. Len(s.cells) :
               SetElement(s, i, n).cells[k] = IF k = i THEN n ELSE s.cells[k]
      BY <3>2, SetElementIn
    <3>4. \A k \in 1 .. s.len : k \in 1 .. Len(s.cells)
      BY <3>2, SliceFacts
    <3> QED
      BY <2>2, <3>1, <3>3, <3>4
  <2>4. \A e \in Elements(cfgListeners') : e = n \/ (e \in Elements(cfgListeners) /\ e.id # n.id)
    <3>1. \A k \in 1 .. cfgListeners.len : cfgListeners.cells[k].id = n.id => k = i
      BY <2>1 DEF UniqueInv, DistinctIds
    <3>2. ASSUME NEW k \in 1 .. cfgListeners'.len
          PROVE  LET e == cfgListeners'.cells[k]
                 IN e = n \/ (e \in Elements(cfgListeners) /\ e.id # n.id)
      <4>1. CASE k = i
        BY <2>3, <4>1
      <4>2. CASE k # i
        <5>1. cfgListeners'.cells[k] = cfgListeners.cells[k] /\ k \in 1 .. cfgListeners.len
          BY <2>3, <4>2
        <5> QED
          BY <3>1, <4>2, <5>1 DEF Elements
      <4> QED
        BY <4>1, <4>2
    <3> QED
      BY <3>2 DEF Elements
  <2>5. \A e \in Elements(cfgListeners) : e.id # n.id => e.port # n.port
    BY DEF DuplicatePort
  <2> QED
    BY <2>4, <2>5 DEF PortsAreUnique
<1> QED
  BY <1>1, <1>2

LEMMA AppendedPorts ==
  ASSUME AdminTypeInv, PortsAreUnique, NEW n \in GivenListener, ~DuplicatePort(n),
         cfgListeners' = Appended(cfgListeners, n)
  PROVE  PortsAreUnique'
<1>1. cfgListeners \in SliceOf(GivenListener) /\ cfgListeners.len \in Nat
  BY SliceFacts DEF AdminTypeInv, ListsOK
<1>2. /\ cfgListeners'.len = cfgListeners.len + 1
      /\ \A k \in 1 .. cfgListeners.len : cfgListeners'.cells[k] = cfgListeners.cells[k]
      /\ cfgListeners'.cells[cfgListeners.len + 1] = n
  BY <1>1, AppendedIn
<1>3. \A e \in Elements(cfgListeners') : e = n \/ e \in Elements(cfgListeners)
  BY <1>1, <1>2 DEF Elements
<1>4. \A e \in Elements(cfgListeners) : e.id # n.id => e.port # n.port
  BY DEF DuplicatePort
<1> QED
  BY <1>3, <1>4 DEF PortsAreUnique


(* What r, alone, goes on with when it leaves the list of listeners as it  *)
(* is: an entry whose port was checked, or the pointer of a toggle.        *)
LEMMA PortsQuiet ==
  ASSUME PortInv, NEW r, Request = {r}, NEW x, Goto(r, x), req \in [Request -> RequestState],
         cfgListeners' = cfgListeners,
         x.pc \in Saving => ~DuplicatePort(x.listener),
         x.pc = "toggle" => Deref(cfgListeners, x.pListener) \in Elements(cfgListeners)
  PROVE  PortInv'
<1>1. req'[r] = x
  BY DEF Goto
<1>2. \A e : DuplicatePort(e)' <=> DuplicatePort(e)
  BY DEF DuplicatePort
<1> QED
  BY <1>1, <1>2 DEF PortInv, PortsAreUnique

(* After a save. *)
LEMMA SavedQuietly ==
  ASSUME NEW r \in Request, req = [q \in Request |-> req[q]], NEW ws, NEW saves, NEW next,
         NEW failed, ws = [q \in Request |-> ws[q]], AfterSave(r, ws, saves, next, failed),
         next.pc \notin Saving \cup {"toggle"}, failed.pc \notin Saving \cup {"toggle"}
  PROVE  req'[r].pc \notin Saving \cup {"toggle"}
<1> DEFINE F == [q \in Request |-> ws[q]]
<1>1. req' = [F EXCEPT ![r] = next] \/ req' = [F EXCEPT ![r] = failed]
  BY DEF AfterSave
<1> QED
  BY <1>1

LEMMA QuietSteps ==
  /\ Idle.pc \notin Saving \cup {"toggle"}
  /\ \A l : Reload(l).pc \notin Saving \cup {"toggle"}
  /\ \A todo : StartAll(todo).pc \notin Saving \cup {"toggle"}
  /\ \A e : Start1(e).pc \notin Saving \cup {"toggle"}
  BY DEF Saving, Idle, Reload, StartAll, Start1

(* The steps that leave the list of listeners alone and check no port. *)
LEMMA NoPortChecked ==
  ASSUME AdminTypeInv, NEW r \in Request,
         \/ StartListener(r) \/ Apply(r) \/ ReloadListener(r) \/ UpdatedStarts(r)
         \/ UpdatedStops(r) \/ DeleteListener(r) \/ StopDeleted(r) \/ ReloadRequested(r)
         \/ Restart(r) \/ StartConfigured(r) \/ UpdateService(r) \/ DeleteService(r)
         \/ ReloadPointed(r) \/ ReorderServices(r) \/ ToggleService(r)
         \/ FlipListed(r) \/ FlipKept(r) \/ CopyToggled(r)
  PROVE  cfgListeners' = cfgListeners /\ req'[r].pc \notin Saving \cup {"toggle"}
<1>1. \A x : Goto(r, x) => req'[r] = x
  BY DEF Goto, AdminTypeInv, RequestsOK
<1>2. CASE StartListener(r) \/ Apply(r) \/ ReloadListener(r)
  BY <1>1, <1>2, QuietSteps DEF StartListener, Apply, ReloadListener, cfgVars, Saving
<1>3. CASE UpdatedStarts(r) \/ UpdatedStops(r)
  BY <1>1, <1>3, QuietSteps DEF UpdatedStarts, UpdatedStops, Stopped, cfgVars
<1>4. CASE DeleteListener(r) \/ StopDeleted(r)
  <2>1. req[r] \in RequestState /\ (req[r].pc = "stopDeleted" => req[r] \in DeleteState)
    BY RequestShapes DEF AdminTypeInv, RequestsOK
  <2>2. CASE DeleteListener(r)
    BY <1>1, <2>2 DEF DeleteListener, cfgVars, Saving
  <2>3. CASE StopDeleted(r)
    <3>1. [req[r] EXCEPT !.pc = "delete"].pc = "delete"
      BY <2>1, <2>3 DEF StopDeleted, At, DeleteState
    <3> QED
      BY <1>1, <2>3, <3>1 DEF StopDeleted, Stopped, cfgVars, Saving
  <2> QED
    BY <1>4, <2>2, <2>3
<1>5. CASE ReloadRequested(r) \/ Restart(r) \/ StartConfigured(r) \/ ReorderServices(r)
  BY <1>1, <1>5, QuietSteps DEF ReloadRequested, Restart, StartConfigured, ReorderServices, cfgVars,
     Saving
<1>6. CASE UpdateService(r) \/ DeleteService(r) \/ ReloadPointed(r) \/ ToggleService(r)
  <2>1. CASE UpdateService(r)
    BY <1>1, <2>1 DEF UpdateService, cfgVars, Saving
  <2>2. CASE DeleteService(r)
    BY <1>1, <2>2 DEF DeleteService, cfgVars, Saving
  <2>3. CASE ReloadPointed(r)
    BY <1>1, <2>3, QuietSteps DEF ReloadPointed, cfgVars
  <2>4. CASE ToggleService(r)
    BY <1>1, <2>4 DEF ToggleService, cfgVars, Saving
  <2> QED
    BY <1>6, <2>1, <2>2, <2>3, <2>4
<1>7. CASE FlipListed(r) \/ FlipKept(r) \/ CopyToggled(r)
  <2>1. CASE FlipListed(r) \/ FlipKept(r)
    <3>1. req[r] \in FlipState
      BY <2>1, RequestShapes DEF AdminTypeInv, RequestsOK, FlipListed, FlipKept, At
    <3>2. DOMAIN req[r] = {"pc", "id", "pService"}
      BY <3>1 DEF FlipState
    <3>3. PICK x : Goto(r, x) /\ x.pc = "copy"
      <4>1. CASE FlipListed(r)
        BY <3>2, <4>1 DEF FlipListed
      <4>2. CASE FlipKept(r)
        <5> DEFINE x == [req[r] EXCEPT !.pc = "copy", !.pService.element.enabled = ~@]
        <5>1. x.pc = "copy"
          BY <3>2
        <5>2. Goto(r, x)
          BY <4>2 DEF FlipKept
        <5> QED
          BY <5>1, <5>2
      <4> QED
        BY <2>1, <4>1, <4>2
    <3>4. cfgListeners' = cfgListeners
      BY <2>1 DEF FlipListed, FlipKept, cfgVars
    <3> QED
      BY <1>1, <3>3, <3>4 DEF Saving
  <2>2. CASE CopyToggled(r)
    BY <1>1, <2>2 DEF CopyToggled, cfgVars, Saving
  <2> QED
    BY <1>7, <2>1, <2>2
<1> QED
  BY <1>2, <1>3, <1>4, <1>5, <1>6, <1>7

(* The steps that save services. *)
LEMMA ServicesSavedQuietly ==
  ASSUME AdminTypeInv, NEW r \in Request,
         \/ AddDefaultService(r) \/ CreateService(r) \/ SaveService(r) \/ RemoveService(r)
         \/ SaveToggled(r)
  PROVE  cfgListeners' = cfgListeners /\ req'[r].pc \notin Saving \cup {"toggle"}
<1>1. ListsOK /\ RequestsOK /\ req = [q \in Request |-> req[q]]
  BY DEF AdminTypeInv, RequestsOK
<1>2. ASSUME NEW ws \in AfterAppend("pService", cfgServices)
      PROVE  ws = [q \in Request |-> ws[q]]
  BY <1>1, <1>2 DEF AfterAppend, Keeping
<1>3. CASE AddDefaultService(r)
  <2>1. req[r] \in DefaultState
    BY <1>3, RequestShapes DEF AddDefaultService, At, AdminTypeInv, RequestsOK
  <2>2. req[r].then.pc \notin Saving \cup {"toggle"}
    BY <2>1 DEF DefaultState, Starting, IdleState, SnapshotState, Saving
  <2>3. PICK ws \in AfterAppend("pService", cfgServices) :
          AfterSave(r, ws, TRUE, req[r].then, Idle)
    BY <1>3 DEF AddDefaultService
  <2> QED
    BY <1>1, <1>2, <1>3, <2>2, <2>3, QuietSteps, SavedQuietly DEF AddDefaultService
<1>4. CASE CreateService(r)
  <2>1. PICK e \in ServiceBodies, ws \in AfterAppend("pService", cfgServices) :
          AfterSave(r, ws, TRUE, IF e.enabled THEN Reload(e.portID) ELSE Idle, Idle)
    BY <1>4 DEF CreateService
  <2>2. (IF e.enabled THEN Reload(e.portID) ELSE Idle).pc \notin Saving \cup {"toggle"}
    BY QuietSteps
  <2> QED
    BY <1>1, <1>2, <1>4, <2>1, <2>2, QuietSteps, SavedQuietly DEF CreateService
<1>5. CASE SaveService(r)
  <2>1. (IF req[r].reload THEN Reload(req[r].service.portID) ELSE Idle).pc
          \notin Saving \cup {"toggle"}
    BY QuietSteps
  <2> QED
    BY <1>1, <1>5, <2>1, QuietSteps, SavedQuietly DEF SaveService
<1>6. ASSUME NEW p
      PROVE  [pc |-> "reloadPointed", pService |-> p].pc \notin Saving \cup {"toggle"}
  BY DEF Saving
<1>7. CASE RemoveService(r)
  BY <1>1, <1>6, <1>7, QuietSteps, SavedQuietly DEF RemoveService
<1>8. CASE SaveToggled(r)
  BY <1>1, <1>6, <1>8, QuietSteps, SavedQuietly DEF SaveToggled
<1> QED
  BY <1>3, <1>4, <1>5, <1>7, <1>8


(* The steps that check a port, or keep the port of an entry of the list.  *)
LEMMA SamePort ==
  ASSUME NEW e, NEW n, n.id = e.id, n.port = e.port
  PROVE  DuplicatePort(n) <=> DuplicatePort(e)
  BY DEF DuplicatePort

LEMMA RequestedPort ==
  ASSUME NEW e \in GivenListener, ~DuplicatePort(e)
  PROVE  ~DuplicatePort([e EXCEPT !.enabled = @ /\ ~PortOccupied(e)])
<1> DEFINE n == [e EXCEPT !.enabled = @ /\ ~PortOccupied(e)]
<1>1. n.id = e.id /\ n.port = e.port
  BY DEF GivenListener, ListenerEntry
<1> HIDE DEF n
<1>2. ~DuplicatePort(n)
  BY <1>1, SamePort
<1> QED
  BY <1>2 DEF n

LEMMA ListedPort ==
  ASSUME ListsOK, PortsAreUnique, NEW e \in Elements(cfgListeners), NEW on \in BOOLEAN
  PROVE  ~DuplicatePort([e EXCEPT !.enabled = on])
<1> DEFINE n == [e EXCEPT !.enabled = on]
<1>1. e \in GivenListener
  BY ElementsIn DEF ListsOK
<1>2. n.id = e.id /\ n.port = e.port
  BY <1>1, Switched
<1> HIDE DEF n
<1>3. ~DuplicatePort(e)
  BY DEF DuplicatePort, PortsAreUnique
<1>4. ~DuplicatePort(n)
  BY <1>2, <1>3, SamePort
<1> QED
  BY <1>4 DEF n

LEMMA PortCheckedStep ==
  ASSUME AdminTypeInv, PortInv, NEW r, Request = {r},
         \/ CreateListener(r) \/ UpdateListener(r) \/ ToggleListener(r) \/ ToggleOn(r)
         \/ ToggleOff(r) \/ StopToggled(r)
  PROVE  PortInv'
<1>1. ListsOK /\ req \in [Request -> RequestState] /\ r \in Request /\ PortsAreUnique
  BY DEF AdminTypeInv, RequestsOK, PortInv
<1>2. CASE CreateListener(r)
  <2>1. PICK e, dflt :
          /\ e \in NewListeners /\ ~DuplicatePort(e)
          /\ Goto(r, [pc |-> "addListener", default |-> dflt,
                      listener |-> [e EXCEPT !.enabled = @ /\ ~PortOccupied(e)]])
    BY <1>2 DEF CreateListener
  <2>2. PICK n : n = [e EXCEPT !.enabled = @ /\ ~PortOccupied(e)]
    OBVIOUS
  <2>3. ~DuplicatePort(n)
    BY <2>1, <2>2, RequestedPort, GivenEntries
  <2>4. PICK x : x = [pc |-> "addListener", default |-> dflt, listener |-> n]
    OBVIOUS
  <2>5. Goto(r, x) /\ x.pc # "toggle" /\ x.listener = n
    BY <2>1, <2>2, <2>4
  <2> QED
    BY <1>1, <1>2, <2>3, <2>5, PortsQuiet DEF CreateListener
<1>3. CASE UpdateListener(r)
  <2>1. PICK e, p :
          /\ e \in ListenerBodies /\ ~DuplicatePort(e)
          /\ Goto(r, [pc |-> "saveUpdated", pListener |-> p,
                      listener |-> [e EXCEPT !.enabled = @ /\ ~PortOccupied(e)]])
    BY <1>3 DEF UpdateListener
  <2>2. PICK n : n = [e EXCEPT !.enabled = @ /\ ~PortOccupied(e)]
    OBVIOUS
  <2>3. ~DuplicatePort(n)
    BY <2>1, <2>2, RequestedPort, GivenEntries
  <2>4. PICK x : x = [pc |-> "saveUpdated", pListener |-> p, listener |-> n]
    OBVIOUS
  <2>5. Goto(r, x) /\ x.pc # "toggle" /\ x.listener = n
    BY <2>1, <2>2, <2>4
  <2> QED
    BY <1>1, <1>3, <2>3, <2>5, PortsQuiet DEF UpdateListener, cfgVars
<1>4. CASE ToggleListener(r)
  <2>1. PICK l \in IdsOf(cfgListeners) :
          Goto(r, [pc |-> "toggle", id |-> l, pListener |-> PointerTo(IndexOf(cfgListeners, l))])
    BY <1>4 DEF ToggleListener
  <2>2. PICK p : p = PointerTo(IndexOf(cfgListeners, l))
    OBVIOUS
  <2>3. Deref(cfgListeners, p) \in Elements(cfgListeners)
    BY <1>1, <2>2, ElementsIn DEF ListsOK
  <2>4. PICK x : x = [pc |-> "toggle", id |-> l, pListener |-> p]
    OBVIOUS
  <2>5. Goto(r, x) /\ x.pc = "toggle" /\ x.pListener = p
    BY <2>1, <2>2, <2>4
  <2> QED
    BY <1>1, <1>4, <2>3, <2>5, PortsQuiet DEF ToggleListener, cfgVars, Saving
<1>5. CASE ToggleOn(r) \/ ToggleOff(r)
  <2>1. PICK e : e = Deref(cfgListeners, req[r].pListener)
    OBVIOUS
  <2>2. e \in Elements(cfgListeners)
    BY <1>1, <1>5, <2>1 DEF ToggleOn, ToggleOff, At, PortInv
  <2>3. PICK on, off : on = [e EXCEPT !.enabled = TRUE] /\ off = [e EXCEPT !.enabled = FALSE]
    OBVIOUS
  <2>4. ~DuplicatePort(on) /\ ~DuplicatePort(off)
    BY <1>1, <2>2, <2>3, ListedPort
  <2>5. \/ Goto(r, [pc |-> "saveOn", listener |-> on])
        \/ Goto(r, [pc |-> "stopToggled", id |-> req[r].id, pListener |-> req[r].pListener,
                    listener |-> off])
    BY <1>5, <2>1, <2>3 DEF ToggleOn, ToggleOff
  <2>6. PICK x : /\ x = [pc |-> "saveOn", listener |-> on]
                    \/ x = [pc |-> "stopToggled", id |-> req[r].id, pListener |-> req[r].pListener,
                            listener |-> off]
                 /\ Goto(r, x)
    BY <2>5
  <2>7. x.pc # "toggle" /\ ~DuplicatePort(x.listener)
    BY <2>4, <2>6
  <2> QED
    BY <1>1, <1>5, <2>6, <2>7, PortsQuiet DEF ToggleOn, ToggleOff, cfgVars
<1>6. CASE StopToggled(r)
  <2>1. req[r] \in OffState /\ ~DuplicatePort(req[r].listener)
    BY <1>1, <1>6, RequestShapes DEF StopToggled, At, PortInv, Saving
  <2>2. PICK x : /\ x = [req[r] EXCEPT !.pc = "saveOff"] \/ x = [req[r] EXCEPT !.pc = "saveUnstopped"]
                 /\ Goto(r, x)
    BY <1>6 DEF StopToggled, Stopped
  <2>3. x.pc # "toggle" /\ x.listener = req[r].listener
    BY <2>1, <2>2 DEF OffState
  <2> QED
    BY <1>1, <1>6, <2>1, <2>2, <2>3, PortsQuiet DEF StopToggled, cfgVars
<1> QED
  BY <1>2, <1>3, <1>4, <1>5, <1>6


(* The steps that save the list of listeners. *)
LEMMA PortSavedStep ==
  ASSUME AdminTypeInv, UniqueInv, PortInv, NEW r, Request = {r},
         \/ AddListener(r) \/ SaveUpdated(r) \/ SaveOn(r) \/ SaveOff(r) \/ SaveUnstopped(r)
         \/ DeleteFromConfig(r)
  PROVE  PortInv'
<1>1. /\ ListsOK /\ RequestsOK /\ r \in Request /\ PortsAreUnique
      /\ req \in [Request -> RequestState] /\ req = [q \in Request |-> req[q]]
  BY DEF AdminTypeInv, RequestsOK, PortInv
<1>2. SUFFICES PortsAreUnique' /\ req'[r].pc \notin Saving \cup {"toggle"}
  BY <1>1 DEF PortInv
<1>3. CASE AddListener(r)
  <2>1. req[r] \in AddState /\ ~DuplicatePort(req[r].listener)
    BY <1>1, <1>3, RequestShapes DEF AddListener, At, PortInv, Saving
  <2>2. req[r].listener \in GivenListener /\ cfgListeners' = Appended(cfgListeners, req[r].listener)
    BY <1>3, <2>1 DEF AddListener, AddState
  <2>3. PICK ws, next :
          /\ ws \in AfterAppend("pListener", cfgListeners)
          /\ AfterSave(r, ws, TRUE, next, Idle) /\ next.pc \notin Saving \cup {"toggle"}
    <3>1. PICK started : started = IF req[r].listener.enabled THEN Start1(req[r].listener) ELSE Idle
      OBVIOUS
    <3>2. PICK next : next = IF req[r].default = {} THEN started
                             ELSE [pc |-> "addDefault",
                                   service |-> CHOOSE s \in req[r].default : TRUE,
                                   then |-> started]
      OBVIOUS
    <3>3. \E ws \in AfterAppend("pListener", cfgListeners) : AfterSave(r, ws, TRUE, next, Idle)
      BY <1>3, <3>1, <3>2 DEF AddListener
    <3>4. next.pc \notin Saving \cup {"toggle"}
      BY <3>1, <3>2, QuietSteps DEF Saving
    <3> QED
      BY <3>3, <3>4
  <2>4. ws = [q \in Request |-> ws[q]]
    BY <1>1, <2>3 DEF AfterAppend, Keeping
  <2> QED
    BY <1>1, <2>1, <2>2, <2>3, <2>4, AppendedPorts, SavedQuietly, QuietSteps
<1>4. CASE SaveUpdated(r) \/ SaveOn(r) \/ SaveOff(r) \/ SaveUnstopped(r)
  <2>1. /\ req[r].listener \in GivenListener /\ ~DuplicatePort(req[r].listener)
        /\ cfgListeners' = Updated(req[r].listener)
    <3>1. req[r] \in UpdateState \cup OnState \cup OffState /\ ~DuplicatePort(req[r].listener)
      BY <1>1, <1>4, RequestShapes
         DEF SaveUpdated, SaveOn, SaveOff, SaveUnstopped, At, PortInv, Saving
    <3> QED
      BY <1>4, <3>1 DEF SaveUpdated, SaveOn, SaveOff, SaveUnstopped, UpdateState, OnState, OffState
  <2>2. PortsAreUnique'
    BY <1>1, <2>1, UpdatedPorts
  <2>3. CASE SaveUpdated(r)
    <3>1. req[r] \in UpdateState
      BY <1>1, <2>3, RequestShapes DEF SaveUpdated, At
    <3>2. [req[r] EXCEPT !.pc = "updated"].pc \notin Saving \cup {"toggle"}
      BY <3>1 DEF UpdateState, Saving
    <3> QED
      BY <1>1, <2>2, <2>3, <3>2, SavedQuietly, QuietSteps DEF SaveUpdated
  <2>4. CASE SaveOn(r)
    BY <1>1, <2>2, <2>4, SavedQuietly, QuietSteps DEF SaveOn
  <2>5. CASE SaveOff(r)
    BY <1>1, <2>2, <2>5, SavedQuietly, QuietSteps DEF SaveOff
  <2>6. CASE SaveUnstopped(r)
    BY <1>1, <2>2, <2>6, QuietSteps DEF SaveUnstopped, Goto
  <2> QED
    BY <1>4, <2>3, <2>4, <2>5, <2>6
<1>5. CASE DeleteFromConfig(r)
  <2>1. req'[r] = Idle
    BY <1>1, <1>5 DEF DeleteFromConfig, Goto, Keeping
  <2>2. Elements(cfgListeners') \subseteq Elements(cfgListeners)
    <3>1. CASE HasListener(req[r].id)
      <4>1. PICK i \in 1 .. cfgListeners.len : cfgListeners' = Remove(cfgListeners, i)
        BY <1>1, <1>5, <3>1, IndexOfFirst DEF DeleteFromConfig, HasListener, ListsOK
      <4>2. /\ cfgListeners'.len = cfgListeners.len - 1 /\ cfgListeners.len \in Nat
            /\ \A k \in 1 .. cfgListeners.len - 1 :
                 cfgListeners'.cells[k] =
                   IF k < i THEN cfgListeners.cells[k] ELSE cfgListeners.cells[k + 1]
        BY <1>1, <4>1, RemoveIn, SliceFacts DEF ListsOK
      <4>3. ASSUME NEW k \in 1 .. cfgListeners.len - 1
            PROVE  cfgListeners'.cells[k] \in Elements(cfgListeners)
        <5>1. k \in 1 .. cfgListeners.len /\ k + 1 \in 1 .. cfgListeners.len
          BY <4>2
        <5> QED
          BY <4>2, <5>1 DEF Elements
      <4> QED
        BY <4>2, <4>3 DEF Elements
    <3>2. CASE ~HasListener(req[r].id)
      BY <1>5, <3>2 DEF DeleteFromConfig
    <3> QED
      BY <3>1, <3>2
  <2> QED
    BY <1>1, <2>1, <2>2, QuietSteps DEF PortsAreUnique
<1> QED
  BY <1>3, <1>4, <1>5

LEMMA PortStep ==
  ASSUME NEW r, Request = {r}
  PROVE  AdminTypeInv /\ UniqueInv /\ PortInv /\ [AdminNext]_adminVars => PortInv'
<1> SUFFICES ASSUME AdminTypeInv, UniqueInv, PortInv, [AdminNext]_adminVars
             PROVE  PortInv'
  OBVIOUS
<1>1. CASE UNCHANGED <<cfgVars, req>>
  <2>1. cfgListeners' = cfgListeners /\ req' = req
    BY <1>1 DEF cfgVars
  <2> QED
    BY <2>1 DEF PortInv, PortsAreUnique, DuplicatePort
<1>2. CASE HandlerStep(r)
  BY <1>2, NoPortChecked, ServicesSavedQuietly, PortCheckedStep, PortSavedStep, PortsKept
     DEF HandlerStep
<1> QED
  BY <1>1, <1>2 DEF AdminNext, SocketStep, adminVars

(* While requests are answered one at a time, no handler gives a listener  *)
(* the port of another, whatever the bodies ask for and whichever save or  *)
(* stop fails.  Two requests at once can: each checks before either saves. *)
THEOREM PortsStayUnique ==
  ASSUME NEW r, Request = {r},
         \A i, j \in DOMAIN StoredListeners :
           StoredListeners[i].port = StoredListeners[j].port => i = j
  PROVE  AdminSpec => []PortsAreUnique
<1>1. AdminInit => PortInv
  <2> SUFFICES ASSUME AdminInit
               PROVE  PortInv
    OBVIOUS
  <2>1. cfgListeners = Slice(StoredListeners) /\ \A q \in Request : req[q].pc \in {"start", "idle"}
    BY DEF AdminInit, Idle
  <2>2. PortsAreUnique
    BY <2>1, StoredAssumption DEF PortsAreUnique, Elements, Slice
  <2> QED
    BY <2>1, <2>2 DEF PortInv, Saving
<1>2. AdminTypeInv /\ UniqueInv /\ PortInv /\ [AdminNext]_adminVars => PortInv'
  BY PortStep
<1>3. PortInv => PortsAreUnique
  BY DEF PortInv
<1> QED
  BY <1>1, <1>2, <1>3, AdminInvariantHolds, PTL DEF AdminSpec

=============================================================================
