--------------------------- MODULE ListenerAdmin ---------------------------
(***************************************************************************)
(* The admin handlers that manage listeners and services (handlers/api.go),*)
(* the two configuration lists they share (config/manager.go) and the      *)
(* listener table they drive (ProxyServer).                                *)
(*                                                                         *)
(* A handler runs in the goroutine of its HTTP request and takes one lock  *)
(* at a time, m.mu of the configuration or s.mu of the server, never both. *)
(* Each stay under a lock is one step, so that requests interleave between *)
(* them: what a handler read may be old when it acts on it.  The reads     *)
(* with which a handler checks its request, one after the other, are one   *)
(* step.                                                                   *)
(*                                                                         *)
(* GetListener and GetService return a pointer into the list, not a copy.  *)
(* A list is its backing array and its length, a pointer an index into the *)
(* array: what it points to changes when an element is overwritten or the  *)
(* elements behind a deleted one move up.  When append or DeleteListener   *)
(* replaces the array, the pointers in use keep the old element.  Reading  *)
(* through a pointer right after taking it, with no lock in between, is    *)
(* part of the step that takes it; ToggleServiceHandler, which writes      *)
(* through its pointer, reaches the element in steps of their own.         *)
(*                                                                         *)
(* Abstractions: the order of the services belongs to another module, so   *)
(* that ReorderServices changes nothing here; listener settings are the    *)
(* port, the protocol and the switch; HTTP/2 and HTTP/3 stay off; what is  *)
(* written through a pointer into a replaced array is seen by the request  *)
(* that wrote it alone; turning a switch is one step.                      *)
(***************************************************************************)
EXTENDS ProxyServer, GoSlices

CONSTANTS
  Request,          \* request slots: goroutines that may run at once
  Operations,       \* the handlers the administrator uses
  NewListeners,     \* bodies of the requests that create a listener
  ListenerBodies,   \* bodies of the requests that change one
  ServiceBodies,    \* bodies of the requests that create or change a service
  StoredListeners,  \* the lists config.json holds when the program starts
  StoredServices,
  SaveFails         \* may Manager.Save fail to write config.json?

(* Elements of config.Listeners and config.Services. *)
ListenerEntry == [id : Listener, port : Port, protocol : {"http", "https"},
                  enabled : BOOLEAN]
ServiceEntry == [id : Service, portID : Listener, enabled : BOOLEAN, valid : BOOLEAN]

(* models.PortListener and models.ServiceConfig as the server sees them.   *)
AsListener(e) == [id |-> e.id, port |-> e.port, protocol |-> e.protocol]
AsService(e) == [id |-> e.id, enabled |-> e.enabled, valid |-> e.valid,
                 http2 |-> FALSE, http3 |-> FALSE]

(* What the file and the bodies say of listeners and services, but for the *)
(* switches, which the handlers turn.                                      *)
ListenersGiven ==
  {AsListener(e) : e \in NewListeners \cup ListenerBodies \cup Elements(Slice(StoredListeners))}
ServicesGiven ==
  {AsService([e EXCEPT !.enabled = on]) :
     e \in ServiceBodies \cup Elements(Slice(StoredServices)), on \in BOOLEAN}

Handlers == {"CreateListener", "UpdateListener", "DeleteListener", "ToggleListener",
             "ReloadListener", "CreateService", "UpdateService", "DeleteService",
             "ToggleService", "ReorderServices", "Restart"}

ASSUME BodiesAssumption ==
  /\ NewListeners \cup ListenerBodies \subseteq ListenerEntry
  /\ ServiceBodies \subseteq ServiceEntry
  /\ Operations \subseteq Handlers
  /\ SaveFails \in BOOLEAN

(* uuid.New gave every stored entry an identifier of its own. *)
ASSUME StoredAssumption ==
  /\ StoredListeners \in Seq(ListenerEntry) /\ StoredServices \in Seq(ServiceEntry)
  /\ \A i, j \in DOMAIN StoredListeners :
       StoredListeners[i].id = StoredListeners[j].id => i = j
  /\ \A i, j \in DOMAIN StoredServices :
       StoredServices[i].id = StoredServices[j].id => i = j

(* ProxyServer is given what the handlers may submit. *)
ASSUME SubmittedAssumption ==
  [listener : ListenersGiven, services : SUBSET ServicesGiven] \subseteq Configs

VARIABLES
  cfgListeners,  \* config.Listeners
  cfgServices,   \* config.Services
  unused,        \* identifiers uuid.New has not given out
  req            \* what the goroutine in each slot does next, and its locals

cfgVars == <<cfgListeners, cfgServices, unused>>
adminVars == <<vars, cfgVars, req>>

-----------------------------------------------------------------------------
(* Go slices and pointers into them *)

(* The requests once the array behind s is replaced: the pointers into it, *)
(* the locals named f, keep what they lead to.                             *)
Keeping(f, s) ==
  [r \in Request |->
     IF f \in DOMAIN req[r]
     THEN [req[r] EXCEPT ![f] = [kept |-> TRUE, element |-> Deref(s, @)]]
     ELSE req[r]]

(* The requests after append(s, e). *)
AfterAppend(f, s) == {req} \cup (IF ArrayMayMove(s) THEN {Keeping(f, s)} ELSE {})

-----------------------------------------------------------------------------
(* Reading the configuration *)

(* GetServicesByPort *)
ServicesByPort(l) == {AsService(e) : e \in {x \in Elements(cfgServices) : x.portID = l}}

HasListener(l) == l \in IdsOf(cfgListeners)
HasService(s) == s \in IdsOf(cfgServices)

(* Mutant: only listeners that are switched on count. *)
DuplicateEnabledPort(e) ==
  \E x \in Elements(cfgListeners) : x.id # e.id /\ x.enabled /\ x.port = e.port

(* validateListenerBeforeSave: the error for a port another listener has,  *)
(* and the probe that finds the port bound already.                        *)
DuplicatePort(e) ==
  \E x \in Elements(cfgListeners) : x.id # e.id /\ x.port = e.port
PortBound(p) ==
  p \in foreign \cup abandoned \cup {servers[k].port : k \in {j \in Listener : Holds(j)}}
PortOccupied(e) ==
  /\ ~ \E x \in Elements(cfgListeners) : x.id = e.id /\ x.enabled /\ x.port = e.port
  /\ PortBound(e.port)

-----------------------------------------------------------------------------
(* Control of a request *)

Idle == [pc |-> "idle"]
Arrives(r, op) == req[r] = Idle /\ op \in Operations
At(r, pc) == req[r].pc = pc
Goto(r, next) == req' = [req EXCEPT ![r] = next]

(* Start the listeners of todo one after the other; none left, answer.     *)
StartAll(todo) ==
  IF todo = <<>> THEN Idle
  ELSE [pc |-> "snapshot", listener |-> Head(todo), todo |-> Tail(todo)]

Start1(e) == StartAll(<<AsListener(e)>>)

(* Where a handler goes after Save, which may have failed.  A mutator that *)
(* finds no element to change reports success and saves nothing.           *)
AfterSave(r, requests, saves, next, failed) ==
  \/ req' = [requests EXCEPT ![r] = next]
  \/ SaveFails /\ saves /\ req' = [requests EXCEPT ![r] = failed]

(* StopListener, which may report that closing the socket failed. *)
Stopped(r, l, next, failed) ==
  \/ StopListener(l) /\ Goto(r, next)
  \/ StopListenerFails(l) /\ Goto(r, failed)

-----------------------------------------------------------------------------
(* StartListener: the services are read under m.mu ... *)
StartListener(r) ==
  /\ At(r, "snapshot")
  /\ LET e == req[r].listener IN
     Goto(r, [pc |-> "apply", todo |-> req[r].todo,
              config |-> [listener |-> e, services |-> ServicesByPort(e.id)]])
  /\ UNCHANGED <<vars, cfgVars>>

(* ... and applied under s.mu. *)
Apply(r) ==
  /\ At(r, "apply")
  /\ ApplyListenerConfig(req[r].config)
  /\ Goto(r, StartAll(req[r].todo))
  /\ UNCHANGED cfgVars

(* ReloadService and ReloadListener: whatever the listener's switch says.  *)
ReloadListener(r) ==
  /\ At(r, "reload")
  /\ Goto(r, IF HasListener(req[r].portID)
             THEN Start1(Element(cfgListeners, req[r].portID)) ELSE Idle)
  /\ UNCHANGED <<vars, cfgVars>>

Reload(l) == [pc |-> "reload", portID |-> l]

-----------------------------------------------------------------------------
(* CreateListenerHandler: validation first, the lock is not kept ... *)
CreateListener(r) ==
  /\ Arrives(r, "CreateListener")
  /\ \E e \in NewListeners, dflt \in {{}} \cup {{s} : s \in ServiceBodies} :
       /\ {e.id} \cup IdSet(dflt) \subseteq unused
       /\ \A s \in dflt : s.portID = e.id
       /\ ~DuplicatePort(e)
       /\ unused' = unused \ ({e.id} \cup IdSet(dflt))
       /\ Goto(r, [pc |-> "addListener", default |-> dflt,
                   listener |-> [e EXCEPT !.enabled = @ /\ ~PortOccupied(e)]])
  /\ UNCHANGED <<vars, cfgListeners, cfgServices>>

(* ... then AddListener ... *)
AddListener(r) ==
  /\ At(r, "addListener")
  /\ LET e == req[r].listener
         started == IF e.enabled THEN Start1(e) ELSE Idle
         next == IF req[r].default = {} THEN started
                 ELSE [pc |-> "addDefault", service |-> CHOOSE s \in req[r].default : TRUE,
                       then |-> started]
     IN /\ cfgListeners' = Appended(cfgListeners, e)
        /\ \E requests \in AfterAppend("pListener", cfgListeners) :
             AfterSave(r, requests, TRUE, next, Idle)
  /\ UNCHANGED <<vars, cfgServices, unused>>

(* ... and AddService for the default service of the body. *)
AddDefaultService(r) ==
  /\ At(r, "addDefault")
  /\ cfgServices' = Appended(cfgServices, req[r].service)
  /\ \E requests \in AfterAppend("pService", cfgServices) :
       AfterSave(r, requests, TRUE, req[r].then, Idle)
  /\ UNCHANGED <<vars, cfgListeners, unused>>

(* UpdateListenerHandler takes a pointer to the old listener ... *)
UpdateListener(r) ==
  /\ Arrives(r, "UpdateListener")
  /\ \E e \in ListenerBodies :
       /\ HasListener(e.id)
       /\ ~DuplicatePort(e)
       /\ Goto(r, [pc |-> "saveUpdated",
                   pListener |-> PointerTo(IndexOf(cfgListeners, e.id)),
                   listener |-> [e EXCEPT !.enabled = @ /\ ~PortOccupied(e)]])
  /\ UNCHANGED <<vars, cfgVars>>

(* Manager.UpdateListener does nothing when the listener has gone.         *)
Updated(e) ==
  IF HasListener(e.id) THEN SetElement(cfgListeners, IndexOf(cfgListeners, e.id), e)
  ELSE cfgListeners

SaveUpdated(r) ==
  /\ At(r, "saveUpdated")
  /\ cfgListeners' = Updated(req[r].listener)
  /\ AfterSave(r, req, HasListener(req[r].listener.id), [req[r] EXCEPT !.pc = "updated"], Idle)
  /\ UNCHANGED <<vars, cfgServices, unused>>

(* ... and looks at its switch after the update. *)
UpdatedStarts(r) ==
  /\ At(r, "updated")
  /\ req[r].listener.enabled
  /\ Goto(r, Start1(req[r].listener))
  /\ UNCHANGED <<vars, cfgVars>>

UpdatedStops(r) ==
  /\ At(r, "updated")
  /\ ~req[r].listener.enabled
  /\ IF Deref(cfgListeners, req[r].pListener).enabled
     THEN Stopped(r, req[r].listener.id, Idle, Idle)
     ELSE Goto(r, Idle) /\ UNCHANGED vars
  /\ UNCHANGED cfgVars

(* DeleteListenerHandler *)
DeleteListener(r) ==
  /\ Arrives(r, "DeleteListener")
  /\ \E l \in IdsOf(cfgListeners) :
       Goto(r, [pc |-> IF Element(cfgListeners, l).enabled THEN "stopDeleted" ELSE "delete",
                id |-> l])
  /\ UNCHANGED <<vars, cfgVars>>

StopDeleted(r) ==
  /\ At(r, "stopDeleted")
  /\ LET next == [req[r] EXCEPT !.pc = "delete"] IN Stopped(r, req[r].id, next, next)
  /\ UNCHANGED cfgVars

(* Manager.DeleteListener also rebuilds the list of services. *)
DeleteFromConfig(r) ==
  /\ At(r, "delete")
  /\ LET l == req[r].id IN
     IF HasListener(l)
     THEN /\ cfgListeners' = Remove(cfgListeners, IndexOf(cfgListeners, l))
          /\ cfgServices' =
               LET others == {i \in 1 .. cfgServices.len : cfgServices.cells[i].portID # l}
               IN Slice(Selected(cfgServices, others))
          /\ req' = [Keeping("pService", cfgServices) EXCEPT ![r] = Idle]
     ELSE Goto(r, Idle) /\ UNCHANGED <<cfgListeners, cfgServices>>
  /\ UNCHANGED <<vars, unused>>

-----------------------------------------------------------------------------
(* ToggleListenerHandler: the pointer is taken under m.mu ... *)
ToggleListener(r) ==
  /\ Arrives(r, "ToggleListener")
  /\ \E l \in IdsOf(cfgListeners) :
       Goto(r, [pc |-> "toggle", id |-> l, pListener |-> PointerTo(IndexOf(cfgListeners, l))])
  /\ UNCHANGED <<vars, cfgVars>>

(* ... and read after IsListenerRunning gave s.mu back. *)
ToggleOn(r) ==
  /\ At(r, "toggle")
  /\ ~Running(req[r].id)
  /\ Goto(r, [pc |-> "saveOn",
              listener |-> [Deref(cfgListeners, req[r].pListener) EXCEPT !.enabled = TRUE]])
  /\ UNCHANGED <<vars, cfgVars>>

(* Mutant: a running listener is only taken out of the configuration. *)
ToggleOffForgetsStop(r) ==
  /\ At(r, "toggle")
  /\ Running(req[r].id)
  /\ Goto(r, [pc |-> "saveOff", id |-> req[r].id, pListener |-> req[r].pListener,
              listener |-> [Deref(cfgListeners, req[r].pListener) EXCEPT !.enabled = FALSE]])
  /\ UNCHANGED <<vars, cfgVars>>

ToggleOff(r) ==
  /\ At(r, "toggle")
  /\ Running(req[r].id)
  /\ Goto(r, [pc |-> "stopToggled", id |-> req[r].id, pListener |-> req[r].pListener,
              listener |-> [Deref(cfgListeners, req[r].pListener) EXCEPT !.enabled = FALSE]])
  /\ UNCHANGED <<vars, cfgVars>>

SaveOn(r) ==
  /\ At(r, "saveOn")
  /\ cfgListeners' = Updated(req[r].listener)
  /\ AfterSave(r, req, HasListener(req[r].listener.id), Start1(req[r].listener), Idle)
  /\ UNCHANGED <<vars, cfgServices, unused>>

StopToggled(r) ==
  /\ At(r, "stopToggled")
  /\ Stopped(r, req[r].id, [req[r] EXCEPT !.pc = "saveOff"],
             [req[r] EXCEPT !.pc = "saveUnstopped"])
  /\ UNCHANGED cfgVars

(* A failed save starts the listener the pointer now leads to again. *)
SaveOff(r) ==
  /\ At(r, "saveOff")
  /\ cfgListeners' = Updated(req[r].listener)
  /\ AfterSave(r, req, HasListener(req[r].listener.id), Idle,
               Start1(Deref(cfgListeners', req[r].pListener)))
  /\ UNCHANGED <<vars, cfgServices, unused>>

(* A failed stop is answered after the switch is stored all the same. *)
SaveUnstopped(r) ==
  /\ At(r, "saveUnstopped")
  /\ cfgListeners' = Updated(req[r].listener)
  /\ Goto(r, Idle)
  /\ UNCHANGED <<vars, cfgServices, unused>>

(* ReloadListenerHandler *)
ReloadRequested(r) ==
  /\ Arrives(r, "ReloadListener")
  /\ \E e \in Elements(cfgListeners) : e.enabled /\ Goto(r, Reload(e.id))
  /\ UNCHANGED <<vars, cfgVars>>

(* RestartServerHandler: Restart stops everything, then Start reads the    *)
(* configuration once and starts what it read as enabled.                  *)
EnabledListeners ==
  LET enabled == {i \in 1 .. cfgListeners.len : cfgListeners.cells[i].enabled}
      chosen == Selected(cfgListeners, enabled)
  IN [i \in 1 .. Len(chosen) |-> AsListener(chosen[i])]

Restart(r) ==
  /\ Arrives(r, "Restart")
  /\ Stop
  /\ Goto(r, [pc |-> "start"])
  /\ UNCHANGED cfgVars

StartConfigured(r) ==
  /\ At(r, "start")
  /\ Goto(r, StartAll(EnabledListeners))
  /\ UNCHANGED <<vars, cfgVars>>

-----------------------------------------------------------------------------
(* CreateServiceHandler: nobody asks whether the listener is enabled. *)
CreateService(r) ==
  /\ Arrives(r, "CreateService")
  /\ \E e \in ServiceBodies :
       /\ e.id \in unused
       /\ unused' = unused \ {e.id}
       /\ cfgServices' = Appended(cfgServices, e)
       /\ \E requests \in AfterAppend("pService", cfgServices) :
            AfterSave(r, requests, TRUE, IF e.enabled THEN Reload(e.portID) ELSE Idle, Idle)
  /\ UNCHANGED <<vars, cfgListeners>>

(* UpdateServiceHandler reads the switch of the listener first ... *)
UpdateService(r) ==
  /\ Arrives(r, "UpdateService")
  /\ \E e \in ServiceBodies :
       Goto(r, [pc |-> "saveService", service |-> e,
                reload |-> ~ \E x \in Elements(cfgListeners) : x.id = e.portID /\ ~x.enabled])
  /\ UNCHANGED <<vars, cfgVars>>

(* Mutant: a service that has gone is added again. *)
UpdatedServiceOrAdded(e) ==
  IF HasService(e.id) THEN SetElement(cfgServices, IndexOf(cfgServices, e.id), e)
  ELSE Appended(cfgServices, e)

(* Manager.UpdateService does nothing when the service has gone. *)
UpdatedService(e) ==
  IF HasService(e.id) THEN SetElement(cfgServices, IndexOf(cfgServices, e.id), e)
  ELSE cfgServices

(* Mutant: only services that are switched on are reloaded. *)
SaveServiceReloadsEnabled(r) ==
  /\ At(r, "saveService")
  /\ cfgServices' = UpdatedService(req[r].service)
  /\ AfterSave(r, req, HasService(req[r].service.id),
               IF req[r].reload /\ req[r].service.enabled
               THEN Reload(req[r].service.portID) ELSE Idle, Idle)
  /\ UNCHANGED <<vars, cfgListeners, unused>>

(* ... saves, and reloads by what it read. *)
SaveService(r) ==
  /\ At(r, "saveService")
  /\ cfgServices' = UpdatedService(req[r].service)
  /\ AfterSave(r, req, HasService(req[r].service.id),
               IF req[r].reload THEN Reload(req[r].service.portID) ELSE Idle, Idle)
  /\ UNCHANGED <<vars, cfgListeners, unused>>

(* DeleteServiceHandler takes a pointer to the service ... *)
DeleteService(r) ==
  /\ Arrives(r, "DeleteService")
  /\ \E s \in IdsOf(cfgServices) :
       Goto(r, [pc |-> "deleteService", id |-> s,
                pService |-> PointerTo(IndexOf(cfgServices, s))])
  /\ UNCHANGED <<vars, cfgVars>>

RemoveService(r) ==
  /\ At(r, "deleteService")
  /\ cfgServices' = IF HasService(req[r].id)
                    THEN Remove(cfgServices, IndexOf(cfgServices, req[r].id))
                    ELSE cfgServices
  /\ AfterSave(r, req, HasService(req[r].id), [pc |-> "reloadPointed", pService |-> req[r].pService], Idle)
  /\ UNCHANGED <<vars, cfgListeners, unused>>

(* ... and reloads the listener of what it points to by then. *)
ReloadPointed(r) ==
  /\ At(r, "reloadPointed")
  /\ Goto(r, Reload(Deref(cfgServices, req[r].pService).portID))
  /\ UNCHANGED <<vars, cfgVars>>

(* ToggleServiceHandler takes a pointer to the service ... *)
ToggleService(r) ==
  /\ Arrives(r, "ToggleService")
  /\ \E s \in IdsOf(cfgServices) :
       Goto(r, [pc |-> "flip", id |-> s, pService |-> PointerTo(IndexOf(cfgServices, s))])
  /\ UNCHANGED <<vars, cfgVars>>

(* ... flips the switch of what it leads to by then, without the lock ...  *)
FlipListed(r) ==
  /\ At(r, "flip")
  /\ ~req[r].pService.kept
  /\ cfgServices' = [cfgServices EXCEPT !.cells[req[r].pService.at].enabled = ~@]
  /\ Goto(r, [req[r] EXCEPT !.pc = "copy"])
  /\ UNCHANGED <<vars, cfgListeners, unused>>

FlipKept(r) ==
  /\ At(r, "flip")
  /\ req[r].pService.kept
  /\ Goto(r, [req[r] EXCEPT !.pc = "copy", !.pService.element.enabled = ~@])
  /\ UNCHANGED <<vars, cfgVars>>

(* ... copies it, without the lock again ... *)
CopyToggled(r) ==
  /\ At(r, "copy")
  /\ Goto(r, [pc |-> "saveToggled", id |-> req[r].id, pService |-> req[r].pService,
              service |-> Deref(cfgServices, req[r].pService)])
  /\ UNCHANGED <<vars, cfgVars>>

(* ... and stores the copy under its identifier. *)
SaveToggled(r) ==
  /\ At(r, "saveToggled")
  /\ cfgServices' = UpdatedService(req[r].service)
  /\ AfterSave(r, req, HasService(req[r].service.id),
               [pc |-> "reloadPointed", pService |-> req[r].pService], Idle)
  /\ UNCHANGED <<vars, cfgListeners, unused>>

(* ReorderServicesHandler, after the order is saved. *)
ReorderServices(r) ==
  /\ Arrives(r, "ReorderServices")
  /\ \E e \in Elements(cfgListeners) : e.enabled /\ Goto(r, Start1(e))
  /\ UNCHANGED <<vars, cfgVars>>

-----------------------------------------------------------------------------
(* main has the admin server running before it calls proxyServer.Start.    *)
AdminInit ==
  /\ Init
  /\ foreign = {}
  /\ cfgListeners = Slice(StoredListeners)
  /\ cfgServices = Slice(StoredServices)
  /\ \E boot \in Request :
       req = [r \in Request |-> IF r = boot THEN [pc |-> "start"] ELSE Idle]
  /\ unused = (Listener \cup Service) \ (IdsOf(cfgListeners) \cup IdsOf(cfgServices))

HandlerStep(r) ==
  \/ CreateListener(r) \/ AddListener(r) \/ AddDefaultService(r)
  \/ UpdateListener(r) \/ SaveUpdated(r) \/ UpdatedStarts(r) \/ UpdatedStops(r)
  \/ DeleteListener(r) \/ StopDeleted(r) \/ DeleteFromConfig(r)
  \/ ToggleListener(r) \/ ToggleOn(r) \/ ToggleOff(r) \/ SaveOn(r)
  \/ StopToggled(r) \/ SaveOff(r) \/ SaveUnstopped(r)
  \/ ReloadRequested(r) \/ Restart(r) \/ StartConfigured(r)
  \/ CreateService(r) \/ UpdateService(r) \/ SaveService(r)
  \/ DeleteService(r) \/ RemoveService(r) \/ ReloadPointed(r)
  \/ ToggleService(r) \/ FlipListed(r) \/ FlipKept(r) \/ CopyToggled(r)
  \/ SaveToggled(r) \/ ReorderServices(r)
  \/ StartListener(r) \/ Apply(r) \/ ReloadListener(r)

(* The goroutines of serveListener. *)
SocketStep ==
  /\ \/ \E l \in Listener : Serve(l)
     \/ \E p \in Port : ServeAbandoned(p)
  /\ UNCHANGED <<cfgVars, req>>

AdminNext == SocketStep \/ \E r \in Request : HandlerStep(r)

AdminSpec == AdminInit /\ [][AdminNext]_adminVars
-----------------------------------------------------------------------------
(* Properties *)

(* Nobody's request is under way. *)
Quiet == \A r \in Request : req[r] = Idle

(* Once the requests are answered, a listener that accepts connections is  *)
(* one the configuration still has, and has switched on: a listener the    *)
(* administrator disabled or deleted does not go on serving, nor does a    *)
(* change of a service bring it back.                                      *)
RunningIsEnabled ==
  Quiet => \A l \in Listener : Running(l) =>
    \E e \in Elements(cfgListeners) : e.id = l /\ e.enabled

(* Once the requests are answered, a running listener answers with the     *)
(* services the configuration enables for it: what UpdateServiceHandler    *)
(* saved is served, and a service it switched off is not.  Services        *)
(* buildListenerRoutes refuses leave the routes as they were, which the    *)
(* handlers report.  DeleteServiceHandler breaks this: it reloads the      *)
(* listener of whatever service its pointer leads to after the removal.    *)
RoutesAreCurrent ==
  Quiet => \A l \in Listener :
    Running(l) /\ HasListener(l) /\ Buildable(ServicesByPort(l)) =>
      routes[l] = Enabled(ServicesByPort(l))

(* ToggleServiceHandler stores the service its URL names.  It does not     *)
(* when another request moves the elements under its pointer.              *)
ToggledIsNamed ==
  \A r \in Request : At(r, "saveToggled") => req[r].service.id = req[r].id

(* No two listeners are configured on one port. *)
PortsAreUnique ==
  \A e, f \in Elements(cfgListeners) : e.port = f.port => e.id = f.id

(* The lists hold an identifier once, and only a create request adds one:  *)
(* no handler that works on an old copy of a listener or a service puts    *)
(* back what another request deleted in the meantime.                      *)
IdentifiersAreUnique ==
  /\ Cardinality(IdsOf(cfgListeners)) = cfgListeners.len
  /\ Cardinality(IdsOf(cfgServices)) = cfgServices.len
DeletedStaysDeleted ==
  [][/\ \A l \in IdsOf(cfgListeners)' \ IdsOf(cfgListeners) :
          \E r \in Request : At(r, "addListener") /\ req[r].listener.id = l
     /\ \A s \in IdsOf(cfgServices)' \ IdsOf(cfgServices) :
          s \in unused \/ \E r \in Request : At(r, "addDefault") /\ req[r].service.id = s
    ]_adminVars

=============================================================================
