--------------------------- MODULE Configuration ---------------------------
(***************************************************************************)
(* The configuration in memory and in config.json (config/manager.go), the *)
(* handlers that change services and users (handlers/api.go), the login    *)
(* (fnproxy/server.go), and the process that crashes and starts again.     *)
(*                                                                         *)
(* A stay under m.mu that ends with Save is two actions: the change, which *)
(* truncates the file, and the end of the write; nobody else has the lock  *)
(* in between.  Pointers into the lists are ListenerAdmin's subject: here  *)
(* a handler on services is one stay.  A user is its identifier, its name, *)
(* its switch and its token; passwords fit or do not.  The logins all come *)
(* from one machine.  Left out of the file: what the changes modelled here *)
(* carry along untouched.                                                  *)
(***************************************************************************)
EXTENDS CertificateChoice

CONSTANTS
  ServiceId, UserId, Token,
  Name,      \* of users
  Orders,    \* the sort orders requests submit
  Files,     \* what config.json may hold at the first start
  Bindings,  \* the certificates services may be bound to
  Works,     \* how much happens: the bounds of one behaviour
  Worker,    \* goroutines of requests about users
  Client,    \* goroutines of logins
  Key,       \* what a login is counted under: the address and port of its
             \* connection, or the first entry of its X-Forwarded-For
  Missing, Torn,  \* no file; one that is not valid JSON
  None       \* no token; no login

(* models.ServiceConfig, models.User, and the part of models.AppConfig     *)
(* that holds them.                                                        *)
ServiceRecord ==
  [id : ServiceId, port : Port, domain : Domain, enabled : BOOLEAN, order : Int, created : Int]
UserRecord ==
  [id : UserId, name : Name, enabled : BOOLEAN, token : Token \cup {None}]
AppConfig == [services : Seq(ServiceRecord), users : Seq(UserRecord)]

ASSUME ConfigurationAssumption ==
  /\ Torn # Missing /\ {Torn, Missing} \cap AppConfig = {} /\ "admin" \in UserId \cap Name
  /\ Orders \subseteq Int
  /\ \A f \in Files :
       /\ f \in AppConfig
       /\ \A i, j \in DOMAIN f.services : f.services[i].id = f.services[j].id => i = j
       /\ \A i, j \in DOMAIN f.users : f.users[i].id = f.users[j].id => i = j
  /\ IsFiniteSet(Client) /\ None \notin Key
  /\ Bindings \subseteq [ServiceId -> Certificate \cup {Unbound}]
  /\ Works \subseteq [services : Nat, users : Nat, logins : Nat, faults : Nat]

VARIABLES
  running,   \* is there a process?
  services,  \* m.config.Services
  users,     \* m.config.Users
  saving,    \* is os.WriteFile under way, under m.mu?
  file,      \* config.json
  behind,    \* history: the file could not be opened since it was last written
  request,   \* the request about users each worker handles
  trying,    \* the key under which each login passed IsBlocked, if it did
  attempts,  \* the failures under each key within the window
  work       \* what may still happen

memoryVars == <<services, users, saving>>
diskVars == <<file, behind>>
loginVars == <<trying, attempts>>
configVars == <<running, services, users, saving, file, behind, request, trying, attempts, work>>

User(id, name, enabled, token) ==
  [id |-> id, name |-> name, enabled |-> enabled, token |-> token]
Contents == [services |-> services, users |-> users]

(* GetManager: what the program is delivered with. *)
Defaults == [services |-> <<>>, users |-> <<User("admin", "admin", TRUE, None)>>]

Idle == [pc |-> "idle"]
NoLogins == [c \in Client |-> None]
NoFailures == [k \in Key |-> 0]

-----------------------------------------------------------------------------
(* Saving *)

Locked == ~running \/ saving
Uses(kind) == work[kind] > 0 /\ work' = [work EXCEPT ![kind] = @ - 1]

(* A change, then Save: the file is truncated, or it cannot be opened and  *)
(* the change stays in memory only.                                        *)
Changes(kind, newServices, newUsers) ==
  /\ ~Locked
  /\ services' = newServices /\ users' = newUsers
  /\ \/ /\ file' = Torn /\ saving' = TRUE /\ Uses(kind)
        /\ UNCHANGED behind
     \/ /\ work.faults > 0 /\ work[kind] > 0
        /\ work' = [work EXCEPT ![kind] = @ - 1, !.faults = @ - 1]
        /\ behind' = TRUE
        /\ UNCHANGED <<file, saving>>
  /\ UNCHANGED <<running, attempts>>

(* Mutant: only what Load would not rebuild is written. *)
SavesServicesOnly ==
  /\ saving
  /\ file' = [services |-> services, users |-> Defaults.users]
  /\ saving' = FALSE /\ behind' = FALSE
  /\ UNCHANGED <<running, services, users, request, loginVars, work>>

(* os.WriteFile returns: everything is in the file. *)
Saved ==
  /\ saving
  /\ file' = Contents
  /\ saving' = FALSE /\ behind' = FALSE
  /\ UNCHANGED <<running, services, users, request, loginVars, work>>

(* The disk is full: the handler answers 500, the file stays truncated.    *)
SaveFails ==
  /\ saving /\ Uses("faults")
  /\ saving' = FALSE
  /\ UNCHANGED <<running, services, users, diskVars, request, loginVars>>

-----------------------------------------------------------------------------
(* The process *)

Ends ==
  /\ running' = FALSE /\ saving' = FALSE
  /\ services' = <<>> /\ users' = <<>>
  /\ request' = [w \in Worker |-> Idle]
  /\ trying' = NoLogins /\ attempts' = NoFailures
  /\ UNCHANGED diskVars

Stop == running /\ ~saving /\ Ends /\ UNCHANGED work
Crash == running /\ saving /\ Uses("faults") /\ Ends

(* Load: an error is ignored by GetManager, which leaves the defaults.     *)
Loaded == IF file \in {Missing, Torn} THEN Defaults
          ELSE [file EXCEPT !.services = NormalisedAll(@)]

Start ==
  /\ ~running
  /\ running' = TRUE
  /\ services' = Loaded.services /\ users' = Loaded.users
  /\ file' = IF file = Missing THEN Defaults ELSE file
  /\ UNCHANGED <<saving, behind, request, loginVars, work>>

-----------------------------------------------------------------------------
(* Services *)

ChangesServices(newServices) ==
  Changes("services", newServices, users) /\ UNCHANGED <<request, trying>>

Submitted(id) ==
  {Service(id, p, d, e, o, 0) : p \in Port, d \in Domain, e \in BOOLEAN, o \in Orders}

AddService ==
  \E id \in {x \in ServiceId : Indexed(services, x) = {}} :
    \E s \in Submitted(id) : ChangesServices(Added(services, s))

UpdateService ==
  \E i \in DOMAIN services : \E s \in Submitted(services[i].id) :
    ChangesServices(Updated(services, i, s))

DeleteService == \E i \in DOMAIN services : ChangesServices(Deleted(services, i))

ReorderServices ==
  \E p \in Port, ids \in {<<a, b>> : a, b \in ServiceId} :
    ChangesServices(Reordered(services, p, ids))

-----------------------------------------------------------------------------
(* Users *)

UserIndex(id) == {i \in DOMAIN users : users[i].id = id}
EnabledUsers(list) == {i \in DOMAIN list : list[i].enabled}

(* Mutant: a disabled user's token is free. *)
UniqueAmongEnabled(token, id) ==
  token = None \/ \A i \in EnabledUsers(users) : users[i].id # id => users[i].token # token

(* ensureUniqueUserToken *)
UniqueToken(token, id) ==
  token = None \/ \A i \in DOMAIN users : users[i].id # id => users[i].token # token

(* A request begins; those under way are no longer alone.                  *)
Begins(w, pc, user) ==
  LET others == {v \in Worker \ {w} : request[v] # Idle}
  IN request' = [v \in Worker |->
                   IF v = w THEN [pc |-> pc, user |-> user, alone |-> others = {}]
                   ELSE IF v \in others THEN [request[v] EXCEPT !.alone = FALSE] ELSE request[v]]

Reads(w, pc, user) ==
  /\ ~Locked /\ request[w] = Idle /\ work.users > 0
  /\ Begins(w, pc, user)
  /\ UNCHANGED <<running, memoryVars, diskVars, loginVars, work>>

(* CreateUserHandler: the token is checked in one stay, the user added in  *)
(* the next.  Nobody asks whether the name is free.                        *)
CreateUser(w) ==
  \E id \in UserId, n \in Name, e \in BOOLEAN, t \in Token \cup {None} :
    /\ UserIndex(id) = {} /\ UniqueToken(t, id)
    /\ \A v \in Worker : request[v] # Idle => request[v].user.id # id
    /\ Reads(w, "add", User(id, n, e, t))

(* UpdateUserHandler: a copy of the user, then the check, then the store.  *)
(* An empty token stands for the one the user has.                         *)
UpdateUser(w) ==
  \E i \in DOMAIN users, n \in Name, e \in BOOLEAN, t \in Token \cup {None} :
    Reads(w, "check", User(users[i].id, n, e, IF t = None THEN users[i].token ELSE t))

CheckToken(w) ==
  /\ ~Locked /\ request[w].pc = "check"
  /\ request' = [request EXCEPT ![w] = IF UniqueToken(@.user.token, @.user.id)
                                       THEN [@ EXCEPT !.pc = "update"] ELSE Idle]
  /\ UNCHANGED <<running, memoryVars, diskVars, loginVars, work>>

(* Mutant: the user itself is not counted out. *)
NotTheLast(i) == users[i].enabled => EnabledUsers(users) # {}

(* ToggleUserHandler and DeleteUserHandler count in a copy of the list.    *)
MayGo(i) == users[i].enabled => Cardinality(EnabledUsers(users)) > 1

ToggleUser(w) ==
  \E i \in DOMAIN users :
    /\ MayGo(i)
    /\ Reads(w, "toggle", [users[i] EXCEPT !.enabled = ~@])

DeleteUser(w) ==
  \E i \in DOMAIN users : MayGo(i) /\ Reads(w, "delete", users[i])

(* The second stay of each: what was read is stored or removed, if the     *)
(* user is still there.                                                    *)
StoreUser(w) ==
  /\ request[w].pc \in {"add", "update", "toggle", "delete"}
  /\ LET user == request[w].user
         index == UserIndex(user.id)
     IN \/ /\ request[w].pc = "add"
           /\ Changes("users", services, Append(users, user))
        \/ /\ request[w].pc \in {"update", "toggle"}
           /\ \E i \in index : Changes("users", services, [users EXCEPT ![i] = user])
        \/ /\ request[w].pc = "delete"
           /\ \E i \in index : Changes("users", services, RemoveAt(users, i))
        \/ /\ request[w].pc # "add" /\ index = {} /\ ~Locked
           /\ UNCHANGED <<running, memoryVars, diskVars, attempts, work>>
  /\ request' = [request EXCEPT ![w] = Idle]
  /\ UNCHANGED trying

-----------------------------------------------------------------------------
(* Logins (handleOAuthLogin) *)

MaxAttempts == 5

(* Mutant: one attempt more. *)
IsBlockedLate(k) == attempts[k] > MaxAttempts

(* loginAttemptTracker.IsBlocked *)
IsBlocked(k) == attempts[k] >= MaxAttempts

(* A connection of its own for every attempt, or a header of its own, and  *)
(* the attempt is counted under a key of its own.                          *)
TryLogin(c) ==
  \E k \in Key :
    /\ running /\ trying[c] = None /\ ~IsBlocked(k)
    /\ Uses("logins")
    /\ trying' = [trying EXCEPT ![c] = k]
    /\ UNCHANGED <<running, memoryVars, diskVars, request, attempts>>

Answers(c) == trying[c] # None /\ trying' = [trying EXCEPT ![c] = None]

(* No such user, one that is disabled, or the wrong password: Record.      *)
LoginFails(c) ==
  /\ ~Locked /\ Answers(c)
  /\ attempts' = [attempts EXCEPT ![trying[c]] = @ + 1]
  /\ UNCHANGED <<running, memoryVars, diskVars, request, work>>

(* The form or its encryption is broken: not counted. *)
LoginUnreadable(c) ==
  /\ Answers(c)
  /\ UNCHANGED <<running, memoryVars, diskVars, request, attempts, work>>

(* GetUserByUsername: the first in the list that has the name, or nobody.  *)
UserNamed(name) == {i \in DOMAIN users : /\ users[i].name = name
                                         /\ \A j \in 1 .. i - 1 : users[j].name # name}

LoginSucceeds(c) ==
  /\ ~Locked /\ \E name \in Name : \E i \in UserNamed(name) : users[i].enabled
  /\ Answers(c)
  /\ UNCHANGED <<running, memoryVars, diskVars, request, attempts, work>>

(* The oldest failure of a key leaves the window of fifteen minutes.       *)
AttemptExpires ==
  \E k \in Key :
    /\ attempts[k] > 0
    /\ attempts' = [attempts EXCEPT ![k] = @ - 1]
    /\ UNCHANGED <<running, memoryVars, diskVars, request, trying, work>>

-----------------------------------------------------------------------------
ConfigInit ==
  /\ running = FALSE /\ services = <<>> /\ users = <<>> /\ saving = FALSE
  /\ file \in Files \cup {Missing} /\ behind = FALSE
  /\ request = [w \in Worker |-> Idle]
  /\ trying = NoLogins /\ attempts = NoFailures
  /\ work \in Works

ConfigNext ==
  \/ Start \/ Stop \/ Crash \/ Saved \/ SaveFails
  \/ AddService \/ UpdateService \/ DeleteService \/ ReorderServices
  \/ \E w \in Worker : CreateUser(w) \/ UpdateUser(w) \/ CheckToken(w) \/ ToggleUser(w)
                       \/ DeleteUser(w) \/ StoreUser(w)
  \/ \E c \in Client : TryLogin(c) \/ LoginFails(c) \/ LoginUnreadable(c) \/ LoginSucceeds(c)
  \/ AttemptExpires

ConfigSpec == ConfigInit /\ [][ConfigNext]_configVars

-----------------------------------------------------------------------------
(* Through every history of additions, moves, reorderings and restarts,    *)
(* the service that answers is the one the panel shows as the first among  *)
(* the closest matches: numbers stay without ties, and the sort that       *)
(* builds the routes agrees with the one that gives the numbers.           *)
RoutingIsPromised ==
  running => \A p \in Port, h \in Host : Answering(services, p, h) = Promised(services, p, h)

(* The service that answers shows its own certificate, for every order of  *)
(* the services, every binding and whatever certificates are loaded: two   *)
(* loops over the same list, with different rules for wildcards and for    *)
(* services without a certificate, choose alike.                           *)
ServiceShowsItsCertificate ==
  running => \A p \in Port :
    LET routes == Routes(services, p) IN
    \A h \in Host, bound \in Bindings, loaded \in SUBSET Certificate :
      ShowsItsCertificate(routes, bound, loaded, h)

(* A restart finds what the panel shows, unless the file could not be      *)
(* opened or is torn: it holds the users, and services that answer as      *)
(* those in memory do, though Load numbers them once more.                 *)
FileRestores ==
  running /\ ~saving /\ ~behind /\ file # Torn =>
    /\ Loaded.users = users
    /\ \A p \in Port, h \in Host :
         Answering(Loaded.services, p, h) = Answering(services, p, h)

(* A request to switch a user off or delete it, not overlapped by another, *)
(* leaves a user who is switched on.                                       *)
LastUserStays ==
  [][\A w \in Worker : /\ request[w].pc \in {"toggle", "delete"} /\ request[w].alone
                       /\ EnabledUsers(users) # {} /\ StoreUser(w)
                       => EnabledUsers(users') # {}]_configVars

(* A token stands for one user, as long as requests about users that carry *)
(* one did not overlap.                                                    *)
TokensAreUnique ==
  [][(\A i, j \in DOMAIN users : users[i].token = users[j].token /\ i # j
                                 => users[i].token = None)
     /\ running /\ running'
     /\ (\A w \in Worker : request[w] # Idle => request[w].alone)
     => \A i, j \in DOMAIN users' : users'[i].token = users'[j].token /\ i # j
                                    => users'[i].token = None]_configVars

(* What is counted under one key fails as often as IsBlocked allows, and   *)
(* once more for every login that was under way when it was asked.         *)
UnderWay(k) == {c \in Client : trying[c] = k}
AttemptsAreBounded ==
  \A k \in Key :
    attempts[k] + Cardinality(UnderWay(k)) <= MaxAttempts + Cardinality(Client) - 1

(* What the comment of loginAttemptTracker says: failures are counted for  *)
(* an IP, so that the one machine of this module is bounded as well.       *)
AddressIsBlocked ==
  MapThenSumSet(LAMBDA k : attempts[k], Key) <= MaxAttempts + Cardinality(Client) - 1

(* What the manager's documentation says of Save: the file is written as a *)
(* whole, so that a process that ended left a configuration behind.        *)
SaveIsAtomic == ~running => file # Torn

(* What the interface's documentation says: a name stands for one user.    *)
NamesAreUnique ==
  \A i, j \in DOMAIN users : users[i].name = users[j].name => i = j
=============================================================================
