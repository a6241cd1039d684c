---------------------------- MODULE Certificates ----------------------------
(***************************************************************************)
(* The certificate manager (utils/certificate_manager.go): import, ACME    *)
(* issue and renewal, edits, deletion, the synchronisation with an         *)
(* external list of certificates, and the table TLS handshakes are         *)
(* answered from.                                                          *)
(*                                                                         *)
(* A certificate lives in four places that no lock covers together: its    *)
(* entry in the configuration (m.mu of config.Manager; config.json is what *)
(* a restart finds), the two files with certificate and key, m.loaded      *)
(* (m.mu of CertificateManager), and the services bound to it.  A worker   *)
(* is the goroutine of a request or the maintenance timer, an issuer the   *)
(* goroutine issueACMEAsync, which works for minutes on a copy of the      *)
(* entry.  Every stay under a lock and every file written is a step.       *)
(*                                                                         *)
(* Abstractions.  An issue is a number, so that certificate and key fit    *)
(* when their numbers are equal; it also stands for the expiry and the     *)
(* modification time of the files.  The terms of a certificate are all     *)
(* that needsACMEReissue compares: domains, records, DNS and account.    *)
(* NextRenewAt is the issue whose expiry it was computed from; time makes  *)
(* issues due.  The files of one certificate are read in one step (reading *)
(* a mixture is refused however it came about).  The external list stays   *)
(* at one path, which is never blank (Load and Save put the default one    *)
(* in).  A DNS record is the domain it is for: the value shown is the key  *)
(* authorisation as it comes.  Account keys and HTTP-01 tokens belong to   *)
(* one issue each and are left out, and so is m.manualDNSStore, by which   *)
(* only the button that claims to start the validation is answered.        *)
(***************************************************************************)
EXTENDS FiniteSets, GoSlices

CONSTANTS
  Cert,             \* identifiers of certificates
  SyncCert,         \* those derived from entries of the external list
  Terms,            \* what a request may ask for
  HTTPTerms,        \* terms with the HTTP-01 challenge
  ManualTerms,      \* terms with DNS records the user adds
  Domain,           \* the domains of a certificate with such terms
  SelfSigned,       \* the terms of a certificate generated here
  Worker, Timer,    \* request goroutines, and the one of runAutoRenew
  Issuer,           \* goroutines issueACMEAsync that may run at once
  Overlap,          \* do workers run at the same time?
  Installations,    \* what there is at first, and what is done: see Installation
  MaxIssued,        \* issues there may be: the rate limit of the CA
  MaxRequests,      \* requests of the administrator
  MaxFailed,        \* certificates a step of which fails
  Faults,           \* what may fail: "save", "write", "parse"
  Unreadable,
  None

Issue == 1 .. MaxIssued
File == [crt : Issue \cup {None}, key : Issue \cup {None}]
Entry == [id : Cert, source : {"acme", "imported", "file_sync"},
          terms : Terms \cup {SelfSigned}, autoRenew : BOOLEAN,
          status : {"valid", "renew", "error"},
          expires : Issue \cup {None}, renewAt : Issue \cup {None}]

(* What there is at first and what is done: the list in config.json, the   *)
(* identifiers randomID will give out, the terms and the handlers the      *)
(* administrator uses, the certificates services are bound to, what the    *)
(* external list may be, how many issues there may be (the rate limit of   *)
(* the CA) and how many restarts of the program.                           *)
Installation ==
  [stored : Seq(Entry), fresh : SUBSET (Cert \ SyncCert), terms : SUBSET Terms,
   operations : SUBSET {"Import", "GenerateSelfSigned", "CreateACME", "Update", "Renew",
                        "Delete", "Maintain"},
   bindable : SUBSET Cert, lists : SUBSET ({Unreadable} \cup SUBSET SyncCert),
   maxIssued : Issue, maxCrashes : Nat]

ASSUME CertificateAssumption ==
  /\ SyncCert \subseteq Cert /\ Timer \in Worker /\ Terms # {} /\ MaxIssued \in Nat
  /\ HTTPTerms \cup ManualTerms \subseteq Terms
  /\ \A n \in Installations :
       /\ n \in Installation /\ Len(n.stored) <= n.maxIssued
       /\ \A i \in 1 .. Len(n.stored) : /\ n.stored[i].expires \in 1 .. Len(n.stored)
                                        /\ n.stored[i].id \notin n.fresh
                                        /\ n.stored[i].id \in SyncCert =>
                                             n.stored[i].source = "file_sync"
       /\ \A i, j \in 1 .. Len(n.stored) : n.stored[i].id = n.stored[j].id => i = j
  /\ None \notin Issue \cup Cert \cup Domain
  /\ None \notin [kept : {FALSE}, at : Nat] \cup [kept : {TRUE}, element : Entry]
  /\ None \notin [terms : Terms \cup {SelfSigned}, issue : Issue \cup {None}]

VARIABLES
  installation,      \* one of Installations
  certs,      \* config.Certs
  saved,      \* the list in config.json
  disk,       \* the two files of each certificate
  loaded,     \* m.loaded: what TLS handshakes are answered from
  progress,   \* m.issueProgress
  records,    \* the TXTRecords in it: the domain the user is to add a record for
  bound,      \* certificates some service is bound to
  external,   \* the external list: the certificates in it, or Unreadable
  issued,     \* the number of issues so far
  due,        \* the renewal dates of issues 1 .. due have passed
  unused,     \* identifiers randomID has not given out
  worker, issuer,   \* what each goroutine does next, and its locals
  requests, crashes,  \* how many there were
  raced, hurt      \* history: certificates two goroutines worked on at
                     \* once, and those a step of which failed

configVars == <<certs, saved>>
caVars == <<issued, due, unused>>
tableVars == <<loaded, progress, records>>
outsideVars == <<bound, external, crashes>>
certVars == <<installation, certs, saved, disk, loaded, progress, records, bound, external,
              issued, due, unused, worker, issuer, requests, crashes,
              raced, hurt>>

-----------------------------------------------------------------------------
(* Goroutines *)

Idle == [pc |-> "idle", on |-> {}]
At(w, pc) == worker[w].pc = pc
Goto(w, next) == worker' = [worker EXCEPT ![w] = next]
Begins(w) == worker[w] = Idle /\ (Overlap \/ \A v \in Worker : worker[v] = Idle)
Arrives(w, op) ==
  /\ Begins(w) /\ w # Timer /\ op \in installation.operations
  /\ requests < MaxRequests /\ requests' = requests + 1
IssuerAt(i, pc) == issuer[i].pc = pc
Continue(i, next) == issuer' = [issuer EXCEPT ![i] = next]

Busy == (UNION {worker[w].on : w \in Worker}) \cup (UNION {issuer[i].on : i \in Issuer})

(* The certificates two goroutines work on: requests and maintenance share *)
(* the list and pointers into it, an issuer has only its certificate.      *)
Contended ==
  IF \E v, w \in Worker : v # w /\ worker[v] # Idle /\ worker[w] # Idle THEN Cert
  ELSE {c \in Cert : \/ \E i, j \in Issuer : i # j /\ c \in issuer[i].on \cap issuer[j].on
                     \/ \E i \in Issuer, w \in Worker : c \in issuer[i].on \cap worker[w].on}

MayFail(what) == what \in Faults /\ Cardinality(hurt) < MaxFailed
Mark(ids) == raced' = raced \cup Contended /\ hurt' = hurt \cup ids
Raced == raced \cup Contended

-----------------------------------------------------------------------------
(* The configuration list *)

Configured(c) == c \in IdsOf(certs)

(* Save writes the list, or fails and leaves the file as it was. *)
Saves(c, ok, failed) ==
  \/ saved' = Listed(certs') /\ ok /\ Mark({})
  \/ MayFail("save") /\ UNCHANGED saved /\ failed /\ Mark({c})

(* UpdateCertificate of the configuration: nothing to do is success. *)
UpdateEntry(e, ok, failed) ==
  IF Configured(e.id)
  THEN /\ certs' = SetElement(certs, IndexOf(certs, e.id), e)
       /\ Saves(e.id, ok, failed)
  ELSE UNCHANGED configVars /\ ok /\ Mark({})

(* The workers after append: the array may be copied, and the pointers     *)
(* into it, the locals named ref, keep the element they lead to.           *)
AfterAppend ==
  {worker} \cup
  IF ~ArrayMayMove(certs) THEN {}
  ELSE {[w \in Worker |->
           IF "ref" \in DOMAIN worker[w] /\ worker[w].ref # None
           THEN [worker[w] EXCEPT !.ref = [kept |-> TRUE, element |-> Deref(certs, @)]]
           ELSE worker[w]]}

AddEntry(e, ok, failed) ==
  /\ certs' = Appended(certs, e)
  /\ Saves(e.id, ok, failed)

DeleteEntry(c, ok, failed) ==
  IF Configured(c)
  THEN /\ certs' = Remove(certs, IndexOf(certs, c))
       /\ Saves(c, ok, failed)
  ELSE UNCHANGED configVars /\ ok /\ Mark({})

-----------------------------------------------------------------------------
(* Files and the TLS table *)

Fits(f) == f.crt # None /\ f.crt = f.key

(* tls.X509KeyPair makes a pair of certificate and key of one issue only. *)
Served(terms, p) == [terms |-> terms, issue |-> p]

(* writeFileEnsuringDir: a write that fails may have truncated the file. *)
WriteFile(c, part, p, ok, failed) ==
  \/ disk' = [disk EXCEPT ![c][part] = p] /\ ok /\ Mark({})
  \/ /\ MayFail("write")
     /\ \E left \in {disk[c][part], None} : disk' = [disk EXCEPT ![c][part] = left]
     /\ failed /\ Mark({c})

(* What Reload makes of a list: loadCertificatePair refuses files that are *)
(* missing or do not fit, and the entry is skipped.                        *)
Loadable(entries) ==
  [c \in Cert |->
     IF c \in IdSet(entries) /\ Fits(disk[c])
     THEN Served((CHOOSE e \in entries : e.id = c).terms, disk[c].crt)
     ELSE None]

-----------------------------------------------------------------------------
(* Import, edit, issue *)

(* ImportCertificate and replaceImportedCertificate: the uploaded pair has *)
(* been parsed, the new entry goes to the list after both files.           *)
Upload(w, e, then) ==
  /\ issued < installation.maxIssued
  /\ issued' = issued + 1
  /\ Goto(w, [pc |-> "writeCrt", on |-> {e.id}, then |-> then, serves |-> issued + 1,
              entry |-> [e EXCEPT !.expires = issued + 1, !.status = "valid",
                                  !.renewAt = None]])
  /\ UNCHANGED due

NewEntry(c, source, terms, autoRenew) ==
  [id |-> c, source |-> source, terms |-> terms, autoRenew |-> autoRenew,
   status |-> "valid", expires |-> None, renewAt |-> None]

ImportCertificate(w) ==
  /\ Arrives(w, "Import")
  /\ \E c \in unused, t \in installation.terms :
       /\ unused' = unused \ {c}
       /\ Upload(w, NewEntry(c, "imported", t, FALSE), "add")
  /\ Mark({})
  /\ UNCHANGED <<configVars, disk, tableVars, outsideVars, issuer>>

(* GenerateSelfSignedCertificate puts an entry without tlsCert in m.loaded. *)
GenerateSelfSigned(w) ==
  /\ Arrives(w, "GenerateSelfSigned")
  /\ issued < installation.maxIssued
  /\ issued' = issued + 1
  /\ \E c \in unused :
       /\ unused' = unused \ {c}
       /\ Goto(w, [pc |-> "writeCrt", on |-> {c}, then |-> "add", serves |-> None,
                   entry |-> [NewEntry(c, "imported", SelfSigned, FALSE)
                              EXCEPT !.expires = issued + 1]])
  /\ Mark({})
  /\ UNCHANGED <<configVars, disk, tableVars, outsideVars, due, issuer>>

WriteCrt(w) ==
  /\ At(w, "writeCrt")
  /\ LET e == worker[w].entry IN
     WriteFile(e.id, "crt", e.expires, Goto(w, [worker[w] EXCEPT !.pc = "writeKey"]),
               Goto(w, Idle))
  /\ UNCHANGED <<configVars, tableVars, outsideVars, caVars, issuer>>

WriteKey(w) ==
  /\ At(w, "writeKey")
  /\ LET e == worker[w].entry IN
     WriteFile(e.id, "key", e.expires, Goto(w, [worker[w] EXCEPT !.pc = worker[w].then]),
               Goto(w, Idle))
  /\ UNCHANGED <<configVars, tableVars, outsideVars, caVars, issuer>>

AddImported(w) ==
  /\ At(w, "add")
  /\ \E ws \in AfterAppend :
       AddEntry(worker[w].entry,
                worker' = [ws EXCEPT ![w] = [worker[w] EXCEPT !.pc = "load"]],
                worker' = [ws EXCEPT ![w] = Idle])
  /\ UNCHANGED <<disk, tableVars, outsideVars, caVars, issuer>>

UpdateImported(w) ==
  /\ At(w, "update")
  /\ UpdateEntry(worker[w].entry, Goto(w, [worker[w] EXCEPT !.pc = "load"]), Goto(w, Idle))
  /\ UNCHANGED <<disk, tableVars, outsideVars, caVars, issuer>>

(* Mutant: the new certificate waits for the next Reload. *)
LoadImportedLater(w) ==
  /\ At(w, "load")
  /\ Goto(w, Idle)
  /\ Mark({})
  /\ UNCHANGED <<configVars, disk, tableVars, outsideVars, caVars, issuer>>

LoadImported(w) ==
  /\ At(w, "load")
  /\ LET e == worker[w].entry IN
     loaded' = [loaded EXCEPT ![e.id] = Served(e.terms, worker[w].serves)]
  /\ Goto(w, Idle)
  /\ Mark({})
  /\ UNCHANGED <<configVars, disk, progress, records, outsideVars, caVars, issuer>>

(* IssueACMECertificate: nothing is stored yet, a goroutine starts. *)
IssueACMECertificate(w, e, next) ==
  /\ \E i \in Issuer : /\ issuer[i] = Idle
                       /\ Continue(i, [pc |-> "obtain", on |-> {e.id}, entry |-> e,
                                       awaits |-> {}])
  /\ progress' = [progress EXCEPT ![e.id] = "running"]
  /\ records' = [records EXCEPT ![e.id] = None]
  /\ Goto(w, next)

(* HTTP-01 needs an enabled listener on port 80, which this module leaves  *)
(* open.                                                                   *)
MayBeRefused(e) == e.terms \in HTTPTerms

CreateACME(w) ==
  /\ Arrives(w, "CreateACME")
  /\ \E c \in unused, t \in installation.terms, a \in BOOLEAN :
       /\ unused' = unused \ {c}
       /\ IssueACMECertificate(w, NewEntry(c, "acme", t, a), Idle)
  /\ Mark({})
  /\ UNCHANGED <<configVars, disk, loaded, outsideVars, issued, due>>

(* UpdateCertificate: what is stored when no new issue is needed. *)
EditedACME(e, a) ==
  [e EXCEPT !.autoRenew = a,
            !.renewAt = IF ~a THEN None ELSE IF e.expires # None THEN e.expires ELSE @]

UpdateCertificate(w) ==
  /\ Arrives(w, "Update")
  /\ \E c \in IdsOf(certs), t \in installation.terms, a \in BOOLEAN :
       LET e == Element(certs, c)
           edit(x) == Goto(w, [pc |-> "edit", on |-> Cert, entry |-> x])
       IN \/ /\ e.source = "imported"
             /\ Upload(w, [e EXCEPT !.terms = t, !.autoRenew = a], "update")
             /\ UNCHANGED <<issuer, progress, records>>
          \/ /\ e.source = "imported"
             /\ edit([e EXCEPT !.terms = t, !.autoRenew = a])
             /\ UNCHANGED <<issuer, progress, records, issued, due>>
          \/ /\ e.source = "acme" /\ t = e.terms
             /\ edit(EditedACME(e, a))
             /\ UNCHANGED <<issuer, progress, records, issued, due>>
          \/ /\ e.source = "acme" /\ t # e.terms
             /\ IssueACMECertificate(w, [e EXCEPT !.terms = t, !.autoRenew = a], Idle)
             /\ UNCHANGED <<issued, due>>
  /\ Mark({})
  /\ UNCHANGED <<configVars, disk, loaded, outsideVars, unused>>

StoreEdit(w) ==
  /\ At(w, "edit")
  /\ UpdateEntry(worker[w].entry, Goto(w, [pc |-> "reload", on |-> Cert]), Goto(w, Idle))
  /\ UNCHANGED <<disk, tableVars, outsideVars, caVars, issuer>>

(* Reload reads list and files, and later replaces the whole table. *)
Reload(w) ==
  /\ At(w, "reload")
  /\ Goto(w, [pc |-> "swap", on |-> Cert, table |-> Loadable(Elements(certs))])
  /\ Mark({})
  /\ UNCHANGED <<configVars, disk, tableVars, outsideVars, caVars, issuer>>

SwapLoaded(w) ==
  /\ At(w, "swap")
  /\ loaded' = worker[w].table
  /\ Goto(w, Idle)
  /\ Mark({})
  /\ UNCHANGED <<configVars, disk, progress, records, outsideVars, caVars, issuer>>

-----------------------------------------------------------------------------
(* Renewal and deletion *)

(* RenewCertificate: the status is written through the pointer, without    *)
(* the lock; back is where a maintenance pass goes on.                     *)
BeginRenewal(w, c, back) ==
  LET i == IndexOf(certs, c)
      renewing == [certs.cells[i] EXCEPT !.status = "renew"]
  IN /\ certs' = SetElement(certs, i, renewing)
     /\ Goto(w, [pc |-> "renew", on |-> {c} \cup back.on, ref |-> PointerTo(i),
                 entry |-> renewing, back |-> back])
     /\ UNCHANGED saved

RenewCertificate(w) ==
  /\ Arrives(w, "Renew")
  /\ \E c \in IdsOf(certs) : Element(certs, c).source = "acme" /\ BeginRenewal(w, c, Idle)
  /\ Mark({})
  /\ UNCHANGED <<disk, tableVars, outsideVars, caVars, issuer>>

StoreRenewing(w) ==
  /\ At(w, "renew")
  /\ LET goOn == Goto(w, [worker[w] EXCEPT !.pc = "issue"]) IN
     UpdateEntry(worker[w].entry, goOn, goOn)
  /\ UNCHANGED <<disk, tableVars, outsideVars, caVars, issuer>>

IssueRenewal(w) ==
  /\ At(w, "issue")
  /\ LET e == [Deref(certs, worker[w].ref) EXCEPT !.source = "acme"] IN
     IssueACMECertificate(w, e, worker[w].back)
  /\ Mark({})
  /\ UNCHANGED <<configVars, disk, loaded, outsideVars, caVars>>

RefuseRenewal(w) ==
  /\ At(w, "issue")
  /\ LET e == Deref(certs, worker[w].ref) IN
     /\ MayBeRefused(e)
     /\ Goto(w, [worker[w] EXCEPT !.pc = "refused", !.entry = [e EXCEPT !.status = "error"]])
  /\ Mark({})
  /\ UNCHANGED <<configVars, disk, tableVars, outsideVars, caVars, issuer>>

StoreRefused(w) ==
  /\ At(w, "refused")
  /\ LET goOn == Goto(w, worker[w].back) IN UpdateEntry(worker[w].entry, goOn, goOn)
  /\ UNCHANGED <<disk, tableVars, outsideVars, caVars, issuer>>

DeleteCertificate(w) ==
  /\ Arrives(w, "Delete")
  /\ \E c \in IdsOf(certs) :
       Goto(w, [pc |-> "check", on |-> {c}, id |-> c, ref |-> PointerTo(IndexOf(certs, c)),
                kept |-> Element(certs, c).source = "file_sync"])
  /\ Mark({})
  /\ UNCHANGED <<configVars, disk, tableVars, outsideVars, caVars, issuer>>

(* Mutant: the services are not asked. *)
RemoveFilesUnasked(w) ==
  /\ At(w, "check")
  /\ LET c == worker[w].id
         f == Deref(certs, worker[w].ref).id
     IN /\ disk' = IF worker[w].kept THEN disk
                   ELSE [disk EXCEPT ![f] = [crt |-> None, key |-> None]]
        /\ Goto(w, [pc |-> "delete", on |-> {c}, id |-> c])
  /\ Mark({})
  /\ UNCHANGED <<configVars, tableVars, outsideVars, caVars, issuer>>

(* The services are read; a bound certificate stays.  The paths of the     *)
(* files are read through the pointer.                                     *)
RemoveFiles(w) ==
  /\ At(w, "check")
  /\ LET c == worker[w].id
         f == Deref(certs, worker[w].ref).id
     IN \/ /\ c \in bound
           /\ Goto(w, Idle)
           /\ UNCHANGED disk
        \/ /\ c \notin bound
           /\ disk' = IF worker[w].kept THEN disk
                      ELSE [disk EXCEPT ![f] = [crt |-> None, key |-> None]]
           /\ Goto(w, [pc |-> "delete", on |-> {c}, id |-> c])
  /\ Mark({})
  /\ UNCHANGED <<configVars, tableVars, outsideVars, caVars, issuer>>

DeleteConfigured(w) ==
  /\ At(w, "delete")
  /\ DeleteEntry(worker[w].id,
                 Goto(w, [pc |-> "unload", on |-> worker[w].on, id |-> worker[w].id,
                          back |-> Idle]),
                 Goto(w, Idle))
  /\ UNCHANGED <<disk, tableVars, outsideVars, caVars, issuer>>

(* Mutant: handshakes go on with the certificate. *)
UnloadLater(w) ==
  /\ At(w, "unload")
  /\ Goto(w, worker[w].back)
  /\ Mark({})
  /\ UNCHANGED <<configVars, disk, tableVars, outsideVars, caVars, issuer>>

Unload(w) ==
  /\ At(w, "unload")
  /\ loaded' = [loaded EXCEPT ![worker[w].id] = None]
  /\ Goto(w, worker[w].back)
  /\ Mark({})
  /\ UNCHANGED <<configVars, disk, progress, records, outsideVars, caVars, issuer>>

-----------------------------------------------------------------------------
(* Maintenance: synchronisation with the external list, then renewals *)

Due(p) == p = None \/ p <= due

(* processConfigFileSync reads the list; one that is missing or cannot be  *)
(* read changes nothing.                                                   *)
BeginMaintenance(w) ==
  /\ Begins(w)
  /\ w = Timer \/ "Maintain" \in installation.operations
  /\ Goto(w, IF external = Unreadable THEN [pc |-> "drop", on |-> {}]
             ELSE [pc |-> "sync", on |-> external, wanted |-> external])
  /\ Mark({})
  /\ UNCHANGED <<configVars, disk, tableVars, outsideVars, caVars, issuer>>

(* Mutant: the files are not asked for their time. *)
NeedsReloadByStatus(c) == ~Configured(c) \/ Element(certs, c).status # "valid"

(* syncFileSyncCertificate: new, changed since, or not valid. *)
NeedsReload(c) ==
  \/ ~Configured(c)
  \/ LET e == Element(certs, c)
     IN e.status # "valid" \/ disk[c] # [crt |-> e.expires, key |-> e.expires]

(* The next of the certificates wanted (on): skipped, or read. *)
SyncFile(w) ==
  /\ At(w, "sync")
  /\ \E c \in worker[w].on :
       LET rest == [worker[w] EXCEPT !.on = @ \ {c}] IN
       Goto(w, IF ~NeedsReload(c) THEN rest
               ELSE [pc |-> "synced", on |-> worker[w].on, id |-> c, back |-> rest,
                     ref |-> IF Configured(c) THEN PointerTo(IndexOf(certs, c)) ELSE None,
                     serves |-> IF Fits(disk[c]) THEN disk[c].crt ELSE None])
  /\ Mark({})
  /\ UNCHANGED <<configVars, disk, tableVars, outsideVars, caVars, issuer>>

SyncTerms == CHOOSE t \in Terms : TRUE

(* What is stored: the certificate read, or (updateFileSyncError) that it  *)
(* could not be read.                                                      *)
SyncedEntry(a) ==
  IF a.serves # None
  THEN [NewEntry(a.id, "file_sync", SyncTerms, FALSE) EXCEPT !.expires = a.serves]
  ELSE IF a.ref = None
  THEN [NewEntry(a.id, "file_sync", SyncTerms, FALSE) EXCEPT !.status = "error"]
  ELSE [Deref(certs, a.ref) EXCEPT !.status = "error"]

StoreSynced(w) ==
  /\ At(w, "synced")
  /\ LET a == worker[w]
         e == SyncedEntry(a)
         next == IF a.serves # None THEN [a EXCEPT !.pc = "loadSynced"] ELSE a.back
     IN IF a.ref = None
        THEN \E ws \in AfterAppend : AddEntry(e, worker' = [ws EXCEPT ![w] = next],
                                              worker' = [ws EXCEPT ![w] = a.back])
        ELSE UpdateEntry(e, Goto(w, next), Goto(w, a.back))
  /\ UNCHANGED <<disk, tableVars, outsideVars, caVars, issuer>>

LoadSynced(w) ==
  /\ At(w, "loadSynced")
  /\ loaded' = [loaded EXCEPT ![worker[w].id] = Served(SyncTerms, worker[w].serves)]
  /\ Goto(w, worker[w].back)
  /\ Mark({})
  /\ UNCHANGED <<configVars, disk, progress, records, outsideVars, caVars, issuer>>

(* cleanupRemovedFileSyncCertificates, on a copy of the list. *)
ListRemoved(w) ==
  /\ At(w, "sync") /\ worker[w].on = {}
  /\ Goto(w, [pc |-> "drop",
              on |-> IdSet({e \in Elements(certs) : e.source = "file_sync"}) \ worker[w].wanted])
  /\ Mark({})
  /\ UNCHANGED <<configVars, disk, tableVars, outsideVars, caVars, issuer>>

ClearBinding(w) ==
  /\ At(w, "drop")
  /\ \E c \in worker[w].on :
       /\ bound' = bound \ {c}
       /\ Goto(w, [pc |-> "dropEntry", on |-> worker[w].on, id |-> c,
                   back |-> [pc |-> "drop", on |-> worker[w].on \ {c}]])
  /\ Mark({})
  /\ UNCHANGED <<configVars, disk, tableVars, external, crashes, caVars, issuer>>

DropEntry(w) ==
  /\ At(w, "dropEntry")
  /\ LET goOn == Goto(w, [worker[w] EXCEPT !.pc = "unload"]) IN
     DeleteEntry(worker[w].id, goOn, goOn)
  /\ UNCHANGED <<disk, tableVars, outsideVars, caVars, issuer>>

(* processAutoRenew works through a copy of the list. *)
Renewing(todo) ==
  IF todo = {} THEN Idle ELSE [pc |-> "renewDue", on |-> IdSet(todo), todo |-> todo]

ListRenewals(w) ==
  /\ At(w, "drop") /\ worker[w].on = {}
  /\ Goto(w, Renewing({e \in Elements(certs) : e.source = "acme" /\ e.autoRenew}))
  /\ Mark({})
  /\ UNCHANGED <<configVars, disk, tableVars, outsideVars, caVars, issuer>>

FillRenewAt(w) ==
  /\ At(w, "renewDue")
  /\ \E e \in worker[w].todo :
       /\ e.renewAt = None /\ e.expires # None
       /\ LET filled == [e EXCEPT !.renewAt = e.expires]
              goOn == Goto(w, [worker[w] EXCEPT !.todo = (@ \ {e}) \cup {filled}])
          IN UpdateEntry(filled, goOn, goOn)
  /\ UNCHANGED <<disk, tableVars, outsideVars, caVars, issuer>>

(* Mutant: a certificate that is being renewed is left alone. *)
RenewDueUnlessRenewing(w) ==
  /\ At(w, "renewDue")
  /\ \E e \in worker[w].todo :
       LET back == Renewing(worker[w].todo \ {e}) IN
          /\ e.renewAt = None => e.expires = None
          /\ IF /\ Due(e.renewAt) /\ Configured(e.id)
                /\ Element(certs, e.id).source = "acme" /\ Element(certs, e.id).status # "renew"
             THEN BeginRenewal(w, e.id, back)
             ELSE Goto(w, back) /\ UNCHANGED configVars
  /\ Mark({})
  /\ UNCHANGED <<disk, tableVars, outsideVars, caVars, issuer>>

RenewDue(w) ==
  /\ At(w, "renewDue")
  /\ \E e \in worker[w].todo :
       LET back == Renewing(worker[w].todo \ {e}) IN
          /\ e.renewAt = None => e.expires = None
          /\ IF Due(e.renewAt) /\ Configured(e.id) /\ Element(certs, e.id).source = "acme"
             THEN BeginRenewal(w, e.id, back)
             ELSE Goto(w, back) /\ UNCHANGED configVars
  /\ Mark({})
  /\ UNCHANGED <<disk, tableVars, outsideVars, caVars, issuer>>

-----------------------------------------------------------------------------
(* issueACMEAsync *)

Report(i, verdict) ==
  Continue(i, [pc |-> "report", on |-> issuer[i].on, entry |-> issuer[i].entry,
               verdict |-> verdict])

(* manualDNSProvider.Present, which the library calls for every domain     *)
(* before it waits for the records.                                        *)
PresentChallenge(i) ==
  /\ IssuerAt(i, "obtain") /\ issuer[i].entry.terms \in ManualTerms
  /\ \E d \in Domain \ issuer[i].awaits :
       /\ records' = [records EXCEPT ![issuer[i].entry.id] = d]
       /\ Continue(i, [issuer[i] EXCEPT !.awaits = @ \cup {d}])
  /\ progress' = [progress EXCEPT ![issuer[i].entry.id] = "running"]
  /\ Mark({})
  /\ UNCHANGED <<configVars, disk, loaded, outsideVars, caVars, worker>>

(* obtainACMEResource reports success before anything is stored. *)
Obtain(i) ==
  /\ IssuerAt(i, "obtain")
  /\ issuer[i].entry.terms \in ManualTerms => issuer[i].awaits = Domain
  /\ issued < installation.maxIssued
  /\ issued' = issued + 1
  /\ progress' = [progress EXCEPT ![issuer[i].entry.id] = "success"]
  /\ Continue(i, [issuer[i] EXCEPT !.pc = "writeCrt", !.entry.expires = issued + 1,
                                   !.entry.renewAt = issued + 1, !.entry.status = "valid"])
  /\ Mark({})
  /\ UNCHANGED <<configVars, disk, loaded, records, outsideVars, due, unused, worker>>

ObtainFails(i) ==
  /\ IssuerAt(i, "obtain")
  /\ progress' = [progress EXCEPT ![issuer[i].entry.id] = "error"]
  /\ Continue(i, [issuer[i] EXCEPT !.pc = "failed", !.entry.status = "error"])
  /\ Mark({})
  /\ UNCHANGED <<configVars, disk, loaded, records, outsideVars, caVars, worker>>

StoreFailure(i) ==
  /\ IssuerAt(i, "failed")
  /\ UpdateEntry(issuer[i].entry, Report(i, "error"), Report(i, "error"))
  /\ UNCHANGED <<disk, tableVars, outsideVars, caVars, worker>>

(* What the CA sent cannot be parsed: the entry is not told. *)
RefuseIssued(i) ==
  /\ IssuerAt(i, "writeCrt")
  /\ MayFail("parse")
  /\ Report(i, "error")
  /\ Mark({issuer[i].entry.id})
  /\ UNCHANGED <<configVars, disk, tableVars, outsideVars, caVars, worker>>

WriteIssuedCrt(i) ==
  /\ IssuerAt(i, "writeCrt")
  /\ LET e == issuer[i].entry IN
     WriteFile(e.id, "crt", e.expires, Continue(i, [issuer[i] EXCEPT !.pc = "writeKey"]),
               Report(i, "error"))
  /\ UNCHANGED <<configVars, tableVars, outsideVars, caVars, worker>>

WriteIssuedKey(i) ==
  /\ IssuerAt(i, "writeKey")
  /\ LET e == issuer[i].entry IN
     WriteFile(e.id, "key", e.expires, Continue(i, [issuer[i] EXCEPT !.pc = "find"]),
               Report(i, "error"))
  /\ UNCHANGED <<configVars, tableVars, outsideVars, caVars, worker>>

FindConfigured(i) ==
  /\ IssuerAt(i, "find")
  /\ Continue(i, [issuer[i] EXCEPT !.pc = IF Configured(issuer[i].entry.id) THEN "update"
                                          ELSE "add"])
  /\ Mark({})
  /\ UNCHANGED <<configVars, disk, tableVars, outsideVars, caVars, worker>>

AddIssued(i) ==
  /\ IssuerAt(i, "add")
  /\ worker' \in AfterAppend
  /\ AddEntry(issuer[i].entry, Continue(i, [issuer[i] EXCEPT !.pc = "load"]),
              Report(i, "error"))
  /\ UNCHANGED <<disk, tableVars, outsideVars, caVars>>

UpdateIssued(i) ==
  /\ IssuerAt(i, "update")
  /\ UpdateEntry(issuer[i].entry, Continue(i, [issuer[i] EXCEPT !.pc = "load"]),
                 Report(i, "error"))
  /\ UNCHANGED <<disk, tableVars, outsideVars, caVars, worker>>

LoadIssued(i) ==
  /\ IssuerAt(i, "load")
  /\ LET e == issuer[i].entry IN
     loaded' = [loaded EXCEPT ![e.id] = Served(e.terms, e.expires)]
  /\ Report(i, "success")
  /\ Mark({})
  /\ UNCHANGED <<configVars, disk, progress, records, outsideVars, caVars, worker>>

(* Mutant: the verdict is not told. *)
FinishSilently(i) ==
  /\ IssuerAt(i, "report")
  /\ Continue(i, Idle)
  /\ Mark({})
  /\ UNCHANGED <<configVars, disk, tableVars, outsideVars, caVars, worker>>

Finish(i) ==
  /\ IssuerAt(i, "report")
  /\ progress' = [progress EXCEPT ![issuer[i].entry.id] = issuer[i].verdict]
  /\ Continue(i, Idle)
  /\ Mark({})
  /\ UNCHANGED <<configVars, disk, loaded, records, outsideVars, caVars, worker>>

-----------------------------------------------------------------------------
(* Outside the certificate manager *)

(* The body of a service names any certificate, which nobody looks up, or  *)
(* none.                                                                   *)
Bind(c) ==
  /\ c \in installation.bindable
  /\ bound' = bound \cup {c}
  /\ Mark({c} \cap Busy)
  /\ UNCHANGED <<configVars, disk, tableVars, external, crashes, caVars, worker, issuer>>

Release(c) ==
  /\ bound' = bound \ {c}
  /\ Mark({})
  /\ UNCHANGED <<configVars, disk, tableVars, external, crashes, caVars, worker, issuer>>

(* The tool behind the external list renews a certificate, file by file,   *)
(* and changes the list.                                                   *)
ToolWritesCrt(c) ==
  /\ issued < installation.maxIssued
  /\ issued' = issued + 1
  /\ disk' = [disk EXCEPT ![c].crt = issued + 1]
  /\ Mark({})
  /\ UNCHANGED <<configVars, tableVars, outsideVars, due, unused, worker, issuer>>

ToolWritesKey(c) ==
  /\ disk' = [disk EXCEPT ![c].key = disk[c].crt]
  /\ Mark({})
  /\ UNCHANGED <<configVars, tableVars, outsideVars, caVars, worker, issuer>>

ListChanges ==
  /\ external' \in installation.lists \ {external}
  /\ Mark({})
  /\ UNCHANGED <<configVars, disk, tableVars, bound, crashes, caVars, worker, issuer>>

RenewalDateComes ==
  /\ due < issued
  /\ due' = due + 1
  /\ Mark({})
  /\ UNCHANGED <<configVars, disk, tableVars, outsideVars, issued, unused, worker, issuer>>

(* The program ends and starts again; GetCertificateManager loads the list. *)
Restart ==
  /\ crashes < installation.maxCrashes
  /\ crashes' = crashes + 1
  /\ certs' = Slice(saved)
  /\ loaded' = Loadable(Elements(Slice(saved)))
  /\ progress' = [c \in Cert |-> None]
  /\ records' = [c \in Cert |-> None]
  /\ worker' = [w \in Worker |-> Idle]
  /\ issuer' = [i \in Issuer |-> Idle]
  /\ Mark(Busy)
  /\ UNCHANGED <<saved, disk, bound, external, caVars>>

-----------------------------------------------------------------------------
CertInit ==
  /\ installation \in Installations
  /\ certs = Slice(installation.stored)
  /\ saved = installation.stored
  /\ disk = [c \in Cert |->
               IF c \in IdsOf(certs)
               THEN [crt |-> Element(certs, c).expires, key |-> Element(certs, c).expires]
               ELSE [crt |-> None, key |-> None]]
  /\ loaded = Loadable(Elements(certs))
  /\ progress = [c \in Cert |-> None]
  /\ records = [c \in Cert |-> None]
  /\ bound = {}
  /\ external \in installation.lists
  /\ issued = Len(installation.stored)
  /\ due = 0
  /\ unused = installation.fresh
  /\ worker = [w \in Worker |-> Idle]
  /\ issuer = [i \in Issuer |-> Idle]
  /\ requests = 0 /\ crashes = 0
  /\ raced = {} /\ hurt = {}

(* The handlers a request may arrive for. *)
Request(w) ==
  \/ ImportCertificate(w) \/ GenerateSelfSigned(w) \/ CreateACME(w) \/ UpdateCertificate(w)
  \/ RenewCertificate(w) \/ DeleteCertificate(w)

(* The steps of a request that runs, and of maintenance. *)
WorkerStep(w) ==
  \/ WriteCrt(w) \/ WriteKey(w) \/ AddImported(w) \/ UpdateImported(w) \/ LoadImported(w)
  \/ StoreEdit(w) \/ Reload(w) \/ SwapLoaded(w)
  \/ StoreRenewing(w) \/ IssueRenewal(w) \/ RefuseRenewal(w) \/ StoreRefused(w)
  \/ RemoveFiles(w) \/ DeleteConfigured(w) \/ Unload(w)
  \/ SyncFile(w) \/ StoreSynced(w) \/ LoadSynced(w)
  \/ ListRemoved(w) \/ ClearBinding(w) \/ DropEntry(w)
  \/ ListRenewals(w) \/ FillRenewAt(w) \/ RenewDue(w)

IssuerStep(i) ==
  \/ PresentChallenge(i) \/ Obtain(i) \/ ObtainFails(i) \/ StoreFailure(i)
  \/ RefuseIssued(i) \/ WriteIssuedCrt(i) \/ WriteIssuedKey(i) \/ FindConfigured(i)
  \/ AddIssued(i) \/ UpdateIssued(i) \/ LoadIssued(i) \/ Finish(i)

Outside ==
  \/ \E c \in Cert : Bind(c) \/ Release(c)
  \/ \E c \in SyncCert : ToolWritesCrt(c) \/ ToolWritesKey(c)
  \/ RenewalDateComes
  \/ ListChanges
  \/ Restart

CertNext ==
  \/ \E w \in Worker : Request(w) /\ UNCHANGED installation
  \/ /\ \/ \E w \in Worker : BeginMaintenance(w) \/ WorkerStep(w)
        \/ \E i \in Issuer : IssuerStep(i)
        \/ Outside
     /\ UNCHANGED <<installation, requests>>

(* Requests and issuers that run go on, the timer comes round, and an      *)
(* issuer slot is a bound of the model: who waits for one gets it.         *)
CertFairness ==
  /\ \A w \in Worker : /\ WF_certVars(WorkerStep(w) /\ UNCHANGED <<installation, requests>>)
                       /\ SF_certVars(IssueRenewal(w) /\ UNCHANGED <<installation, requests>>)
  /\ WF_certVars(BeginMaintenance(Timer) /\ UNCHANGED <<installation, requests>>)
  /\ \A i \in Issuer : WF_certVars(IssuerStep(i) /\ UNCHANGED <<installation, requests>>)

CertSpec == CertInit /\ [][CertNext]_certVars
FairCertSpec == CertSpec /\ CertFairness

-----------------------------------------------------------------------------
(* Nobody works on the certificate, nobody ever did it at the same time as *)
(* somebody else, and no step of it failed.                                *)
Settled(c) == c \notin Busy \cup Raced \cup hurt

(* TLS handshakes are not answered with a certificate that was deleted or  *)
(* never stored.                                                           *)
ServedIsConfigured == \A c \in Cert : Settled(c) /\ loaded[c] # None => Configured(c)

(* The entry, the two files and the TLS table tell of one issue: what a    *)
(* restart would serve is what is served.                                  *)
StoresAgree ==
  \A c \in Cert :
    Settled(c) /\ Configured(c) =>
      LET e == Element(certs, c)
      IN e.source # "file_sync" /\ e.terms # SelfSigned =>
           /\ disk[c] = [crt |-> e.expires, key |-> e.expires]
           /\ loaded[c] # None /\ loaded[c].issue = e.expires

(* A certificate that is deleted, or leaves with the external list, is     *)
(* bound to no service when it goes, unless two goroutines worked on it or *)
(* a step of one failed: DeleteCertificate asks, the synchronisation       *)
(* unbinds first, and a restart does not forget a certificate.             *)
RemovedIsUnbound ==
  [][\A c \in Cert :
       Configured(c) /\ ~Configured(c)' /\ c \notin (Raced \cup hurt)' => c \notin bound']_certVars

(* No removal leaves a service with a certificate that is gone (a dangling *)
(* reference), whatever happens at the same time.                          *)
RemovalsUnbind ==
  [][\A c \in Cert : Configured(c) /\ ~Configured(c)' => c \notin bound']_certVars

(* Every record a validation by hand waits for is one the progress page    *)
(* asks the user to add.                                                   *)
AwaitedIsShown ==
  \A i \in Issuer :
    IssuerAt(i, "obtain") =>
      \A d \in issuer[i].awaits : records[issuer[i].entry.id] = d

(* An issue that ends with success on the progress page is served. *)
SuccessIsServed ==
  [][\A i \in Issuer :
       LET e == issuer[i].entry
       IN issuer[i] # Idle /\ issuer'[i] = Idle /\ crashes' = crashes
          /\ progress'[e.id] = "success" /\ e.id \notin Raced
            => loaded[e.id] = Served(e.terms, e.expires)]_certVars

(* What two issues of one certificate leave behind fits: automatic renewal *)
(* is said to run in one goroutine and to avoid races.                     *)
FilesFit ==
  \A c \in Cert : c \notin Busy \cup hurt /\ disk[c].crt # None => Fits(disk[c])

(* A certificate due for renewal does not stay so without an error: it is  *)
(* renewed, or the failure is stored where the administrator sees it.      *)
AwaitsRenewal(c) ==
  /\ Configured(c)
  /\ LET e == Element(certs, c)
     IN e.source = "acme" /\ e.autoRenew /\ e.renewAt # None /\ e.renewAt <= due /\ e.status # "error"
RenewalsHappen == \A c \in Cert \ SyncCert : []<>~AwaitsRenewal(c)

(* When the tool leaves the files and the list alone, what it wrote last   *)
(* is what is served.                                                      *)
SyncConverges ==
  \A c \in SyncCert :
    <>[](external # Unreadable /\ c \in external
         /\ Fits(disk[c]) /\ c \notin Raced \cup hurt)
      => <>[](loaded[c] # None /\ loaded[c].issue = disk[c].crt)

=============================================================================
