------------------------- MODULE CertificatesProofs -------------------------
(***************************************************************************)
(* Theorems about Certificates, for every number of certificates, request  *)
(* goroutines and issuers, for requests that overlap and for whatever      *)
(* fails.                                                                  *)
(***************************************************************************)
EXTENDS Certificates, GoSlicesProofs

-----------------------------------------------------------------------------
(* Types: what the locals of each goroutine hold at each of its steps *)

Chosen == Terms \cup {SelfSigned}
MaybeIssue == Issue \cup {None}
Pair == {Served(t, p) : t \in Chosen, p \in MaybeIssue}
Table == [Cert -> Pair \cup {None}]

IndexPointer == [kept : {FALSE}, at : Nat \ {0}]
ElementPointer == [kept : {TRUE}, element : Entry]
Pointer == IndexPointer \cup ElementPointer

(* The places a goroutine comes back to. *)
IdleState == [pc : {"idle"}, on : {{}}]
SyncState == [pc : {"sync"}, on : SUBSET Cert, wanted : SUBSET Cert]
DropState == [pc : {"drop"}, on : SUBSET Cert]
RenewDueState == [pc : {"renewDue"}, on : SUBSET Cert, todo : SUBSET Entry]

(* A goroutine is registered (on) at the certificate it works on. *)
WritingState ==
  {x \in [pc : {"writeCrt", "writeKey", "add", "update", "load"}, on : SUBSET Cert,
          then : {"add", "update"}, serves : MaybeIssue, entry : Entry] :
     x.entry.id \in x.on}
EditState == [pc : {"edit"}, on : {Cert}, entry : Entry]
ReloadState == [pc : {"reload"}, on : {Cert}]
SwapState == [pc : {"swap"}, on : {Cert}, table : Table]
RenewState ==
  [pc : {"renew", "issue", "refused"}, on : SUBSET Cert, ref : Pointer, entry : Entry,
   back : IdleState \cup RenewDueState]
CheckState ==
  {x \in [pc : {"check"}, on : SUBSET Cert, id : Cert, ref : Pointer, kept : BOOLEAN] :
     x.id \in x.on}
DeleteState == {x \in [pc : {"delete"}, on : SUBSET Cert, id : Cert] : x.id \in x.on}
DeletedState ==
  {x \in [pc : {"dropEntry", "unload"}, on : SUBSET Cert, id : Cert,
          back : IdleState \cup DropState] : x.id \in x.on}
SyncedState ==
  {x \in [pc : {"synced", "loadSynced"}, on : SUBSET Cert, id : Cert, back : SyncState,
          ref : Pointer \cup {None}, serves : MaybeIssue] : x.id \in x.on}

WorkerState ==
  UNION {IdleState, SyncState, DropState, RenewDueState, WritingState, EditState, ReloadState,
         SwapState, RenewState, CheckState, DeleteState, DeletedState, SyncedState}

IssuingState ==
  {x \in [pc : {"obtain", "writeCrt", "writeKey", "find", "update", "add", "load", "failed"},
          on : SUBSET Cert, entry : Entry, awaits : SUBSET Domain] : x.entry.id \in x.on}
ReportState ==
  {x \in [pc : {"report"}, on : SUBSET Cert, entry : Entry, verdict : {"success", "error"}] :
     x.entry.id \in x.on}
IssuerState == UNION {IdleState, IssuingState, ReportState}

(* A pointer into the list leads into its array. *)
Leads(p) == p \in IndexPointer => p.at <= Len(certs.cells)

Holds(x) == x.pc \in {"renew", "issue", "refused", "check", "synced", "loadSynced"}

ListsOK == certs \in SliceOf(Entry) /\ saved \in Seq(Entry)
TablesOK ==
  /\ disk \in [Cert -> File] /\ loaded \in Table
  /\ progress \in [Cert -> {"running", "success", "error", None}]
  /\ records \in [Cert -> Domain \cup {None}]
OutsideOK ==
  /\ installation \in Installations /\ bound \subseteq Cert
  /\ external \in {Unreadable} \cup SUBSET SyncCert
  /\ issued \in 0 .. MaxIssued /\ unused \subseteq Cert /\ crashes \in Nat
WorkersOK ==
  /\ worker \in [Worker -> WorkerState]
  /\ \A w \in Worker : Holds(worker[w]) => Leads(worker[w].ref)
IssuersOK == issuer \in [Issuer -> IssuerState]

TypeInv == ListsOK /\ TablesOK /\ OutsideOK /\ WorkersOK /\ IssuersOK

-----------------------------------------------------------------------------
(* What holds of a certificate that no two goroutines worked on at once    *)
(* and no step of which failed.                                            *)

Clean(c) == c \notin Raced \cup hurt

(* The list in memory and the list in the file have the same certificates, *)
(* except where a save failed.                                             *)
ListsAgree == \A c \in Cert \ hurt : Configured(c) <=> c \in IdsOf(Slice(saved))

(* Who is about to delete a certificate has seen it unbound; who is about  *)
(* to put one into the table has it in the list.                           *)
WorkerHolds(w) ==
  /\ worker[w].pc \in {"delete", "dropEntry"} /\ Clean(worker[w].id) => worker[w].id \notin bound
  /\ At(w, "swap") =>
       \A c \in Cert : Clean(c) /\ worker[w].table[c] # None => Configured(c)
  /\ /\ worker[w].pc \in {"writeCrt", "writeKey", "add", "update", "load"}
     /\ worker[w].pc \in {"update", "load"} \/ worker[w].then = "update"
     /\ Clean(worker[w].entry.id)
     => Configured(worker[w].entry.id)
  /\ /\ worker[w].pc \in {"synced", "loadSynced"}
     /\ At(w, "loadSynced") \/ worker[w].ref # None
     /\ Clean(worker[w].id)
     => Configured(worker[w].id)

(* What an issue that was successful tells is what it put into the table.  *)
IssuerHolds(i) ==
  LET e == issuer[i].entry IN
  /\ issuer[i].pc \in {"update", "load"} /\ Clean(e.id) => Configured(e.id)
  /\ IssuerAt(i, "report") /\ issuer[i].verdict = "success" /\ e.id \notin Raced =>
       loaded[e.id] = Served(e.terms, e.expires)

(* A certificate that is served is in the list, or it is about to be taken *)
(* from the table.                                                         *)
CertHolds(c) ==
  Clean(c) /\ loaded[c] # None =>
    Configured(c) \/ \E w \in Worker : At(w, "unload") /\ worker[w].id = c

SafeInv ==
  /\ ListsAgree
  /\ \A w \in Worker : WorkerHolds(w)
  /\ \A i \in Issuer : IssuerHolds(i)
  /\ \A c \in Cert : CertHolds(c)

-----------------------------------------------------------------------------
(* What is known of a goroutine at a step, and of its locals. *)
LEMMA WorkerShapes ==
  ASSUME NEW x \in WorkerState
  PROVE  /\ x.pc = "idle" => x \in IdleState
         /\ x.pc = "sync" => x \in SyncState
         /\ x.pc = "drop" => x \in DropState
         /\ x.pc = "renewDue" => x \in RenewDueState
         /\ x.pc \in {"writeCrt", "writeKey", "add", "update", "load"} => x \in WritingState
         /\ x.pc = "edit" => x \in EditState
         /\ x.pc = "reload" => x \in ReloadState
         /\ x.pc = "swap" => x \in SwapState
         /\ x.pc \in {"renew", "issue", "refused"} => x \in RenewState
         /\ x.pc = "check" => x \in CheckState
         /\ x.pc = "delete" => x \in DeleteState
         /\ x.pc \in {"dropEntry", "unload"} => x \in DeletedState
         /\ x.pc \in {"synced", "loadSynced"} => x \in SyncedState
  BY DEF WorkerState, IdleState, SyncState, DropState, RenewDueState, WritingState, EditState,
         ReloadState, SwapState, RenewState, CheckState, DeleteState, DeletedState, SyncedState

LEMMA IdleIsIdle == Idle \in IdleState /\ \A x \in IdleState : x = Idle
  BY DEF Idle, IdleState

(* A pointer is the only local that another goroutine changes. *)
Alike(x, y) ==
  \/ y = x
  \/ /\ x.pc \in {"renew", "issue", "refused", "check", "synced", "loadSynced"}
     /\ x.pc \in {"synced", "loadSynced"} => x.ref # None
     /\ \E p \in ElementPointer : y = [x EXCEPT !.ref = p]

LEMMA RefFields ==
  ASSUME NEW x \in WorkerState
  PROVE  "ref" \in DOMAIN x => x.pc \in {"renew", "issue", "refused", "check", "synced", "loadSynced"}
  BY DEF WorkerState, IdleState, SyncState, DropState, RenewDueState, WritingState, EditState,
         ReloadState, SwapState, RenewState, CheckState, DeleteState, DeletedState, SyncedState

LEMMA AlikeFields ==
  ASSUME NEW x \in WorkerState, NEW y, Alike(x, y)
  PROVE  /\ y \in WorkerState /\ y.pc = x.pc /\ y.on = x.on
         /\ x.pc \notin {"renew", "issue", "refused", "check", "synced", "loadSynced"} => y = x
         /\ x.pc \in {"synced", "loadSynced"} => y.id = x.id /\ (y.ref # None => x.ref # None)
         /\ y = x \/ (Holds(y) /\ y.ref \in ElementPointer)
<1>1. CASE y = x
  BY <1>1
<1>2. ASSUME NEW p \in ElementPointer, y = [x EXCEPT !.ref = p],
             x.pc \in {"renew", "issue", "refused"}
      PROVE  y \in RenewState /\ y.pc = x.pc /\ y.on = x.on /\ y.ref = p
  BY <1>2, WorkerShapes DEF RenewState, Pointer
<1>3. ASSUME NEW p \in ElementPointer, y = [x EXCEPT !.ref = p], x.pc = "check"
      PROVE  y \in CheckState /\ y.pc = x.pc /\ y.on = x.on /\ y.ref = p
  BY <1>3, WorkerShapes DEF CheckState, Pointer
<1>4. ASSUME NEW p \in ElementPointer, y = [x EXCEPT !.ref = p], x.pc \in {"synced", "loadSynced"}
      PROVE  y \in SyncedState /\ y.pc = x.pc /\ y.on = x.on /\ y.ref = p /\ y.id = x.id
  BY <1>4, WorkerShapes DEF SyncedState, Pointer
<1> QED
  BY <1>1, <1>2, <1>3, <1>4 DEF Alike, Holds, WorkerState

-----------------------------------------------------------------------------
(* What the operations on the list do to it *)

Stored(c) == saved' = Listed(certs') \/ (UNCHANGED saved /\ c \in hurt')
Updated(e) ==
  IF Configured(e.id)
  THEN certs' = SetElement(certs, IndexOf(certs, e.id), e) /\ Stored(e.id)
  ELSE UNCHANGED configVars
Added(e) == certs' = Appended(certs, e) /\ Stored(e.id)
Deleted(c) ==
  IF Configured(c)
  THEN certs' = Remove(certs, IndexOf(certs, c)) /\ Stored(c)
  ELSE UNCHANGED configVars

(* The list stays one, pointers into its array lead somewhere, and the     *)
(* file goes on to agree with it.                                          *)
ListsKept == ListsOK' /\ Len(certs.cells) <= Len(certs'.cells) /\ (ListsAgree => ListsAgree')

LEMMA StoredAgrees ==
  ASSUME ListsOK, certs' \in SliceOf(Entry), Len(certs.cells) <= Len(certs'.cells),
         NEW c \in Cert, Stored(c), hurt \subseteq hurt',
         \A d \in Cert \ {c} : d \in IdsOf(certs) <=> d \in IdsOf(certs')
  PROVE  ListsKept
<1>1. CASE saved' = Listed(certs')
  <2>1. Listed(certs') \in Seq(Entry) /\ IdsOf(Slice(Listed(certs'))) = IdsOf(certs')
    BY ListedIn
  <2> QED
    BY <1>1, <2>1 DEF ListsKept, ListsOK, ListsAgree, Configured
<1>2. CASE UNCHANGED saved /\ c \in hurt'
  BY <1>2 DEF ListsKept, ListsOK, ListsAgree, Configured
<1> QED
  BY <1>1, <1>2 DEF Stored

LEMMA UnchangedLists ==
  ASSUME ListsOK, UNCHANGED configVars, hurt \subseteq hurt'
  PROVE  ListsKept /\ IdsOf(certs') = IdsOf(certs)
<1>1. Len(certs.cells) \in Nat
  BY SliceFacts DEF ListsOK
<1> QED
  BY <1>1 DEF ListsKept, ListsOK, ListsAgree, Configured, configVars

LEMMA UpdatedList ==
  ASSUME ListsOK, NEW e \in Entry, Updated(e), hurt \subseteq hurt'
  PROVE  ListsKept /\ IdsOf(certs') = IdsOf(certs)
<1>1. CASE Configured(e.id)
  <2> DEFINE i == IndexOf(certs, e.id)
  <2>1. certs \in SliceOf(Entry) /\ e.id \in IdsOf(certs) /\ e.id \in Cert
    BY <1>1 DEF ListsOK, Configured, Entry
  <2>2. i \in 1 .. certs.len /\ certs.cells[i].id = e.id
    BY <2>1, IndexOfFirst
  <2>3. certs' = SetElement(certs, i, e) /\ Stored(e.id)
    BY <1>1 DEF Updated
  <2> HIDE DEF i
  <2>4. certs' \in SliceOf(Entry) /\ Len(certs'.cells) = Len(certs.cells)
        /\ IdsOf(certs') = IdsOf(certs)
    BY <2>1, <2>2, <2>3, SetElementIn, SetElementIds
  <2>5. Len(certs.cells) \in Nat
    BY <2>1, SliceFacts
  <2> QED
    BY <2>1, <2>3, <2>4, <2>5, StoredAgrees
<1>2. CASE ~Configured(e.id)
  BY <1>2, UnchangedLists DEF Updated
<1> QED
  BY <1>1, <1>2

LEMMA AddedList ==
  ASSUME ListsOK, NEW e \in Entry, Added(e), hurt \subseteq hurt'
  PROVE  ListsKept /\ IdsOf(certs') = IdsOf(certs) \cup {e.id}
<1>1. certs \in SliceOf(Entry) /\ e.id \in Cert
  BY DEF ListsOK, Entry
<1>2. certs' = Appended(certs, e) /\ Stored(e.id)
  BY DEF Added
<1>3. certs' \in SliceOf(Entry) /\ Len(certs.cells) <= Len(certs'.cells)
      /\ IdsOf(certs') = IdsOf(certs) \cup {e.id}
  <2>1. Len(certs.cells) \in Nat /\ Len(Appended(certs, e).cells) \in Nat
    BY <1>1, SliceFacts, AppendedIn
  <2> QED
    BY <1>1, <1>2, <2>1, AppendedIn, AppendedIds
<1> QED
  BY <1>1, <1>2, <1>3, StoredAgrees

LEMMA DeletedList ==
  ASSUME ListsOK, NEW c \in Cert, Deleted(c), hurt \subseteq hurt'
  PROVE  /\ ListsKept /\ IdsOf(certs') \subseteq IdsOf(certs)
         /\ IdsOf(certs) \ {c} \subseteq IdsOf(certs')
<1>1. CASE Configured(c)
  <2> DEFINE i == IndexOf(certs, c)
  <2>1. certs \in SliceOf(Entry) /\ c \in IdsOf(certs)
    BY <1>1 DEF ListsOK, Configured
  <2>2. i \in 1 .. certs.len /\ certs.cells[i].id = c
    BY <2>1, IndexOfFirst
  <2>3. certs' = Remove(certs, i) /\ Stored(c)
    BY <1>1 DEF Deleted
  <2> HIDE DEF i
  <2>4. certs' \in SliceOf(Entry) /\ Len(certs'.cells) = Len(certs.cells)
        /\ IdsOf(certs') \subseteq IdsOf(certs) /\ IdsOf(certs) \ {c} \subseteq IdsOf(certs')
    BY <2>1, <2>2, <2>3, RemoveIn, RemoveIds
  <2>5. Len(certs.cells) \in Nat
    BY <2>1, SliceFacts
  <2> QED
    BY <2>1, <2>3, <2>4, <2>5, StoredAgrees
<1>2. CASE ~Configured(c)
  BY <1>2, UnchangedLists DEF Deleted
<1> QED
  BY <1>1, <1>2

(* Writing the status through a pointer to the entry c. *)
LEMMA RestatedList ==
  ASSUME ListsOK, NEW c \in IdsOf(certs), NEW s \in {"valid", "renew", "error"},
         certs' = SetElement(certs, IndexOf(certs, c), [Element(certs, c) EXCEPT !.status = s]),
         UNCHANGED saved, hurt \subseteq hurt'
  PROVE  /\ ListsKept /\ IdsOf(certs') = IdsOf(certs)
         /\ Len(certs'.cells) = Len(certs.cells)
         /\ IndexOf(certs, c) \in Nat \ {0} /\ IndexOf(certs, c) <= Len(certs'.cells)
         /\ [Element(certs, c) EXCEPT !.status = s] \in Entry
<1> DEFINE i == IndexOf(certs, c)
           e == [Element(certs, c) EXCEPT !.status = s]
<1>1. certs \in SliceOf(Entry)
  BY DEF ListsOK
<1>2. i \in 1 .. certs.len /\ certs.cells[i].id = c /\ Element(certs, c) = certs.cells[i]
  BY <1>1, IndexOfFirst DEF Element
<1>3. certs.cells[i] \in Entry /\ Len(certs.cells) \in Nat /\ certs.len <= Len(certs.cells)
      /\ certs.len \in Nat
  BY <1>1, <1>2, SliceFacts
<1>4. e \in Entry /\ e.id = certs.cells[i].id
  BY <1>2, <1>3 DEF Entry
<1>5. certs' = SetElement(certs, i, e)
  OBVIOUS
<1> HIDE DEF i, e
<1>6. certs' \in SliceOf(Entry) /\ Len(certs'.cells) = Len(certs.cells)
      /\ IdsOf(certs') = IdsOf(certs)
  BY <1>1, <1>2, <1>4, <1>5, SetElementIn, SetElementIds
<1>7. ListsKept /\ IdsOf(certs') = IdsOf(certs)
  BY <1>3, <1>6 DEF ListsKept, ListsOK, ListsAgree, Configured
<1>8. i \in Nat \ {0} /\ i <= Len(certs'.cells)
  BY <1>2, <1>3, <1>6
<1> QED
  BY <1>4, <1>6, <1>7, <1>8 DEF i, e

-----------------------------------------------------------------------------
(* Entries, pointers and what they lead to *)

LEMMA ElementIn ==
  ASSUME ListsOK
  PROVE  /\ Elements(certs) \in SUBSET Entry /\ IdsOf(certs) \in SUBSET Cert
         /\ \A c \in IdsOf(certs) : Element(certs, c) \in Entry /\ Element(certs, c).id = c
         /\ \A c \in IdsOf(certs) : PointerTo(IndexOf(certs, c)) \in IndexPointer
                                    /\ Leads(PointerTo(IndexOf(certs, c)))
<1>1. certs \in SliceOf(Entry)
  BY DEF ListsOK
<1>2. Elements(certs) \in SUBSET Entry
  BY <1>1, SliceFacts DEF Elements
<1>3. IdsOf(certs) \in SUBSET Cert
  BY <1>2 DEF IdsOf, IdSet, Entry
<1>4. ASSUME NEW c \in IdsOf(certs)
      PROVE  /\ Element(certs, c) \in Entry /\ Element(certs, c).id = c
             /\ IndexOf(certs, c) \in 1 .. certs.len
  BY <1>1, <1>2, <1>4, IndexOfFirst
<1>5. certs.len \in Nat /\ Len(certs.cells) \in Nat /\ certs.len <= Len(certs.cells)
  BY <1>1, SliceFacts
<1>6. ASSUME NEW n \in 1 .. certs.len
      PROVE  PointerTo(n) \in IndexPointer /\ Leads(PointerTo(n))
  BY <1>5, <1>6 DEF PointerTo, IndexPointer, Leads
<1> QED
  BY <1>2, <1>3, <1>4, <1>6

LEMMA PointerKinds == \A p \in ElementPointer : p \notin IndexPointer /\ Leads(p) /\ Leads(p)'
<1> SUFFICES ASSUME NEW p \in ElementPointer PROVE p \notin IndexPointer
  BY DEF Leads
<1>1. p.kept = TRUE /\ \A q \in IndexPointer : q.kept = FALSE
  BY DEF ElementPointer, IndexPointer
<1> QED
  BY <1>1

LEMMA DerefIn ==
  ASSUME ListsOK, NEW p \in Pointer, Leads(p)
  PROVE  Deref(certs, p) \in Entry
<1>1. CASE p \in IndexPointer
  <2>1. certs \in SliceOf(Entry) /\ p.kept = FALSE /\ p.at \in Nat \ {0} /\ p.at <= Len(certs.cells)
    BY <1>1 DEF ListsOK, Leads, IndexPointer
  <2>2. p.at \in 1 .. Len(certs.cells)
    BY <2>1, SliceFacts
  <2>3. certs.cells[p.at] \in Entry
    BY <2>1, <2>2, SliceFacts
  <2> QED
    BY <2>1, <2>3 DEF Deref
<1>2. CASE p \in ElementPointer
  BY <1>2 DEF ElementPointer, Deref
<1> QED
  BY <1>1, <1>2 DEF Pointer

(* The workers after an append are those before, except for pointers. *)
LEMMA AfterAppendAlike ==
  ASSUME ListsOK, WorkersOK, NEW ws \in AfterAppend
  PROVE  ws = [v \in Worker |-> ws[v]] /\ \A v \in Worker : Alike(worker[v], ws[v])
<1>1. worker \in [Worker -> WorkerState]
  BY DEF WorkersOK
<1>2. CASE ws = worker
  BY <1>1, <1>2 DEF Alike
<1>3. CASE ws # worker
  <2> DEFINE moved(x) == [x EXCEPT !.ref = [kept |-> TRUE, element |-> Deref(certs, x.ref)]]
             W == [v \in Worker |->
                     IF "ref" \in DOMAIN worker[v] /\ worker[v].ref # None
                     THEN [worker[v] EXCEPT !.ref = [kept |-> TRUE, element |-> Deref(certs, @)]]
                     ELSE worker[v]]
  <2>1. ws = W
    BY <1>3 DEF AfterAppend
  <2>2. ASSUME NEW v \in Worker
        PROVE  Alike(worker[v], ws[v])
    <3> DEFINE x == worker[v]
    <3>1. x \in WorkerState
      BY <1>1, <2>2
    <3>2. CASE ~("ref" \in DOMAIN x /\ x.ref # None)
      <4>1. ws[v] = x
        BY <2>1, <3>2
      <4> QED
        BY <4>1 DEF Alike
    <3>3. CASE "ref" \in DOMAIN x /\ x.ref # None
      <4>1. x.pc \in {"renew", "issue", "refused", "check", "synced", "loadSynced"}
        BY <3>1, <3>3, RefFields
      <4>2. x.ref \in Pointer
        BY <3>1, <3>3, <4>1, WorkerShapes DEF RenewState, CheckState, SyncedState
      <4>3. Deref(certs, x.ref) \in Entry
        BY <4>1, <4>2, DerefIn DEF WorkersOK, Holds
      <4> DEFINE p == [kept |-> TRUE, element |-> Deref(certs, x.ref)]
      <4>4. p \in ElementPointer
        BY <4>3 DEF ElementPointer
      <4>5. ws[v] = [x EXCEPT !.ref = p]
        BY <2>1, <3>3
      <4> QED
        BY <3>3, <4>1, <4>4, <4>5 DEF Alike
    <3> QED
      BY <3>2, <3>3
  <2>3. ws = [v \in Worker |-> ws[v]]
    BY <2>1
  <2> QED
    BY <2>2, <2>3
<1> QED
  BY <1>2, <1>3

-----------------------------------------------------------------------------
(* What a step does to the goroutines *)

(* Worker w goes on with x, and an append may have moved the array under   *)
(* the pointers of the others.                                             *)
Moves(w, x) ==
  /\ worker' = [v \in Worker |-> worker'[v]] /\ worker'[w] = x
  /\ \A v \in Worker \ {w} : Alike(worker[v], worker'[v])

LEMMA GotoMoves ==
  ASSUME WorkersOK, NEW w \in Worker, NEW x, Goto(w, x)
  PROVE  Moves(w, x)
<1>1. worker' = [worker EXCEPT ![w] = x] /\ worker = [v \in Worker |-> worker[v]]
  BY DEF Goto, WorkersOK
<1> QED
  BY <1>1 DEF Moves, Alike

LEMMA AppendMoves ==
  ASSUME ListsOK, WorkersOK, NEW w \in Worker, NEW x, NEW ws \in AfterAppend,
         worker' = [ws EXCEPT ![w] = x]
  PROVE  Moves(w, x)
<1>1. ws = [v \in Worker |-> ws[v]] /\ \A v \in Worker : Alike(worker[v], ws[v])
  BY AfterAppendAlike
<1> DEFINE F == [v \in Worker |-> ws[v]]
<1>2. worker' = [F EXCEPT ![w] = x]
  BY <1>1
<1>3. worker' = [v \in Worker |-> worker'[v]] /\ worker'[w] = x
      /\ \A v \in Worker \ {w} : worker'[v] = ws[v]
  BY <1>2
<1> QED
  BY <1>1, <1>3 DEF Moves

LEMMA WorkersMove ==
  ASSUME ListsOK, WorkersOK, ListsKept, NEW w \in Worker, NEW x \in WorkerState, Moves(w, x),
         Holds(x) => Leads(x.ref) \/ (x.ref \in IndexPointer => x.ref.at <= Len(certs'.cells))
  PROVE  WorkersOK'
<1>1. worker \in [Worker -> WorkerState]
  BY DEF WorkersOK
<1>2. Len(certs.cells) \in Nat /\ Len(certs'.cells) \in Nat
      /\ Len(certs.cells) <= Len(certs'.cells)
  BY SliceFacts DEF ListsOK, ListsKept
<1>3. ASSUME NEW p, Leads(p)
      PROVE  Leads(p)'
  <2>1. p \in IndexPointer => p.at \in Nat
    BY DEF IndexPointer
  <2> QED
    BY <1>2, <1>3, <2>1 DEF Leads
<1>4. ASSUME NEW v \in Worker
      PROVE  worker'[v] \in WorkerState /\ (Holds(worker'[v]) => (Leads(worker[v].ref))')
  <2>1. CASE v = w
    BY <1>3, <2>1 DEF Moves, Leads
  <2>2. CASE v # w
    <3> DEFINE y == worker'[v]
    <3>1. worker[v] \in WorkerState /\ Alike(worker[v], y)
      BY <1>1, <1>4, <2>2 DEF Moves
    <3>2. y \in WorkerState /\ (y = worker[v] \/ (Holds(y) /\ y.ref \in ElementPointer))
      BY <3>1, AlikeFields
    <3>3. CASE y = worker[v]
      BY <1>3, <3>2, <3>3 DEF WorkersOK
    <3>4. CASE y.ref \in ElementPointer
      BY <3>2, <3>4, PointerKinds DEF Leads
    <3> QED
      BY <3>2, <3>3, <3>4
  <2> QED
    BY <2>1, <2>2
<1>5. worker' = [v \in Worker |-> worker'[v]]
  BY DEF Moves
<1>6. worker' \in [Worker -> WorkerState]
  BY <1>4, <1>5
<1> QED
  BY <1>4, <1>6 DEF WorkersOK

LEMMA WorkersStay ==
  ASSUME ListsOK, WorkersOK, ListsKept, worker' = worker
  PROVE  WorkersOK'
<1>2. Len(certs.cells) \in Nat /\ Len(certs'.cells) \in Nat
      /\ Len(certs.cells) <= Len(certs'.cells)
  BY SliceFacts DEF ListsOK, ListsKept
<1>3. ASSUME NEW p, Leads(p)
      PROVE  Leads(p)'
  <2>1. p \in IndexPointer => p.at \in Nat
    BY DEF IndexPointer
  <2> QED
    BY <1>2, <1>3, <2>1 DEF Leads
<1> QED
  BY <1>3 DEF WorkersOK

LEMMA WorkersAppend ==
  ASSUME ListsOK, WorkersOK, ListsKept, worker' \in AfterAppend
  PROVE  WorkersOK' /\ \A v \in Worker : Alike(worker[v], worker'[v])
<1>1. worker' = [v \in Worker |-> worker'[v]] /\ \A v \in Worker : Alike(worker[v], worker'[v])
  BY AfterAppendAlike
<1>2. CASE Worker = {}
  BY <1>1, <1>2 DEF WorkersOK
<1>3. ASSUME NEW w \in Worker
      PROVE  WorkersOK'
  <2> DEFINE x == worker'[w]
  <2>1. Moves(w, x)
    BY <1>1 DEF Moves
  <2>2. worker[w] \in WorkerState /\ (Holds(worker[w]) => Leads(worker[w].ref))
    BY DEF WorkersOK
  <2>3. x \in WorkerState /\ (x = worker[w] \/ (Holds(x) /\ x.ref \in ElementPointer))
    BY <1>1, <2>2, AlikeFields
  <2>4. Holds(x) => Leads(x.ref)
    BY <2>2, <2>3, PointerKinds
  <2> HIDE DEF x
  <2> QED
    BY <2>1, <2>3, <2>4, WorkersMove
<1> QED
  BY <1>1, <1>2, <1>3

LEMMA IssuersMove ==
  ASSUME IssuersOK, NEW i \in Issuer, NEW x, Continue(i, x)
  PROVE  /\ issuer'[i] = x /\ \A j \in Issuer \ {i} : issuer'[j] = issuer[j]
         /\ x \in IssuerState => IssuersOK'
<1>1. issuer \in [Issuer -> IssuerState] /\ issuer' = [issuer EXCEPT ![i] = x]
  BY DEF IssuersOK, Continue
<1> QED
  BY <1>1 DEF IssuersOK

-----------------------------------------------------------------------------
(* What a step of a worker may do to the rest *)

(* A step of w takes from the list only a certificate of its own, which no *)
(* service is bound to and which it takes from the table next; and it puts *)
(* into the table only what is in the list.                                *)
WorkerEffect(w) ==
  /\ raced' = raced \cup Contended /\ hurt \subseteq hurt'
  /\ \A v \in Worker \ {w} : Alike(worker[v], worker'[v])
  /\ \A i \in Issuer : issuer'[i] = issuer[i] \/ (issuer[i] = Idle /\ issuer'[i].pc = "obtain")
  /\ bound' \subseteq bound
  /\ ListsAgree'
  /\ \A c \in Cert \ worker[w].on : loaded'[c] = loaded[c]
  /\ \A c \in IdsOf(certs) \ IdsOf(certs') :
       c \in worker[w].on /\ (Clean(c)' => c \notin bound /\ At(w, "unload")' /\ worker'[w].id = c)
  /\ \A c \in Cert : Clean(c)' /\ loaded'[c] # None => loaded[c] # None \/ Configured(c)'
  /\ At(w, "unload") => loaded'[worker[w].id] = None
  /\ WorkerHolds(w)'

(* A worker at one of these steps has promised nothing. *)
Uncommitted == {"idle", "sync", "drop", "renewDue", "edit", "reload", "renew", "issue", "refused",
                "check", "unload"}

LEMMA UncommittedHolds ==
  ASSUME NEW w \in Worker, worker'[w].pc \in Uncommitted
  PROVE  WorkerHolds(w)'
  BY DEF WorkerHolds, At, Uncommitted

LEMMA OutsideStays ==
  ASSUME OutsideOK, UNCHANGED <<installation, outsideVars, caVars>>
  PROVE  OutsideOK'
  BY DEF OutsideOK, outsideVars, caVars

LEMMA TablesStay ==
  ASSUME TablesOK, UNCHANGED <<disk, tableVars>>
  PROVE  TablesOK'
  BY DEF TablesOK, tableVars

LEMMA IssuersStay ==
  ASSUME IssuersOK, UNCHANGED issuer
  PROVE  IssuersOK' /\ \A i \in Issuer : issuer'[i] = issuer[i]
  BY DEF IssuersOK

(* A step that leaves the list and the TLS table alone. *)
LEMMA QuietStep ==
  ASSUME TypeInv, NEW w \in Worker, NEW x \in WorkerState, Holds(x) => Leads(x.ref),
         Goto(w, x), raced' = raced \cup Contended, hurt \subseteq hurt',
         UNCHANGED <<configVars, loaded>>,
         bound' \subseteq bound, ~At(w, "unload"), TablesOK', OutsideOK', IssuersOK',
         \A i \in Issuer : issuer'[i] = issuer[i] \/ (issuer[i] = Idle /\ issuer'[i].pc = "obtain"),
         SafeInv => WorkerHolds(w)'
  PROVE  TypeInv' /\ (SafeInv => WorkerEffect(w))
<1>1. ListsKept /\ IdsOf(certs') = IdsOf(certs)
  BY UnchangedLists DEF TypeInv
<1>2. Moves(w, x)
  BY GotoMoves DEF TypeInv
<1>3. WorkersOK'
  BY <1>1, <1>2, WorkersMove DEF TypeInv
<1>4. TypeInv'
  BY <1>1, <1>3 DEF TypeInv, ListsKept
<1>5. ASSUME SafeInv
      PROVE  WorkerEffect(w)
  <2>1. ListsAgree'
    BY <1>1, <1>5 DEF ListsKept, SafeInv
  <2> QED
    BY <1>1, <1>2, <1>5, <2>1 DEF WorkerEffect, Moves
<1> QED
  BY <1>4, <1>5

(* A step that changes only where the worker is. *)
LEMMA LocalStep ==
  ASSUME TypeInv, NEW w \in Worker, NEW x \in WorkerState, Holds(x) => Leads(x.ref),
         Goto(w, x), Mark({}), ~At(w, "unload"),
         UNCHANGED <<installation, configVars, disk, tableVars, outsideVars, caVars, issuer>>,
         SafeInv => WorkerHolds(w)'
  PROVE  TypeInv' /\ (SafeInv => WorkerEffect(w))
<1>1. TablesOK' /\ OutsideOK' /\ IssuersOK' /\ \A i \in Issuer : issuer'[i] = issuer[i]
  BY TablesStay, OutsideStays, IssuersStay DEF TypeInv
<1>2. bound' = bound /\ loaded' = loaded
  BY DEF outsideVars, tableVars
<1> QED
  BY <1>1, <1>2, QuietStep DEF Mark

(* A step that takes nothing from the list. *)
LEMMA ListStep ==
  ASSUME TypeInv, NEW w \in Worker, NEW x \in WorkerState,
         Holds(x) => Leads(x.ref) \/ (x.ref \in IndexPointer => x.ref.at <= Len(certs'.cells)),
         Moves(w, x), ListsKept, IdsOf(certs) \subseteq IdsOf(certs'),
         raced' = raced \cup Contended, hurt \subseteq hurt', ~At(w, "unload"),
         UNCHANGED <<installation, disk, tableVars, outsideVars, caVars, issuer>>,
         SafeInv => WorkerHolds(w)'
  PROVE  TypeInv' /\ (SafeInv => WorkerEffect(w))
<1>1. TablesOK' /\ OutsideOK' /\ IssuersOK' /\ \A i \in Issuer : issuer'[i] = issuer[i]
  BY TablesStay, OutsideStays, IssuersStay DEF TypeInv
<1>2. bound' = bound /\ loaded' = loaded
  BY DEF outsideVars, tableVars
<1>3. WorkersOK'
  BY WorkersMove DEF TypeInv
<1>4. TypeInv'
  BY <1>1, <1>3 DEF TypeInv, ListsKept
<1>5. ASSUME SafeInv
      PROVE  WorkerEffect(w)
  <2>1. ListsAgree'
    BY <1>5 DEF ListsKept, SafeInv
  <2> QED
    BY <1>1, <1>2, <1>5, <2>1 DEF WorkerEffect, Moves
<1> QED
  BY <1>4, <1>5

(* A step that takes a certificate of its own from the list. *)
LEMMA DeleteStep ==
  ASSUME TypeInv, NEW w \in Worker, NEW x \in WorkerState, ~Holds(x),
         Goto(w, x), NEW c \in worker[w].on, c \in Cert, Deleted(c), ~At(w, "unload"),
         raced' = raced \cup Contended, hurt \subseteq hurt', worker'[w].pc \in Uncommitted,
         UNCHANGED <<installation, disk, tableVars, outsideVars, caVars, issuer>>,
         SafeInv /\ Clean(c)' => c \notin bound,
         c \in hurt' \/ (At(w, "unload")' /\ worker'[w].id = c)
  PROVE  TypeInv' /\ (SafeInv => WorkerEffect(w))
<1>1. ListsKept /\ IdsOf(certs) \ {c} \subseteq IdsOf(certs')
  BY DeletedList DEF TypeInv
<1>2. Moves(w, x)
  BY GotoMoves DEF TypeInv
<1>3. WorkersOK'
  BY <1>1, <1>2, WorkersMove DEF TypeInv
<1>4. TablesOK' /\ OutsideOK' /\ IssuersOK' /\ \A i \in Issuer : issuer'[i] = issuer[i]
  BY TablesStay, OutsideStays, IssuersStay DEF TypeInv
<1>5. bound' = bound /\ loaded' = loaded
  BY DEF outsideVars, tableVars
<1>6. TypeInv'
  BY <1>1, <1>3, <1>4 DEF TypeInv, ListsKept
<1>7. ASSUME SafeInv
      PROVE  WorkerEffect(w)
  <2>1. ListsAgree'
    BY <1>1, <1>7 DEF ListsKept, SafeInv
  <2>2. WorkerHolds(w)'
    BY UncommittedHolds
  <2>3. \A d \in IdsOf(certs) \ IdsOf(certs') : d = c
    BY <1>1
  <2>4. Clean(c)' => c \notin hurt'
    BY DEF Clean
  <2> QED
    BY <1>2, <1>4, <1>5, <1>7, <2>1, <2>2, <2>3, <2>4 DEF WorkerEffect, Moves
<1> QED
  BY <1>6, <1>7

(* A step that puts into the table what the list has, or takes something   *)
(* from the table.                                                         *)
LEMMA TableStep ==
  ASSUME TypeInv, NEW w \in Worker, NEW x \in WorkerState, ~Holds(x),
         Goto(w, x), Mark({}), loaded' \in Table,
         UNCHANGED <<installation, configVars, disk, progress, records, outsideVars, caVars,
                     issuer>>,
         worker'[w].pc \in Uncommitted,
         \A c \in Cert \ worker[w].on : loaded'[c] = loaded[c],
         SafeInv => \A c \in Cert : Clean(c)' /\ loaded'[c] # None =>
                                      loaded[c] # None \/ Configured(c),
         At(w, "unload") => loaded'[worker[w].id] = None
  PROVE  TypeInv' /\ (SafeInv => WorkerEffect(w))
<1>1. ListsKept /\ IdsOf(certs') = IdsOf(certs)
  BY UnchangedLists DEF TypeInv, Mark
<1>2. Moves(w, x)
  BY GotoMoves DEF TypeInv
<1>3. WorkersOK'
  BY <1>1, <1>2, WorkersMove DEF TypeInv
<1>4. OutsideOK' /\ IssuersOK' /\ \A i \in Issuer : issuer'[i] = issuer[i]
  BY OutsideStays, IssuersStay DEF TypeInv
<1>5. TablesOK'
  BY DEF TypeInv, TablesOK
<1>6. TypeInv'
  BY <1>1, <1>3, <1>4, <1>5 DEF TypeInv, ListsKept
<1>7. ASSUME SafeInv
      PROVE  WorkerEffect(w)
  <2>1. ListsAgree'
    BY <1>1, <1>7 DEF ListsKept, SafeInv
  <2>2. WorkerHolds(w)'
    BY UncommittedHolds
  <2>3. \A c \in Cert : Configured(c) => Configured(c)'
    BY <1>1 DEF Configured
  <2> QED
    BY <1>1, <1>2, <1>4, <1>7, <2>1, <2>2, <2>3 DEF WorkerEffect, Moves, Mark, outsideVars
<1> QED
  BY <1>6, <1>7

-----------------------------------------------------------------------------
(* The handlers a request may arrive for *)

LEMMA InstallationFacts ==
  ASSUME OutsideOK
  PROVE  /\ installation.terms \subseteq Terms /\ installation.terms \subseteq Chosen
         /\ MaxIssued \in Nat /\ installation.maxIssued \in Issue
         /\ installation.lists \subseteq {Unreadable} \cup SUBSET SyncCert
<1>1. installation \in Installation /\ MaxIssued \in Nat
  BY CertificateAssumption DEF OutsideOK
<1> QED
  BY <1>1 DEF Installation, Chosen

LEMMA NextIssue ==
  ASSUME OutsideOK, issued < installation.maxIssued
  PROVE  issued + 1 \in Issue /\ issued + 1 \in 0 .. MaxIssued /\ issued + 1 \in MaybeIssue
<1>1. MaxIssued \in Nat /\ installation.maxIssued \in 1 .. MaxIssued /\ issued \in 0 .. MaxIssued
  BY InstallationFacts DEF OutsideOK, Issue
<1> QED
  BY <1>1 DEF Issue, MaybeIssue

LEMMA NewEntryIn ==
  ASSUME NEW c \in Cert, NEW s \in {"acme", "imported", "file_sync"}, NEW t \in Chosen,
         NEW a \in BOOLEAN
  PROVE  NewEntry(c, s, t, a) \in Entry /\ NewEntry(c, s, t, a).id = c
  BY DEF NewEntry, Entry, Chosen

LEMMA IdleWorker ==
  ASSUME NEW w \in Worker, Begins(w)
  PROVE  ~At(w, "unload") /\ worker[w] = Idle
  BY DEF Begins, At, Idle

LEMMA UploadStep ==
  ASSUME TypeInv, NEW w \in Worker, NEW e \in Entry, NEW then \in {"add", "update"},
         Upload(w, e, then), then = "update" => Configured(e.id), Begins(w), Mark({}),
         UNCHANGED <<installation, configVars, disk, tableVars, outsideVars, issuer>>,
         unused' \subseteq unused
  PROVE  TypeInv' /\ (SafeInv => WorkerEffect(w))
<1> DEFINE f == [e EXCEPT !.expires = issued + 1, !.status = "valid", !.renewAt = None]
           x == [pc |-> "writeCrt", on |-> {e.id}, then |-> then, serves |-> issued + 1,
                 entry |-> f]
<1>1. issued + 1 \in Issue /\ issued + 1 \in 0 .. MaxIssued /\ issued + 1 \in MaybeIssue
  BY NextIssue DEF Upload, TypeInv
<1>2. f \in Entry /\ f.id = e.id /\ e.id \in Cert
  BY <1>1 DEF Entry, MaybeIssue
<1>4. Goto(w, x) /\ issued' = issued + 1 /\ due' = due
  BY DEF Upload
<1> HIDE DEF f
<1>3. x \in WritingState /\ x.pc = "writeCrt" /\ x.then = then /\ x.entry.id = e.id
  BY <1>1, <1>2 DEF WritingState
<1> HIDE DEF x
<1>5. x \in WorkerState /\ ~Holds(x)
  BY <1>3 DEF WorkerState, Holds
<1>6. TablesOK' /\ OutsideOK' /\ IssuersOK' /\ \A i \in Issuer : issuer'[i] = issuer[i]
  BY <1>1, <1>4, TablesStay, IssuersStay DEF TypeInv, OutsideOK, outsideVars
<1>7. worker'[w] = x
  BY <1>4, GotoMoves DEF Moves, TypeInv
<1>8. WorkerHolds(w)'
  BY <1>3, <1>7 DEF WorkerHolds, At, Configured, configVars
<1> QED
  BY <1>4, <1>5, <1>6, <1>8, IdleWorker, QuietStep DEF tableVars, outsideVars, Mark

LEMMA ImportStep ==
  ASSUME TypeInv, NEW w \in Worker, ImportCertificate(w), UNCHANGED installation
  PROVE  TypeInv' /\ (SafeInv => WorkerEffect(w))
<1>1. PICK c \in unused, t \in installation.terms :
        unused' = unused \ {c} /\ Upload(w, NewEntry(c, "imported", t, FALSE), "add")
  BY DEF ImportCertificate
<1>2. NewEntry(c, "imported", t, FALSE) \in Entry
  BY InstallationFacts, NewEntryIn DEF TypeInv, OutsideOK
<1>3. Begins(w) /\ Mark({}) /\ unused' \subseteq unused
      /\ UNCHANGED <<installation, configVars, disk, tableVars, outsideVars, issuer>>
  BY <1>1 DEF ImportCertificate, Arrives
<1> QED
  BY <1>1, <1>2, <1>3, UploadStep

LEMMA GenerateStep ==
  ASSUME TypeInv, NEW w \in Worker, GenerateSelfSigned(w), UNCHANGED installation
  PROVE  TypeInv' /\ (SafeInv => WorkerEffect(w))
<1>1. PICK c \in unused :
        /\ unused' = unused \ {c}
        /\ Goto(w, [pc |-> "writeCrt", on |-> {c}, then |-> "add", serves |-> None,
                    entry |-> [NewEntry(c, "imported", SelfSigned, FALSE)
                               EXCEPT !.expires = issued + 1]])
  BY DEF GenerateSelfSigned
<1> DEFINE n == NewEntry(c, "imported", SelfSigned, FALSE)
           f == [n EXCEPT !.expires = issued + 1]
           x == [pc |-> "writeCrt", on |-> {c}, then |-> "add", serves |-> None, entry |-> f]
<1>2. n \in Entry /\ n.id = c /\ c \in Cert
  BY NewEntryIn DEF Chosen, TypeInv, OutsideOK
<1>3. issued + 1 \in Issue /\ issued + 1 \in 0 .. MaxIssued
  BY NextIssue DEF TypeInv, GenerateSelfSigned
<1> HIDE DEF n
<1>4. f \in Entry /\ f.id = c
  BY <1>2, <1>3 DEF Entry
<1>6. Goto(w, x)
  BY <1>1 DEF n
<1> HIDE DEF f
<1>5. x \in WritingState /\ x.pc = "writeCrt" /\ x.then = "add"
  BY <1>2, <1>4 DEF WritingState, MaybeIssue
<1> HIDE DEF x
<1>7. x \in WorkerState /\ ~Holds(x)
  BY <1>5 DEF WorkerState, Holds
<1>8. issued' = issued + 1 /\ Begins(w) /\ Mark({}) /\ unused' \subseteq unused
      /\ UNCHANGED <<installation, configVars, disk, tableVars, outsideVars, issuer>>
  BY <1>1 DEF GenerateSelfSigned, Arrives
<1>9. TablesOK' /\ OutsideOK' /\ IssuersOK' /\ \A i \in Issuer : issuer'[i] = issuer[i]
  BY <1>3, <1>8, TablesStay, IssuersStay DEF TypeInv, OutsideOK, outsideVars
<1>10. WorkerHolds(w)'
  <2>1. worker'[w] = x
    BY <1>6, GotoMoves DEF Moves, TypeInv
  <2> QED
    BY <1>5, <2>1 DEF WorkerHolds, At
<1> QED
  BY <1>6, <1>7, <1>8, <1>9, <1>10, IdleWorker, QuietStep DEF tableVars, outsideVars, Mark

(* A new issuer is registered at the certificate of its entry. *)
LEMMA IssueStarts ==
  ASSUME TypeInv, NEW w \in Worker, NEW e \in Entry, NEW x, IssueACMECertificate(w, e, x)
  PROVE  /\ IssuersOK' /\ Goto(w, x)
         /\ progress' \in [Cert -> {"running", "success", "error", None}]
         /\ records' \in [Cert -> Domain \cup {None}]
         /\ \A i \in Issuer :
              issuer'[i] = issuer[i] \/ (issuer[i] = Idle /\ issuer'[i].pc = "obtain")
<1>1. PICK i \in Issuer : /\ issuer[i] = Idle
                          /\ Continue(i, [pc |-> "obtain", on |-> {e.id}, entry |-> e,
                                          awaits |-> {}])
  BY DEF IssueACMECertificate
<1> DEFINE y == [pc |-> "obtain", on |-> {e.id}, entry |-> e, awaits |-> {}]
<1>2. y \in IssuerState /\ y.pc = "obtain"
  BY DEF IssuerState, IssuingState, Entry
<1>3. Continue(i, y)
  BY <1>1
<1> HIDE DEF y
<1>4. IssuersOK' /\ issuer'[i] = y /\ \A j \in Issuer \ {i} : issuer'[j] = issuer[j]
  BY <1>2, <1>3, IssuersMove DEF TypeInv
<1>5. /\ progress' = [progress EXCEPT ![e.id] = "running"] /\ Goto(w, x)
      /\ records' = [records EXCEPT ![e.id] = None]
  BY DEF IssueACMECertificate
<1>6. /\ progress' \in [Cert -> {"running", "success", "error", None}]
      /\ records' \in [Cert -> Domain \cup {None}]
  BY <1>5 DEF TypeInv, TablesOK
<1> QED
  BY <1>1, <1>2, <1>4, <1>5, <1>6

LEMMA IssueStep ==
  ASSUME TypeInv, NEW w \in Worker, NEW e \in Entry, NEW x \in WorkerState,
         Holds(x) => Leads(x.ref), IssueACMECertificate(w, e, x), x.pc \in Uncommitted,
         ~At(w, "unload"), Mark({}), OutsideOK',
         UNCHANGED <<installation, configVars, disk, loaded, bound>>
  PROVE  TypeInv' /\ (SafeInv => WorkerEffect(w))
<1>1. /\ IssuersOK' /\ Goto(w, x)
      /\ progress' \in [Cert -> {"running", "success", "error", None}]
      /\ records' \in [Cert -> Domain \cup {None}]
      /\ \A i \in Issuer :
           issuer'[i] = issuer[i] \/ (issuer[i] = Idle /\ issuer'[i].pc = "obtain")
  BY IssueStarts
<1>2. TablesOK'
  BY <1>1 DEF TypeInv, TablesOK
<1>3. WorkerHolds(w)'
  <2>1. worker'[w] = x
    BY <1>1, GotoMoves DEF Moves, TypeInv
  <2> QED
    BY <2>1, UncommittedHolds
<1> QED
  BY <1>1, <1>2, <1>3, QuietStep DEF Mark

LEMMA IdleIn == Idle \in WorkerState /\ ~Holds(Idle) /\ Idle.pc \in Uncommitted
  BY IdleIsIdle DEF WorkerState, Holds, Idle, Uncommitted

LEMMA CreateStep ==
  ASSUME TypeInv, NEW w \in Worker, CreateACME(w), UNCHANGED installation
  PROVE  TypeInv' /\ (SafeInv => WorkerEffect(w))
<1>1. PICK c \in unused, t \in installation.terms, a \in BOOLEAN :
        unused' = unused \ {c} /\ IssueACMECertificate(w, NewEntry(c, "acme", t, a), Idle)
  BY DEF CreateACME
<1>2. NewEntry(c, "acme", t, a) \in Entry
  BY InstallationFacts, NewEntryIn DEF TypeInv, OutsideOK
<1>3. Begins(w) /\ Mark({})
      /\ UNCHANGED <<installation, configVars, disk, loaded, outsideVars, issued, due>>
  BY DEF CreateACME, Arrives
<1>4. OutsideOK'
  BY <1>1, <1>3 DEF TypeInv, OutsideOK, outsideVars
<1> QED
  BY <1>1, <1>2, <1>3, <1>4, IdleIn, IdleWorker, IssueStep DEF outsideVars

LEMMA EditedIn ==
  ASSUME NEW e \in Entry, NEW t \in Terms, NEW a \in BOOLEAN
  PROVE  /\ [e EXCEPT !.terms = t, !.autoRenew = a] \in Entry
         /\ [e EXCEPT !.terms = t, !.autoRenew = a].id = e.id
         /\ EditedACME(e, a) \in Entry
<1> DEFINE r == IF ~a THEN None ELSE IF e.expires # None THEN e.expires ELSE e.renewAt
<1>1. r \in Issue \cup {None}
  BY DEF Entry
<1>2. EditedACME(e, a) = [e EXCEPT !.autoRenew = a, !.renewAt = r]
  BY DEF EditedACME, Entry
<1> HIDE DEF r
<1> QED
  BY <1>1, <1>2 DEF Entry

LEMMA UpdateStep ==
  ASSUME TypeInv, NEW w \in Worker, UpdateCertificate(w), UNCHANGED installation
  PROVE  TypeInv' /\ (SafeInv => WorkerEffect(w))
<1> DEFINE e(c) == Element(certs, c)
           edited(c, t, a) == [e(c) EXCEPT !.terms = t, !.autoRenew = a]
           edit(f) == [pc |-> "edit", on |-> Cert, entry |-> f]
<1>1. Begins(w) /\ Mark({})
      /\ UNCHANGED <<installation, configVars, disk, loaded, outsideVars, unused>>
  BY DEF UpdateCertificate, Arrives
<1>2. PICK c \in IdsOf(certs), t \in installation.terms, a \in BOOLEAN :
        \/ /\ Upload(w, edited(c, t, a), "update") /\ UNCHANGED <<issuer, progress, records>>
        \/ /\ Goto(w, edit(edited(c, t, a))) /\ UNCHANGED <<issuer, progress, records, issued, due>>
        \/ /\ Goto(w, edit(EditedACME(e(c), a))) /\ UNCHANGED <<issuer, progress, records, issued, due>>
        \/ IssueACMECertificate(w, edited(c, t, a), Idle) /\ UNCHANGED <<issued, due>>
  BY ZenonT(30) DEF UpdateCertificate
<1>3. e(c) \in Entry /\ e(c).id = c
  BY ElementIn DEF TypeInv
<1>4. /\ edited(c, t, a) \in Entry /\ edited(c, t, a).id = c
      /\ EditedACME(e(c), a) \in Entry
  BY <1>3, InstallationFacts, EditedIn DEF TypeInv
<1>5. c \in IdsOf(certs)
  BY <1>2
<1> HIDE DEF e, edited
<1>6. ASSUME NEW f \in Entry, Goto(w, edit(f)), UNCHANGED <<issuer, progress, records, issued, due>>
      PROVE  TypeInv' /\ (SafeInv => WorkerEffect(w))
  <2>1. edit(f) \in EditState /\ edit(f).pc = "edit"
    BY DEF EditState
  <2>2. worker'[w] = edit(f)
    BY <1>6, GotoMoves DEF Moves, TypeInv
  <2> HIDE DEF edit
  <2>3. edit(f) \in WorkerState /\ ~Holds(edit(f)) /\ WorkerHolds(w)'
    BY <2>1, <2>2, UncommittedHolds DEF WorkerState, Holds, Uncommitted
  <2>4. UNCHANGED <<installation, configVars, disk, tableVars, outsideVars, caVars, issuer>>
    BY <1>1, <1>6 DEF tableVars, caVars
  <2> QED
    BY <1>1, <1>6, <2>3, <2>4, IdleWorker, LocalStep
<1>7. CASE Upload(w, edited(c, t, a), "update") /\ UNCHANGED <<issuer, progress, records>>
  BY <1>1, <1>4, <1>5, <1>7, UploadStep DEF Configured, tableVars
<1>8. CASE IssueACMECertificate(w, edited(c, t, a), Idle) /\ UNCHANGED <<issued, due>>
  <2>1. OutsideOK'
    BY <1>1, <1>8, OutsideStays DEF TypeInv, caVars
  <2> QED
    BY <1>1, <1>4, <1>8, <2>1, IdleIn, IdleWorker, IssueStep DEF outsideVars
<1> QED
  BY <1>2, <1>4, <1>6, <1>7, <1>8

-----------------------------------------------------------------------------
(* The steps of a request that stores a certificate *)

Written(c, part) == \E p \in MaybeIssue : disk' = [disk EXCEPT ![c][part] = p]

LEMMA WrittenIn ==
  ASSUME TablesOK, NEW c \in Cert, NEW part \in {"crt", "key"}, Written(c, part),
         UNCHANGED tableVars
  PROVE  TablesOK'
<1>1. PICK p \in MaybeIssue : disk' = [disk EXCEPT ![c][part] = p]
  BY DEF Written
<1>2. disk[c] \in File /\ disk \in [Cert -> File]
  BY DEF TablesOK
<1> DEFINE f == [disk[c] EXCEPT ![part] = p]
<1>3. f \in File
  BY <1>2 DEF File, MaybeIssue
<1>4. disk' = [disk EXCEPT ![c] = f]
  BY <1>1, <1>2
<1> HIDE DEF f
<1> QED
  BY <1>2, <1>3, <1>4 DEF TablesOK, tableVars

LEMMA FileIn ==
  ASSUME TablesOK, NEW c \in Cert, NEW part \in {"crt", "key"}
  PROVE  disk[c][part] \in MaybeIssue /\ None \in MaybeIssue
  BY DEF TablesOK, File, MaybeIssue

(* What the goroutine that writes files is at, and where it goes on. *)
LEMMA WritingOn ==
  ASSUME TypeInv, NEW w \in Worker,
         worker[w].pc \in {"writeCrt", "writeKey", "add", "update", "load"}
  PROVE  /\ worker[w] \in WritingState /\ worker[w].entry \in Entry
         /\ worker[w].entry.id \in Cert /\ worker[w].entry.id \in worker[w].on
         /\ worker[w].entry.expires \in MaybeIssue /\ worker[w].serves \in MaybeIssue
         /\ worker[w].entry.terms \in Chosen
         /\ worker[w].then \in {"add", "update"}
         /\ \A pc \in {"writeKey", "add", "update", "load"} :
              /\ [worker[w] EXCEPT !.pc = pc] \in WorkerState
              /\ ~Holds([worker[w] EXCEPT !.pc = pc])
              /\ [worker[w] EXCEPT !.pc = pc].pc = pc
              /\ [worker[w] EXCEPT !.pc = pc].then = worker[w].then
              /\ [worker[w] EXCEPT !.pc = pc].entry = worker[w].entry
<1>1. worker[w] \in WorkerState
  BY DEF TypeInv, WorkersOK
<1>2. worker[w] \in WritingState
  BY <1>1, WorkerShapes
<1>3. worker[w].entry \in Entry /\ worker[w].entry.id \in worker[w].on
      /\ worker[w].serves \in MaybeIssue /\ worker[w].then \in {"add", "update"}
  BY <1>2 DEF WritingState
<1>4. worker[w].entry.id \in Cert /\ worker[w].entry.expires \in MaybeIssue
      /\ worker[w].entry.terms \in Chosen
  BY <1>3 DEF Entry, MaybeIssue, Chosen
<1>5. ASSUME NEW pc \in {"writeKey", "add", "update", "load"}, NEW x, x = [worker[w] EXCEPT !.pc = pc]
      PROVE  /\ x \in WritingState /\ x.pc = pc
             /\ x.then = worker[w].then /\ x.entry = worker[w].entry
  BY <1>2, <1>5 DEF WritingState
<1>6. ASSUME NEW x \in WritingState
      PROVE  x \in WorkerState /\ (x.pc \in {"writeKey", "add", "update", "load"} => ~Holds(x))
  BY <1>6 DEF WorkerState, Holds
<1> QED
  BY <1>2, <1>3, <1>4, <1>5, <1>6

(* A file is written, and the request goes on with x. *)
LEMMA WriteStep ==
  ASSUME TypeInv, NEW w \in Worker, NEW x \in WorkerState, ~Holds(x), Goto(w, x),
         NEW c \in Cert, NEW part \in {"crt", "key"}, Written(c, part),
         raced' = raced \cup Contended, hurt \subseteq hurt', ~At(w, "unload"),
         UNCHANGED <<installation, configVars, tableVars, outsideVars, caVars, issuer>>,
         SafeInv => WorkerHolds(w)'
  PROVE  TypeInv' /\ (SafeInv => WorkerEffect(w))
<1>1. TablesOK' /\ OutsideOK' /\ IssuersOK' /\ \A i \in Issuer : issuer'[i] = issuer[i]
  BY WrittenIn, OutsideStays, IssuersStay DEF TypeInv
<1> QED
  BY <1>1, QuietStep DEF tableVars, outsideVars

(* Whoever wrote the certificate of an entry that is to be replaced has    *)
(* seen it in the list, and it is still there.                             *)
LEMMA WritingHolds ==
  ASSUME NEW w \in Worker, SafeInv, worker[w].pc \in {"writeCrt", "writeKey", "add", "update"},
         raced' = raced \cup Contended, hurt \subseteq hurt', IdsOf(certs) \subseteq IdsOf(certs'),
         worker'[w].pc \in {"writeKey", "add", "update", "load"},
         worker'[w].entry = worker[w].entry, worker'[w].then = worker[w].then,
         worker'[w].pc \in {"update", "load"} => \/ worker[w].pc = "update"
                                                 \/ worker[w].then = "update"
                                                 \/ worker[w].entry.id \in IdsOf(certs')
  PROVE  WorkerHolds(w)'
<1>1. Clean(worker[w].entry.id)' => Clean(worker[w].entry.id)
  BY DEF Clean, Raced
<1>2. Clean(worker[w].entry.id)' =
        (worker'[w].entry.id \notin Raced' \cup hurt')
  BY DEF Clean
<1>3. worker[w].entry.id \notin Raced' \cup hurt' => Clean(worker[w].entry.id)
  BY DEF Clean, Raced
<1>4. WorkerHolds(w)
  BY DEF SafeInv
<1> QED
  BY <1>2, <1>3, <1>4 DEF WorkerHolds, At, Configured, Clean

LEMMA WriteCrtStep ==
  ASSUME TypeInv, NEW w \in Worker, WriteCrt(w), UNCHANGED installation
  PROVE  TypeInv' /\ (SafeInv => WorkerEffect(w))
<1> DEFINE x == [worker[w] EXCEPT !.pc = "writeKey"]
           e == worker[w].entry
<1>1. worker[w].pc = "writeCrt" /\ ~At(w, "unload")
      /\ UNCHANGED <<configVars, tableVars, outsideVars, caVars, issuer>>
  BY DEF WriteCrt, At
<1>2. /\ e.id \in Cert /\ e.expires \in MaybeIssue
      /\ x \in WorkerState /\ ~Holds(x) /\ x.pc = "writeKey" /\ x.then = worker[w].then
      /\ x.entry = e
  BY <1>1, WritingOn
<1>3. Written(e.id, "crt") /\ raced' = raced \cup Contended /\ hurt \subseteq hurt'
      /\ (Goto(w, x) \/ Goto(w, Idle))
  BY <1>2, FileIn DEF WriteCrt, WriteFile, Written, Mark, TypeInv
<1> HIDE DEF x, e
<1>4. CASE Goto(w, Idle)
  <2>1. WorkerHolds(w)'
    BY <1>4, GotoMoves, IdleIn, UncommittedHolds DEF Moves, TypeInv
  <2> QED
    BY <1>1, <1>2, <1>3, <1>4, <2>1, IdleIn, WriteStep
<1>5. CASE Goto(w, x)
  <2>1. worker'[w] = x /\ IdsOf(certs) \subseteq IdsOf(certs')
    BY <1>1, <1>5, GotoMoves DEF Moves, TypeInv, configVars
  <2>2. SafeInv => WorkerHolds(w)'
    BY <1>1, <1>2, <1>3, <2>1, WritingHolds DEF e
  <2> QED
    BY <1>1, <1>2, <1>3, <1>5, <2>2, WriteStep
<1> QED
  BY <1>3, <1>4, <1>5

LEMMA WriteKeyStep ==
  ASSUME TypeInv, NEW w \in Worker, WriteKey(w), UNCHANGED installation
  PROVE  TypeInv' /\ (SafeInv => WorkerEffect(w))
<1> DEFINE x == [worker[w] EXCEPT !.pc = worker[w].then]
           e == worker[w].entry
<1>1. worker[w].pc = "writeKey" /\ ~At(w, "unload")
      /\ UNCHANGED <<configVars, tableVars, outsideVars, caVars, issuer>>
  BY DEF WriteKey, At
<1>2. /\ e.id \in Cert /\ e.expires \in MaybeIssue
      /\ x \in WorkerState /\ ~Holds(x) /\ x.pc = worker[w].then /\ x.then = worker[w].then
      /\ x.entry = e /\ x.pc \in {"add", "update"}
  BY <1>1, WritingOn, ZenonT(30)
<1>3. Written(e.id, "key") /\ raced' = raced \cup Contended /\ hurt \subseteq hurt'
      /\ (Goto(w, x) \/ Goto(w, Idle))
  BY <1>2, FileIn DEF WriteKey, WriteFile, Written, Mark, TypeInv
<1> HIDE DEF x, e
<1>4. CASE Goto(w, Idle)
  <2>1. WorkerHolds(w)'
    BY <1>4, GotoMoves, IdleIn, UncommittedHolds DEF Moves, TypeInv
  <2> QED
    BY <1>1, <1>2, <1>3, <1>4, <2>1, IdleIn, WriteStep
<1>5. CASE Goto(w, x)
  <2>1. worker'[w] = x /\ IdsOf(certs) \subseteq IdsOf(certs')
    BY <1>1, <1>5, GotoMoves DEF Moves, TypeInv, configVars
  <2>2. SafeInv => WorkerHolds(w)'
    BY <1>1, <1>2, <1>3, <2>1, WritingHolds DEF e
  <2> QED
    BY <1>1, <1>2, <1>3, <1>5, <2>2, WriteStep
<1> QED
  BY <1>3, <1>4, <1>5

LEMMA AddStep ==
  ASSUME TypeInv, NEW w \in Worker, AddImported(w), UNCHANGED installation
  PROVE  TypeInv' /\ (SafeInv => WorkerEffect(w))
<1> DEFINE x == [worker[w] EXCEPT !.pc = "load"]
           e == worker[w].entry
<1>1. worker[w].pc = "add" /\ ~At(w, "unload")
      /\ UNCHANGED <<disk, tableVars, outsideVars, caVars, issuer>>
  BY DEF AddImported, At
<1>2. /\ e \in Entry
      /\ x \in WorkerState /\ ~Holds(x) /\ x.pc = "load" /\ x.then = worker[w].then
      /\ x.entry = e
  BY <1>1, WritingOn
<1>3. PICK ws \in AfterAppend :
        /\ Added(e) /\ raced' = raced \cup Contended /\ hurt \subseteq hurt'
        /\ worker' = [ws EXCEPT ![w] = x] \/ worker' = [ws EXCEPT ![w] = Idle]
  BY DEF AddImported, AddEntry, Saves, Mark, Added, Stored
<1> HIDE DEF x, e
<1>4. ListsKept /\ IdsOf(certs') = IdsOf(certs) \cup {e.id}
  BY <1>2, <1>3, AddedList DEF TypeInv
<1>5. CASE worker' = [ws EXCEPT ![w] = Idle]
  <2>1. Moves(w, Idle)
    BY <1>5, AppendMoves DEF TypeInv
  <2>2. WorkerHolds(w)'
    BY <2>1, IdleIn, UncommittedHolds DEF Moves
  <2> QED
    BY <1>1, <1>3, <1>4, <2>1, <2>2, IdleIn, ListStep
<1>6. CASE worker' = [ws EXCEPT ![w] = x]
  <2>1. Moves(w, x)
    BY <1>6, AppendMoves DEF TypeInv
  <2>2. worker'[w] = x
    BY <2>1 DEF Moves
  <2>3. SafeInv => WorkerHolds(w)'
    BY <1>1, <1>2, <1>3, <1>4, <2>2, WritingHolds DEF e
  <2> QED
    BY <1>1, <1>2, <1>3, <1>4, <2>1, <2>3, ListStep
<1> QED
  BY <1>3, <1>5, <1>6

(* The list is updated, and the request goes on with x. *)
LEMMA ChangeStep ==
  ASSUME TypeInv, NEW w \in Worker, NEW x \in WorkerState, Holds(x) => Leads(x.ref), Goto(w, x),
         NEW e \in Entry, Updated(e), raced' = raced \cup Contended, hurt \subseteq hurt',
         ~At(w, "unload"), UNCHANGED <<installation, disk, tableVars, outsideVars, caVars, issuer>>,
         SafeInv => WorkerHolds(w)'
  PROVE  TypeInv' /\ (SafeInv => WorkerEffect(w))
<1>1. ListsKept /\ IdsOf(certs') = IdsOf(certs)
  BY UpdatedList DEF TypeInv
<1>2. Moves(w, x)
  BY GotoMoves DEF TypeInv
<1> QED
  BY <1>1, <1>2, ListStep

LEMMA ChangeImportedStep ==
  ASSUME TypeInv, NEW w \in Worker, UpdateImported(w), UNCHANGED installation
  PROVE  TypeInv' /\ (SafeInv => WorkerEffect(w))
<1> DEFINE x == [worker[w] EXCEPT !.pc = "load"]
           e == worker[w].entry
<1>1. worker[w].pc = "update" /\ ~At(w, "unload")
      /\ UNCHANGED <<disk, tableVars, outsideVars, caVars, issuer>>
  BY DEF UpdateImported, At
<1>2. /\ e \in Entry
      /\ x \in WorkerState /\ ~Holds(x) /\ x.pc = "load" /\ x.then = worker[w].then
      /\ x.entry = e
  BY <1>1, WritingOn
<1>3. Updated(e) /\ raced' = raced \cup Contended /\ hurt \subseteq hurt'
      /\ (Goto(w, x) \/ Goto(w, Idle))
  BY DEF UpdateImported, UpdateEntry, Saves, Mark, Updated, Stored
<1> HIDE DEF x, e
<1>4. CASE Goto(w, Idle)
  <2>1. WorkerHolds(w)'
    BY <1>4, GotoMoves, IdleIn, UncommittedHolds DEF Moves, TypeInv
  <2> QED
    BY <1>1, <1>2, <1>3, <1>4, <2>1, IdleIn, ChangeStep
<1>5. CASE Goto(w, x)
  <2>1. worker'[w] = x /\ IdsOf(certs') = IdsOf(certs)
    BY <1>2, <1>3, <1>5, GotoMoves, UpdatedList DEF Moves, TypeInv
  <2>2. SafeInv => WorkerHolds(w)'
    BY <1>1, <1>2, <1>3, <2>1, WritingHolds DEF e
  <2> QED
    BY <1>1, <1>2, <1>3, <1>5, <2>2, ChangeStep
<1> QED
  BY <1>3, <1>4, <1>5

LEMMA LoadStep ==
  ASSUME TypeInv, NEW w \in Worker, LoadImported(w), UNCHANGED installation
  PROVE  TypeInv' /\ (SafeInv => WorkerEffect(w))
<1> DEFINE e == worker[w].entry
           p == Served(e.terms, worker[w].serves)
<1>1. /\ worker[w].pc = "load" /\ ~At(w, "unload") /\ loaded' = [loaded EXCEPT ![e.id] = p]
      /\ Goto(w, Idle) /\ Mark({})
      /\ UNCHANGED <<configVars, disk, progress, records, outsideVars, caVars, issuer>>
  BY DEF LoadImported, At
<1>2. e.id \in Cert /\ e.id \in worker[w].on /\ e.terms \in Chosen
      /\ worker[w].serves \in MaybeIssue
  BY <1>1, WritingOn
<1> HIDE DEF p
<1>3. loaded' \in Table /\ \A c \in Cert : c # e.id => loaded'[c] = loaded[c]
  <2>1. p \in Pair
    BY <1>2 DEF Pair, p
  <2> QED
    BY <1>1, <1>2, <2>1 DEF TypeInv, TablesOK, Table
<1>4. worker'[w].pc \in Uncommitted
  BY <1>1, GotoMoves, IdleIn DEF Moves, TypeInv
<1>5. ASSUME SafeInv, NEW c \in Cert, Clean(c)', loaded'[c] # None
      PROVE  loaded[c] # None \/ Configured(c)
  <2>1. CASE c # e.id
    BY <1>3, <1>5, <2>1
  <2>2. CASE c = e.id
    BY <1>1, <1>5, <2>2 DEF SafeInv, WorkerHolds, Clean, Raced, Mark
  <2> QED
    BY <2>1, <2>2
<1> QED
  BY <1>1, <1>2, <1>3, <1>4, <1>5, IdleIn, TableStep

LEMMA StoreEditStep ==
  ASSUME TypeInv, NEW w \in Worker, StoreEdit(w), UNCHANGED installation
  PROVE  TypeInv' /\ (SafeInv => WorkerEffect(w))
<1> DEFINE x == [pc |-> "reload", on |-> Cert]
           e == worker[w].entry
<1>1. worker[w].pc = "edit" /\ ~At(w, "unload")
      /\ UNCHANGED <<disk, tableVars, outsideVars, caVars, issuer>>
  BY DEF StoreEdit, At
<1>2. e \in Entry
  BY <1>1, WorkerShapes DEF TypeInv, WorkersOK, EditState
<1>3. x \in WorkerState /\ ~Holds(x) /\ x.pc \in Uncommitted
  BY DEF WorkerState, ReloadState, Holds, Uncommitted
<1>4. Updated(e) /\ raced' = raced \cup Contended /\ hurt \subseteq hurt'
      /\ (Goto(w, x) \/ Goto(w, Idle))
  BY DEF StoreEdit, UpdateEntry, Saves, Mark, Updated, Stored
<1> HIDE DEF x, e
<1>5. ASSUME NEW y \in {x, Idle}, Goto(w, y)
      PROVE  TypeInv' /\ (SafeInv => WorkerEffect(w))
  <2>1. y \in WorkerState /\ ~Holds(y) /\ y.pc \in Uncommitted
    BY <1>3, IdleIn
  <2>2. WorkerHolds(w)'
    BY <1>5, <2>1, GotoMoves, UncommittedHolds DEF Moves, TypeInv
  <2> QED
    BY <1>1, <1>2, <1>4, <1>5, <2>1, <2>2, ChangeStep
<1> QED
  BY <1>4, <1>5

LEMMA LoadableIn ==
  ASSUME TablesOK, NEW S \in SUBSET Entry
  PROVE  /\ Loadable(S) \in Table
         /\ \A c \in Cert : Loadable(S)[c] # None => c \in IdSet(S)
<1>1. ASSUME NEW c \in IdSet(S)
      PROVE  (CHOOSE e \in S : e.id = c) \in S
  BY <1>1 DEF IdSet
<1>2. ASSUME NEW c \in Cert
      PROVE  /\ Loadable(S)[c] \in Pair \cup {None}
             /\ Loadable(S)[c] # None => c \in IdSet(S)
  <2> DEFINE t == (CHOOSE e \in S : e.id = c).terms
  <2>1. Loadable(S)[c] = IF c \in IdSet(S) /\ Fits(disk[c]) THEN Served(t, disk[c].crt) ELSE None
    BY <1>2 DEF Loadable
  <2>2. disk[c].crt \in MaybeIssue
    BY DEF TablesOK, File, MaybeIssue
  <2>3. c \in IdSet(S) => t \in Chosen
    BY <1>1 DEF Entry, Chosen
  <2> HIDE DEF t
  <2> QED
    BY <2>1, <2>2, <2>3 DEF Pair
<1>3. Loadable(S) = [c \in Cert |-> Loadable(S)[c]]
  BY DEF Loadable
<1> QED
  BY <1>2, <1>3 DEF Table

LEMMA ReloadStep ==
  ASSUME TypeInv, NEW w \in Worker, Reload(w), UNCHANGED installation
  PROVE  TypeInv' /\ (SafeInv => WorkerEffect(w))
<1> DEFINE T == Loadable(Elements(certs))
           x == [pc |-> "swap", on |-> Cert, table |-> T]
<1>1. /\ ~At(w, "unload") /\ Goto(w, x) /\ Mark({})
      /\ UNCHANGED <<configVars, disk, tableVars, outsideVars, caVars, issuer>>
  BY DEF Reload, At
<1>2. T \in Table /\ \A c \in Cert : T[c] # None => c \in IdsOf(certs)
  BY ElementIn, LoadableIn DEF TypeInv, IdsOf
<1> HIDE DEF T
<1>3. x \in SwapState /\ x.pc = "swap" /\ x.table = T
  BY <1>2 DEF SwapState
<1> HIDE DEF x
<1>4. x \in WorkerState /\ ~Holds(x) /\ worker'[w] = x
  BY <1>1, <1>3, GotoMoves DEF WorkerState, Holds, Moves, TypeInv
<1>5. WorkerHolds(w)'
  BY <1>1, <1>2, <1>3, <1>4 DEF WorkerHolds, At, Configured, configVars
<1> QED
  BY <1>1, <1>4, <1>5, LocalStep

LEMMA SwapStep ==
  ASSUME TypeInv, NEW w \in Worker, SwapLoaded(w), UNCHANGED installation
  PROVE  TypeInv' /\ (SafeInv => WorkerEffect(w))
<1>1. /\ worker[w].pc = "swap" /\ ~At(w, "unload") /\ loaded' = worker[w].table
      /\ Goto(w, Idle) /\ Mark({})
      /\ UNCHANGED <<configVars, disk, progress, records, outsideVars, caVars, issuer>>
  BY DEF SwapLoaded, At
<1>2. worker[w].on = Cert /\ worker[w].table \in Table
  BY <1>1, WorkerShapes DEF TypeInv, WorkersOK, SwapState
<1>3. worker'[w].pc \in Uncommitted
  BY <1>1, GotoMoves, IdleIn DEF Moves, TypeInv
<1>4. ASSUME SafeInv, NEW c \in Cert, Clean(c)', loaded'[c] # None
      PROVE  Configured(c)
  BY <1>1, <1>4 DEF SafeInv, WorkerHolds, At, Clean, Raced, Mark
<1> QED
  BY <1>1, <1>2, <1>3, <1>4, IdleIn, TableStep

-----------------------------------------------------------------------------
(* Renewal *)

LEMMA BackIn ==
  ASSUME NEW x \in IdleState \cup RenewDueState \cup DropState \cup SyncState
  PROVE  /\ x \in WorkerState /\ ~Holds(x) /\ x.pc \in Uncommitted /\ x.on \in SUBSET Cert
  BY DEF IdleState, RenewDueState, DropState, SyncState, WorkerState, Holds, Uncommitted

LEMMA BeginRenewalStep ==
  ASSUME TypeInv, NEW w \in Worker, NEW c \in IdsOf(certs),
         NEW back \in IdleState \cup RenewDueState, BeginRenewal(w, c, back), Mark({}),
         ~At(w, "unload"),
         UNCHANGED <<installation, disk, tableVars, outsideVars, caVars, issuer>>
  PROVE  TypeInv' /\ (SafeInv => WorkerEffect(w))
<1> DEFINE i == IndexOf(certs, c)
           e == [Element(certs, c) EXCEPT !.status = "renew"]
           x == [pc |-> "renew", on |-> {c} \cup back.on, ref |-> PointerTo(i), entry |-> e,
                 back |-> back]
<1>1. certs' = SetElement(certs, i, e) /\ Goto(w, x) /\ UNCHANGED saved
      /\ raced' = raced \cup Contended /\ hurt' = hurt
  BY DEF BeginRenewal, Element, Mark
<1>2. /\ ListsKept /\ IdsOf(certs') = IdsOf(certs) /\ i \in Nat \ {0} /\ i <= Len(certs'.cells)
      /\ e \in Entry
  BY <1>1, RestatedList DEF TypeInv
<1>3. c \in Cert /\ back.on \in SUBSET Cert
  BY BackIn, ElementIn DEF TypeInv
<1> HIDE DEF i, e
<1>4. PointerTo(i) \in IndexPointer /\ PointerTo(i).at = i
  BY <1>2 DEF PointerTo, IndexPointer
<1>5. x \in RenewState /\ x.pc = "renew" /\ x.ref = PointerTo(i)
  BY <1>2, <1>3, <1>4 DEF RenewState, Pointer
<1> HIDE DEF x
<1>6. x \in WorkerState /\ x.pc \in Uncommitted
  BY <1>5 DEF WorkerState, Uncommitted
<1>7. Moves(w, x)
  BY <1>1, GotoMoves DEF TypeInv
<1>8. WorkerHolds(w)'
  BY <1>6, <1>7, UncommittedHolds DEF Moves
<1> QED
  BY <1>1, <1>2, <1>4, <1>5, <1>6, <1>7, <1>8, ListStep

LEMMA RenewStep ==
  ASSUME TypeInv, NEW w \in Worker, RenewCertificate(w), UNCHANGED installation
  PROVE  TypeInv' /\ (SafeInv => WorkerEffect(w))
<1>1. PICK c \in IdsOf(certs) : BeginRenewal(w, c, Idle)
  BY DEF RenewCertificate
<1>2. Begins(w) /\ Mark({}) /\ UNCHANGED <<disk, tableVars, outsideVars, caVars, issuer>>
  BY DEF RenewCertificate, Arrives
<1> QED
  BY <1>1, <1>2, IdleWorker, IdleIsIdle, BeginRenewalStep

(* What is known of a goroutine that renews. *)
LEMMA RenewingOn ==
  ASSUME TypeInv, NEW w \in Worker, worker[w].pc \in {"renew", "issue", "refused"}
  PROVE  /\ worker[w] \in RenewState /\ worker[w].entry \in Entry
         /\ worker[w].ref \in Pointer /\ Leads(worker[w].ref)
         /\ Deref(certs, worker[w].ref) \in Entry
         /\ worker[w].back \in IdleState \cup RenewDueState
         /\ ~At(w, "unload")
<1>1. worker[w] \in RenewState /\ Leads(worker[w].ref)
  BY WorkerShapes DEF TypeInv, WorkersOK, Holds
<1>2. worker[w].entry \in Entry /\ worker[w].ref \in Pointer
      /\ worker[w].back \in IdleState \cup RenewDueState
  BY <1>1 DEF RenewState
<1> QED
  BY <1>1, <1>2, DerefIn DEF TypeInv, At

LEMMA StoreRenewingStep ==
  ASSUME TypeInv, NEW w \in Worker, StoreRenewing(w), UNCHANGED installation
  PROVE  TypeInv' /\ (SafeInv => WorkerEffect(w))
<1> DEFINE x == [worker[w] EXCEPT !.pc = "issue"]
           e == worker[w].entry
<1>1. worker[w].pc = "renew" /\ UNCHANGED <<disk, tableVars, outsideVars, caVars, issuer>>
  BY DEF StoreRenewing, At
<1>2. e \in Entry /\ ~At(w, "unload") /\ Leads(worker[w].ref) /\ worker[w] \in RenewState
  BY <1>1, RenewingOn
<1>3. x \in RenewState /\ x.pc = "issue" /\ x.ref = worker[w].ref
  BY <1>2 DEF RenewState
<1>4. Updated(e) /\ raced' = raced \cup Contended /\ hurt \subseteq hurt' /\ Goto(w, x)
  BY DEF StoreRenewing, UpdateEntry, Saves, Mark, Updated, Stored
<1> HIDE DEF x, e
<1>5. x \in WorkerState /\ x.pc \in Uncommitted
  BY <1>3 DEF WorkerState, Uncommitted
<1>6. WorkerHolds(w)'
  BY <1>4, <1>5, GotoMoves, UncommittedHolds DEF Moves, TypeInv
<1> QED
  BY <1>1, <1>2, <1>3, <1>4, <1>5, <1>6, ChangeStep

LEMMA IssueRenewalStep ==
  ASSUME TypeInv, NEW w \in Worker, IssueRenewal(w), UNCHANGED installation
  PROVE  TypeInv' /\ (SafeInv => WorkerEffect(w))
<1> DEFINE d == Deref(certs, worker[w].ref)
           e == [d EXCEPT !.source = "acme"]
           x == worker[w].back
<1>1. /\ worker[w].pc = "issue" /\ IssueACMECertificate(w, e, x) /\ Mark({})
      /\ UNCHANGED <<configVars, disk, loaded, outsideVars, caVars>>
  BY DEF IssueRenewal, At
<1>2. d \in Entry /\ x \in IdleState \cup RenewDueState /\ ~At(w, "unload")
  BY <1>1, RenewingOn
<1> HIDE DEF d
<1>3. e \in Entry
  BY <1>2 DEF Entry
<1>4. x \in WorkerState /\ ~Holds(x) /\ x.pc \in Uncommitted
  BY <1>2, BackIn
<1>5. OutsideOK'
  BY <1>1, OutsideStays DEF TypeInv
<1> HIDE DEF e, x
<1> QED
  BY <1>1, <1>2, <1>3, <1>4, <1>5, IssueStep DEF outsideVars

LEMMA RefuseRenewalStep ==
  ASSUME TypeInv, NEW w \in Worker, RefuseRenewal(w), UNCHANGED installation
  PROVE  TypeInv' /\ (SafeInv => WorkerEffect(w))
<1> DEFINE d == Deref(certs, worker[w].ref)
           e == [d EXCEPT !.status = "error"]
           x == [worker[w] EXCEPT !.pc = "refused", !.entry = e]
<1>1. /\ worker[w].pc = "issue" /\ Goto(w, x) /\ Mark({})
      /\ UNCHANGED <<configVars, disk, tableVars, outsideVars, caVars, issuer>>
  BY DEF RefuseRenewal, At
<1>2. d \in Entry /\ worker[w] \in RenewState /\ ~At(w, "unload") /\ Leads(worker[w].ref)
  BY <1>1, RenewingOn
<1> HIDE DEF d
<1>3. e \in Entry
  BY <1>2 DEF Entry
<1> HIDE DEF e
<1>4. x \in RenewState /\ x.pc = "refused" /\ x.ref = worker[w].ref
  BY <1>2, <1>3 DEF RenewState
<1> HIDE DEF x
<1>5. x \in WorkerState /\ x.pc \in Uncommitted
  BY <1>4 DEF WorkerState, Uncommitted
<1>6. WorkerHolds(w)'
  BY <1>1, <1>5, GotoMoves, UncommittedHolds DEF Moves, TypeInv
<1> QED
  BY <1>1, <1>2, <1>4, <1>5, <1>6, LocalStep

LEMMA StoreRefusedStep ==
  ASSUME TypeInv, NEW w \in Worker, StoreRefused(w), UNCHANGED installation
  PROVE  TypeInv' /\ (SafeInv => WorkerEffect(w))
<1> DEFINE x == worker[w].back
           e == worker[w].entry
<1>1. worker[w].pc = "refused" /\ UNCHANGED <<disk, tableVars, outsideVars, caVars, issuer>>
  BY DEF StoreRefused, At
<1>2. e \in Entry /\ ~At(w, "unload") /\ x \in IdleState \cup RenewDueState
  BY <1>1, RenewingOn
<1>3. Updated(e) /\ raced' = raced \cup Contended /\ hurt \subseteq hurt' /\ Goto(w, x)
  BY DEF StoreRefused, UpdateEntry, Saves, Mark, Updated, Stored
<1>4. x \in WorkerState /\ ~Holds(x) /\ x.pc \in Uncommitted
  BY <1>2, BackIn
<1> HIDE DEF x, e
<1>5. WorkerHolds(w)'
  BY <1>3, <1>4, GotoMoves, UncommittedHolds DEF Moves, TypeInv
<1> QED
  BY <1>1, <1>2, <1>3, <1>4, <1>5, ChangeStep

-----------------------------------------------------------------------------
(* Deletion *)

LEMMA BeginDeletionStep ==
  ASSUME TypeInv, NEW w \in Worker, DeleteCertificate(w), UNCHANGED installation
  PROVE  TypeInv' /\ (SafeInv => WorkerEffect(w))
<1>1. PICK c \in IdsOf(certs) :
        Goto(w, [pc |-> "check", on |-> {c}, id |-> c, ref |-> PointerTo(IndexOf(certs, c)),
                 kept |-> Element(certs, c).source = "file_sync"])
  BY DEF DeleteCertificate
<1>2. Begins(w) /\ Mark({})
      /\ UNCHANGED <<configVars, disk, tableVars, outsideVars, caVars, issuer>>
  BY DEF DeleteCertificate, Arrives
<1> DEFINE p == PointerTo(IndexOf(certs, c))
           k == Element(certs, c).source = "file_sync"
           x == [pc |-> "check", on |-> {c}, id |-> c, ref |-> p, kept |-> k]
<1>3. p \in IndexPointer /\ Leads(p) /\ c \in Cert
  BY ElementIn DEF TypeInv
<1>4. Goto(w, x)
  BY <1>1
<1>5. k \in BOOLEAN
  OBVIOUS
<1> HIDE DEF p, k
<1>6. x \in CheckState /\ x.pc = "check" /\ x.ref = p
  BY <1>3, <1>5 DEF CheckState, Pointer
<1> HIDE DEF x
<1>7. x \in WorkerState /\ x.pc \in Uncommitted
  BY <1>6 DEF WorkerState, Uncommitted
<1>8. WorkerHolds(w)'
  BY <1>4, <1>7, GotoMoves, UncommittedHolds DEF Moves, TypeInv
<1> QED
  BY <1>2, <1>3, <1>4, <1>6, <1>7, <1>8, IdleWorker, LocalStep

LEMMA RemoveFilesStep ==
  ASSUME TypeInv, NEW w \in Worker, RemoveFiles(w), UNCHANGED installation
  PROVE  TypeInv' /\ (SafeInv => WorkerEffect(w))
<1> DEFINE c == worker[w].id
           f == Deref(certs, worker[w].ref).id
           x == [pc |-> "delete", on |-> {c}, id |-> c]
<1>1. /\ worker[w].pc = "check" /\ ~At(w, "unload") /\ Mark({})
      /\ UNCHANGED <<configVars, tableVars, outsideVars, caVars, issuer>>
  BY DEF RemoveFiles, At
<1>2. \/ Goto(w, Idle) /\ UNCHANGED disk
      \/ /\ c \notin bound /\ Goto(w, x)
         /\ disk' = IF worker[w].kept THEN disk
                    ELSE [disk EXCEPT ![f] = [crt |-> None, key |-> None]]
  BY DEF RemoveFiles
<1>3. worker[w] \in CheckState /\ Leads(worker[w].ref)
  BY <1>1, WorkerShapes DEF TypeInv, WorkersOK, Holds
<1>4. c \in Cert /\ worker[w].ref \in Pointer
  BY <1>3 DEF CheckState
<1>5. f \in Cert
  BY <1>3, <1>4, DerefIn DEF TypeInv, Entry
<1>6. TablesOK'
  <2>1. [crt |-> None, key |-> None] \in File
    BY DEF File
  <2> HIDE DEF f
  <2> QED
    BY <1>1, <1>2, <1>5, <2>1 DEF TypeInv, TablesOK, tableVars
<1>7. OutsideOK' /\ IssuersOK' /\ \A i \in Issuer : issuer'[i] = issuer[i]
  BY <1>1, OutsideStays, IssuersStay DEF TypeInv
<1>8. CASE Goto(w, Idle)
  <2>1. WorkerHolds(w)'
    BY <1>8, GotoMoves, IdleIn, UncommittedHolds DEF Moves, TypeInv
  <2> QED
    BY <1>1, <1>6, <1>7, <1>8, <2>1, IdleIn, QuietStep DEF tableVars, outsideVars, Mark
<1>9. CASE c \notin bound /\ Goto(w, x)
  <2>1. x \in DeleteState /\ x.pc = "delete" /\ x.id = c
    BY <1>4 DEF DeleteState
  <2>2. worker'[w] = x
    BY <1>9, GotoMoves DEF Moves, TypeInv
  <2> HIDE DEF x, c
  <2>3. x \in WorkerState /\ ~Holds(x)
    BY <2>1 DEF WorkerState, Holds
  <2>4. WorkerHolds(w)'
    BY <1>1, <1>9, <2>1, <2>2 DEF WorkerHolds, At, outsideVars
  <2> QED
    BY <1>1, <1>6, <1>7, <1>9, <2>3, <2>4, QuietStep DEF tableVars, outsideVars, Mark
<1> QED
  BY <1>2, <1>8, <1>9

(* Who is about to delete a certificate has seen it unbound. *)
LEMMA DeletingOn ==
  ASSUME NEW w \in Worker, SafeInv, worker[w].pc \in {"delete", "dropEntry"},
         raced' = raced \cup Contended, hurt \subseteq hurt', NEW c, c = worker[w].id, Clean(c)'
  PROVE  c \notin bound
<1>1. Clean(c)
  BY DEF Clean, Raced
<1> QED
  BY <1>1 DEF SafeInv, WorkerHolds

LEMMA DeleteConfiguredStep ==
  ASSUME TypeInv, NEW w \in Worker, DeleteConfigured(w), UNCHANGED installation
  PROVE  TypeInv' /\ (SafeInv => WorkerEffect(w))
<1>1. PICK c : c = worker[w].id
  OBVIOUS
<1> DEFINE x == [pc |-> "unload", on |-> worker[w].on, id |-> c, back |-> Idle]
<1>2. worker[w].pc = "delete" /\ ~At(w, "unload")
      /\ UNCHANGED <<disk, tableVars, outsideVars, caVars, issuer>>
  BY DEF DeleteConfigured, At
<1>3. worker[w] \in DeleteState
  BY <1>2, WorkerShapes DEF TypeInv, WorkersOK
<1>4. c \in Cert /\ c \in worker[w].on /\ worker[w].on \in SUBSET Cert
  BY <1>1, <1>3 DEF DeleteState
<1>5. /\ Deleted(c) /\ raced' = raced \cup Contended /\ hurt \subseteq hurt'
      /\ Goto(w, x) \/ (Goto(w, Idle) /\ c \in hurt')
  BY <1>1 DEF DeleteConfigured, DeleteEntry, Saves, Mark, Deleted, Stored
<1>6. x \in DeletedState /\ x.pc = "unload" /\ x.id = c
  BY <1>4, IdleIsIdle DEF DeletedState
<1> HIDE DEF x
<1>7. x \in WorkerState /\ ~Holds(x) /\ x.pc \in Uncommitted
  BY <1>6 DEF WorkerState, Holds, Uncommitted
<1>8. SafeInv /\ Clean(c)' => c \notin bound
  BY <1>1, <1>2, <1>5, DeletingOn
<1>9. CASE Goto(w, x)
  <2>1. worker'[w] = x
    BY <1>9, GotoMoves DEF Moves, TypeInv
  <2>2. At(w, "unload")' /\ worker'[w].id = c /\ worker'[w].pc \in Uncommitted
    BY <1>6, <1>7, <2>1 DEF At
  <2> QED
    BY <1>2, <1>4, <1>5, <1>7, <1>8, <1>9, <2>2, DeleteStep
<1>10. CASE Goto(w, Idle) /\ c \in hurt'
  <2>1. worker'[w].pc \in Uncommitted
    BY <1>10, GotoMoves, IdleIn DEF Moves, TypeInv
  <2> QED
    BY <1>2, <1>4, <1>5, <1>8, <1>10, <2>1, IdleIn, DeleteStep
<1> QED
  BY <1>5, <1>9, <1>10

LEMMA DropEntryStep ==
  ASSUME TypeInv, NEW w \in Worker, DropEntry(w), UNCHANGED installation
  PROVE  TypeInv' /\ (SafeInv => WorkerEffect(w))
<1>1. PICK c : c = worker[w].id
  OBVIOUS
<1> DEFINE x == [worker[w] EXCEPT !.pc = "unload"]
<1>2. worker[w].pc = "dropEntry" /\ ~At(w, "unload")
      /\ UNCHANGED <<disk, tableVars, outsideVars, caVars, issuer>>
  BY DEF DropEntry, At
<1>3. worker[w] \in DeletedState
  BY <1>2, WorkerShapes DEF TypeInv, WorkersOK
<1>4. c \in Cert /\ c \in worker[w].on
  BY <1>1, <1>3 DEF DeletedState
<1>5. Deleted(c) /\ raced' = raced \cup Contended /\ hurt \subseteq hurt' /\ Goto(w, x)
  BY <1>1 DEF DropEntry, DeleteEntry, Saves, Mark, Deleted, Stored
<1>6. x \in DeletedState /\ x.pc = "unload" /\ x.id = c
  BY <1>1, <1>3 DEF DeletedState
<1> HIDE DEF x
<1>7. x \in WorkerState /\ ~Holds(x) /\ x.pc \in Uncommitted
  BY <1>6 DEF WorkerState, Holds, Uncommitted
<1>8. SafeInv /\ Clean(c)' => c \notin bound
  BY <1>1, <1>2, <1>5, DeletingOn
<1>9. worker'[w] = x
  BY <1>5, GotoMoves DEF Moves, TypeInv
<1>10. At(w, "unload")' /\ worker'[w].id = c /\ worker'[w].pc \in Uncommitted
  BY <1>6, <1>7, <1>9 DEF At
<1> QED
  BY <1>2, <1>4, <1>5, <1>7, <1>8, <1>10, DeleteStep

LEMMA UnloadStep ==
  ASSUME TypeInv, NEW w \in Worker, Unload(w), UNCHANGED installation
  PROVE  TypeInv' /\ (SafeInv => WorkerEffect(w))
<1> DEFINE c == worker[w].id
           x == worker[w].back
<1>1. /\ worker[w].pc = "unload" /\ loaded' = [loaded EXCEPT ![c] = None]
      /\ Goto(w, x) /\ Mark({})
      /\ UNCHANGED <<configVars, disk, progress, records, outsideVars, caVars, issuer>>
  BY DEF Unload, At
<1>2. worker[w] \in DeletedState
  BY <1>1, WorkerShapes DEF TypeInv, WorkersOK
<1>3. c \in Cert /\ c \in worker[w].on /\ x \in IdleState \cup DropState
  BY <1>2 DEF DeletedState
<1>4. x \in WorkerState /\ ~Holds(x) /\ x.pc \in Uncommitted
  BY <1>3, BackIn
<1>5. loaded' \in Table /\ loaded'[c] = None /\ \A d \in Cert : d # c => loaded'[d] = loaded[d]
  BY <1>1, <1>3 DEF TypeInv, TablesOK, Table
<1>6. worker'[w].pc \in Uncommitted
  BY <1>1, <1>4, GotoMoves DEF Moves, TypeInv
<1>7. \A d \in Cert : loaded'[d] # None => loaded[d] # None
  BY <1>5
<1> HIDE DEF x
<1> QED
  BY <1>1, <1>3, <1>4, <1>5, <1>6, <1>7, TableStep

-----------------------------------------------------------------------------
(* Maintenance *)

(* The worker goes on at one of the places it comes back to. *)
LEMMA ComeBackStep ==
  ASSUME TypeInv, NEW w \in Worker,
         NEW x \in IdleState \cup RenewDueState \cup DropState \cup SyncState,
         Goto(w, x), Mark({}), ~At(w, "unload"),
         UNCHANGED <<installation, configVars, disk, tableVars, outsideVars, caVars, issuer>>
  PROVE  TypeInv' /\ (SafeInv => WorkerEffect(w))
<1>1. x \in WorkerState /\ ~Holds(x) /\ x.pc \in Uncommitted
  BY BackIn
<1>2. WorkerHolds(w)'
  BY <1>1, GotoMoves, UncommittedHolds DEF Moves, TypeInv
<1> QED
  BY <1>1, <1>2, LocalStep

LEMMA SyncInCert == SyncCert \subseteq Cert /\ SyncTerms \in Chosen
<1>1. SyncCert \subseteq Cert /\ Terms # {}
  BY CertificateAssumption
<1> QED
  BY <1>1 DEF SyncTerms, Chosen

LEMMA BeginMaintenanceStep ==
  ASSUME TypeInv, NEW w \in Worker, BeginMaintenance(w), UNCHANGED installation
  PROVE  TypeInv' /\ (SafeInv => WorkerEffect(w))
<1> DEFINE d == [pc |-> "drop", on |-> {}]
           s == [pc |-> "sync", on |-> external, wanted |-> external]
<1>1. /\ Begins(w) /\ Mark({})
      /\ UNCHANGED <<configVars, disk, tableVars, outsideVars, caVars, issuer>>
  BY DEF BeginMaintenance
<1>2. CASE external = Unreadable
  <2>1. Goto(w, d) /\ d \in DropState
    BY <1>2 DEF BeginMaintenance, DropState
  <2> HIDE DEF d
  <2> QED
    BY <1>1, <2>1, IdleWorker, ComeBackStep
<1>3. CASE external # Unreadable
  <2>1. external \in SUBSET Cert
    BY <1>3, SyncInCert DEF TypeInv, OutsideOK
  <2>2. Goto(w, s) /\ s \in SyncState
    BY <1>3, <2>1 DEF BeginMaintenance, SyncState
  <2> HIDE DEF s
  <2> QED
    BY <1>1, <2>2, IdleWorker, ComeBackStep
<1> QED
  BY <1>2, <1>3

LEMMA NoneIsNoPointer == None \notin IndexPointer
<1>1. None \notin [kept : {FALSE}, at : Nat] \cup [kept : {TRUE}, element : Entry]
  BY CertificateAssumption
<1> QED
  BY <1>1 DEF IndexPointer

LEMMA SyncFileStep ==
  ASSUME TypeInv, NEW w \in Worker, SyncFile(w), UNCHANGED installation
  PROVE  TypeInv' /\ (SafeInv => WorkerEffect(w))
<1>1. PICK c \in worker[w].on :
       LET rest == [worker[w] EXCEPT !.on = @ \ {c}] IN
       Goto(w, IF ~NeedsReload(c) THEN rest
               ELSE [pc |-> "synced", on |-> worker[w].on, id |-> c, back |-> rest,
                     ref |-> IF Configured(c) THEN PointerTo(IndexOf(certs, c)) ELSE None,
                     serves |-> IF Fits(disk[c]) THEN disk[c].crt ELSE None])
  BY DEF SyncFile
<1> DEFINE rest == [worker[w] EXCEPT !.on = @ \ {c}]
           p == IF Configured(c) THEN PointerTo(IndexOf(certs, c)) ELSE None
           s == IF Fits(disk[c]) THEN disk[c].crt ELSE None
           x == [pc |-> "synced", on |-> worker[w].on, id |-> c, back |-> rest, ref |-> p,
                 serves |-> s]
<1>2. /\ worker[w].pc = "sync" /\ ~At(w, "unload") /\ Mark({})
      /\ UNCHANGED <<configVars, disk, tableVars, outsideVars, caVars, issuer>>
  BY DEF SyncFile, At
<1>3. worker[w] \in SyncState
  BY <1>2, WorkerShapes DEF TypeInv, WorkersOK
<1>4. c \in Cert /\ worker[w].on \in SUBSET Cert /\ rest \in SyncState
  BY <1>3 DEF SyncState
<1>5. Goto(w, rest) \/ Goto(w, x)
  BY <1>1
<1>6. s \in MaybeIssue
  BY <1>4, FileIn DEF TypeInv
<1>7. p \in Pointer \cup {None} /\ Leads(p) /\ (p # None => Configured(c))
  <2>1. CASE Configured(c)
    <3>1. p \in IndexPointer /\ Leads(p)
      BY <2>1, ElementIn DEF TypeInv, Configured
    <3> QED
      BY <2>1, <3>1 DEF Pointer
  <2>2. CASE ~Configured(c)
    BY <2>2, NoneIsNoPointer DEF Leads
  <2> QED
    BY <2>1, <2>2
<1> HIDE DEF rest, p, s
<1>8. CASE Goto(w, rest)
  BY <1>2, <1>4, <1>8, ComeBackStep
<1>9. CASE Goto(w, x)
  <2>1. x \in SyncedState /\ x.pc = "synced" /\ x.ref = p /\ x.id = c
    BY <1>4, <1>6, <1>7 DEF SyncedState
  <2>2. worker'[w] = x
    BY <1>9, GotoMoves DEF Moves, TypeInv
  <2> HIDE DEF x
  <2>3. x \in WorkerState
    BY <2>1 DEF WorkerState
  <2>4. WorkerHolds(w)'
    BY <1>2, <1>7, <2>1, <2>2 DEF WorkerHolds, At, Configured, configVars
  <2> QED
    BY <1>2, <1>7, <1>9, <2>1, <2>3, <2>4, LocalStep
<1> QED
  BY <1>5, <1>8, <1>9

(* What is known of a goroutine that has read the files of a certificate. *)
LEMMA SyncedOn ==
  ASSUME TypeInv, NEW w \in Worker, worker[w].pc \in {"synced", "loadSynced"}
  PROVE  /\ worker[w] \in SyncedState /\ ~At(w, "unload")
         /\ worker[w].id \in Cert /\ worker[w].id \in worker[w].on
         /\ worker[w].serves \in MaybeIssue /\ worker[w].back \in SyncState
         /\ Leads(worker[w].ref)
         /\ SyncedEntry(worker[w]) \in Entry
         /\ worker[w].serves # None \/ worker[w].ref = None =>
              SyncedEntry(worker[w]).id = worker[w].id
<1> DEFINE a == worker[w]
<1>1. a \in SyncedState /\ Leads(a.ref)
  BY WorkerShapes DEF TypeInv, WorkersOK, Holds
<1>2. /\ a.id \in Cert /\ a.id \in a.on /\ a.serves \in MaybeIssue /\ a.back \in SyncState
      /\ a.ref \in Pointer \cup {None}
  BY <1>1 DEF SyncedState
<1> DEFINE n == NewEntry(a.id, "file_sync", SyncTerms, FALSE)
           d == Deref(certs, a.ref)
<1>3. n \in Entry /\ n.id = a.id
  BY <1>2, SyncInCert, NewEntryIn
<1>4. a.ref # None => d \in Entry
  BY <1>1, <1>2, DerefIn DEF TypeInv
<1>5. SyncedEntry(a) = IF a.serves # None THEN [n EXCEPT !.expires = a.serves]
                       ELSE IF a.ref = None THEN [n EXCEPT !.status = "error"]
                       ELSE [d EXCEPT !.status = "error"]
  BY DEF SyncedEntry
<1> HIDE DEF n, d
<1>6. [n EXCEPT !.status = "error"] \in Entry /\ [n EXCEPT !.status = "error"].id = a.id
  BY <1>3 DEF Entry
<1>7. [n EXCEPT !.expires = a.serves] \in Entry /\ [n EXCEPT !.expires = a.serves].id = a.id
  BY <1>2, <1>3 DEF Entry, MaybeIssue
<1>8. a.ref # None => [d EXCEPT !.status = "error"] \in Entry
  BY <1>4 DEF Entry
<1> QED
  BY <1>1, <1>2, <1>5, <1>6, <1>7, <1>8 DEF At

LEMMA StoreSyncedStep ==
  ASSUME TypeInv, NEW w \in Worker, StoreSynced(w), UNCHANGED installation
  PROVE  TypeInv' /\ (SafeInv => WorkerEffect(w))
<1> DEFINE a == worker[w]
           e == SyncedEntry(a)
           on == [a EXCEPT !.pc = "loadSynced"]
<1>1. worker[w].pc = "synced" /\ UNCHANGED <<disk, tableVars, outsideVars, caVars, issuer>>
  BY DEF StoreSynced, At
<1>2. /\ a \in SyncedState /\ ~At(w, "unload") /\ a.id \in Cert /\ a.back \in SyncState
      /\ Leads(a.ref) /\ e \in Entry /\ (a.serves # None \/ a.ref = None => e.id = a.id)
  BY <1>1, SyncedOn
<1>3. on \in SyncedState /\ on.pc = "loadSynced" /\ on.ref = a.ref /\ on.id = a.id
  BY <1>2 DEF SyncedState
<1>4. on \in WorkerState /\ a.back \in WorkerState /\ ~Holds(a.back)
      /\ a.back.pc \in Uncommitted
  BY <1>2, <1>3, BackIn DEF WorkerState
<1>5. /\ raced' = raced \cup Contended /\ hurt \subseteq hurt'
      /\ \/ /\ a.ref = None /\ Added(e)
            /\ \E ws \in AfterAppend : \/ worker' = [ws EXCEPT ![w] = on] /\ a.serves # None
                                       \/ worker' = [ws EXCEPT ![w] = a.back]
         \/ /\ a.ref # None /\ Updated(e)
            /\ (Goto(w, on) /\ a.serves # None) \/ Goto(w, a.back)
  <2>1. CASE a.ref = None
    BY <2>1 DEF StoreSynced, AddEntry, Saves, Mark, Added, Stored
  <2>2. CASE a.ref # None
    BY <2>2 DEF StoreSynced, UpdateEntry, Saves, Mark, Updated, Stored
  <2> QED
    BY <2>1, <2>2
<1>6. PICK id : id = a.id
  OBVIOUS
<1> HIDE DEF on, e
<1>7. /\ ListsKept /\ IdsOf(certs) \subseteq IdsOf(certs')
      /\ a.ref = None => id \in IdsOf(certs')
  BY <1>2, <1>5, <1>6, AddedList, UpdatedList DEF TypeInv
<1>8. (Moves(w, on) /\ a.serves # None) \/ Moves(w, a.back)
  BY <1>5, AppendMoves, GotoMoves DEF TypeInv
<1>9. CASE Moves(w, a.back)
  <2>1. WorkerHolds(w)'
    BY <1>4, <1>9, UncommittedHolds DEF Moves
  <2> QED
    BY <1>1, <1>2, <1>4, <1>5, <1>7, <1>9, <2>1, ListStep
<1>10. CASE Moves(w, on) /\ a.serves # None
  <2>1. worker'[w].pc = "loadSynced" /\ worker'[w].id = id
    BY <1>3, <1>6, <1>10 DEF Moves
  <2>2. ASSUME SafeInv, id \notin Raced' \cup hurt'
        PROVE  id \in IdsOf(certs')
    <3>1. Clean(a.id)
      BY <1>5, <1>6, <2>2 DEF Clean, Raced
    <3>2. a.ref # None => Configured(a.id)
      BY <1>1, <2>2, <3>1 DEF SafeInv, WorkerHolds
    <3> QED
      BY <1>6, <1>7, <3>2 DEF Configured
  <2>3. SafeInv => WorkerHolds(w)'
    BY <2>1, <2>2 DEF WorkerHolds, At, Clean, Configured
  <2> QED
    BY <1>1, <1>2, <1>3, <1>4, <1>5, <1>7, <1>10, <2>3, ListStep
<1> QED
  BY <1>8, <1>9, <1>10

LEMMA LoadSyncedStep ==
  ASSUME TypeInv, NEW w \in Worker, LoadSynced(w), UNCHANGED installation
  PROVE  TypeInv' /\ (SafeInv => WorkerEffect(w))
<1> DEFINE c == worker[w].id
           p == Served(SyncTerms, worker[w].serves)
           x == worker[w].back
<1>1. /\ worker[w].pc = "loadSynced" /\ loaded' = [loaded EXCEPT ![c] = p]
      /\ Goto(w, x) /\ Mark({})
      /\ UNCHANGED <<configVars, disk, progress, records, outsideVars, caVars, issuer>>
  BY DEF LoadSynced, At
<1>2. /\ c \in Cert /\ c \in worker[w].on /\ worker[w].serves \in MaybeIssue
      /\ x \in SyncState /\ ~At(w, "unload")
  BY <1>1, SyncedOn
<1>3. x \in WorkerState /\ ~Holds(x) /\ x.pc \in Uncommitted
  BY <1>2, BackIn
<1>4. p \in Pair
  BY <1>2, SyncInCert DEF Pair
<1> HIDE DEF p, x
<1>5. loaded' \in Table /\ \A d \in Cert : d # c => loaded'[d] = loaded[d]
  BY <1>1, <1>2, <1>4 DEF TypeInv, TablesOK, Table
<1>6. worker'[w].pc \in Uncommitted
  BY <1>1, <1>3, GotoMoves DEF Moves, TypeInv
<1>7. ASSUME SafeInv, NEW d \in Cert, Clean(d)', loaded'[d] # None
      PROVE  loaded[d] # None \/ Configured(d)
  <2>1. CASE d # c
    BY <1>5, <1>7, <2>1
  <2>2. CASE d = c
    BY <1>1, <1>7, <2>2 DEF SafeInv, WorkerHolds, At, Clean, Raced, Mark
  <2> QED
    BY <2>1, <2>2
<1> QED
  BY <1>1, <1>2, <1>3, <1>5, <1>6, <1>7, TableStep

LEMMA IdSetIn == ASSUME NEW S \in SUBSET Entry PROVE IdSet(S) \in SUBSET Cert
  BY DEF IdSet, Entry

LEMMA ListRemovedStep ==
  ASSUME TypeInv, NEW w \in Worker, ListRemoved(w), UNCHANGED installation
  PROVE  TypeInv' /\ (SafeInv => WorkerEffect(w))
<1> DEFINE S == {e \in Elements(certs) : e.source = "file_sync"}
           x == [pc |-> "drop", on |-> IdSet(S) \ worker[w].wanted]
<1>1. /\ ~At(w, "unload") /\ Goto(w, x) /\ Mark({})
      /\ UNCHANGED <<configVars, disk, tableVars, outsideVars, caVars, issuer>>
  BY DEF ListRemoved, At
<1>2. IdSet(S) \in SUBSET Cert
  BY ElementIn, IdSetIn DEF TypeInv
<1>3. x \in DropState
  BY <1>2 DEF DropState
<1> HIDE DEF x
<1> QED
  BY <1>1, <1>3, ComeBackStep

LEMMA ClearBindingStep ==
  ASSUME TypeInv, NEW w \in Worker, ClearBinding(w), UNCHANGED installation
  PROVE  TypeInv' /\ (SafeInv => WorkerEffect(w))
<1>1. PICK c \in worker[w].on :
        /\ bound' = bound \ {c}
        /\ Goto(w, [pc |-> "dropEntry", on |-> worker[w].on, id |-> c,
                    back |-> [pc |-> "drop", on |-> worker[w].on \ {c}]])
  BY DEF ClearBinding
<1> DEFINE b == [pc |-> "drop", on |-> worker[w].on \ {c}]
           x == [pc |-> "dropEntry", on |-> worker[w].on, id |-> c, back |-> b]
<1>2. /\ worker[w].pc = "drop" /\ ~At(w, "unload") /\ Mark({})
      /\ UNCHANGED <<configVars, disk, tableVars, external, crashes, caVars, issuer>>
  BY DEF ClearBinding, At
<1>3. worker[w].on \in SUBSET Cert
  BY <1>2, WorkerShapes DEF TypeInv, WorkersOK, DropState
<1>4. b \in DropState
  BY <1>3 DEF DropState
<1>5. Goto(w, x)
  BY <1>1
<1> HIDE DEF b
<1>6. x \in DeletedState /\ x.pc = "dropEntry" /\ x.id = c
  BY <1>3, <1>4 DEF DeletedState
<1>7. worker'[w] = x
  BY <1>5, GotoMoves DEF Moves, TypeInv
<1> HIDE DEF x
<1>8. x \in WorkerState /\ ~Holds(x)
  BY <1>6 DEF WorkerState, Holds
<1>9. WorkerHolds(w)'
  BY <1>1, <1>6, <1>7 DEF WorkerHolds, At
<1>10. TablesOK' /\ OutsideOK' /\ IssuersOK' /\ \A i \in Issuer : issuer'[i] = issuer[i]
  BY <1>1, <1>2, TablesStay, IssuersStay DEF TypeInv, OutsideOK, caVars
<1> QED
  BY <1>1, <1>2, <1>5, <1>8, <1>9, <1>10, QuietStep DEF tableVars, Mark

LEMMA RenewingIn ==
  ASSUME NEW S \in SUBSET Entry
  PROVE  Renewing(S) \in IdleState \cup RenewDueState
  BY IdSetIn, IdleIsIdle DEF Renewing, RenewDueState

LEMMA ListRenewalsStep ==
  ASSUME TypeInv, NEW w \in Worker, ListRenewals(w), UNCHANGED installation
  PROVE  TypeInv' /\ (SafeInv => WorkerEffect(w))
<1> DEFINE S == {e \in Elements(certs) : e.source = "acme" /\ e.autoRenew}
<1>1. /\ ~At(w, "unload") /\ Goto(w, Renewing(S)) /\ Mark({})
      /\ UNCHANGED <<configVars, disk, tableVars, outsideVars, caVars, issuer>>
  BY DEF ListRenewals, At
<1>2. S \in SUBSET Entry
  BY ElementIn DEF TypeInv
<1> HIDE DEF S
<1>3. Renewing(S) \in IdleState \cup RenewDueState
  BY <1>2, RenewingIn
<1> QED
  BY <1>1, <1>3, ComeBackStep

LEMMA FillRenewAtStep ==
  ASSUME TypeInv, NEW w \in Worker, FillRenewAt(w), UNCHANGED installation
  PROVE  TypeInv' /\ (SafeInv => WorkerEffect(w))
<1>1. PICK e \in worker[w].todo :
        LET filled == [e EXCEPT !.renewAt = e.expires]
            goOn == Goto(w, [worker[w] EXCEPT !.todo = (@ \ {e}) \cup {filled}])
        IN UpdateEntry(filled, goOn, goOn)
  BY DEF FillRenewAt
<1> DEFINE f == [e EXCEPT !.renewAt = e.expires]
           x == [worker[w] EXCEPT !.todo = (@ \ {e}) \cup {f}]
<1>2. worker[w].pc = "renewDue" /\ ~At(w, "unload")
      /\ UNCHANGED <<disk, tableVars, outsideVars, caVars, issuer>>
  BY DEF FillRenewAt, At
<1>3. worker[w] \in RenewDueState
  BY <1>2, WorkerShapes DEF TypeInv, WorkersOK
<1>4. e \in Entry
  BY <1>3 DEF RenewDueState
<1>5. f \in Entry
  BY <1>4 DEF Entry
<1>6. Updated(f) /\ raced' = raced \cup Contended /\ hurt \subseteq hurt' /\ Goto(w, x)
  BY <1>1 DEF UpdateEntry, Saves, Mark, Updated, Stored
<1> HIDE DEF f
<1>7. x \in RenewDueState
  BY <1>3, <1>4, <1>5 DEF RenewDueState
<1> HIDE DEF x
<1>8. x \in WorkerState /\ ~Holds(x) /\ x.pc \in Uncommitted
  BY <1>7, BackIn
<1>9. WorkerHolds(w)'
  BY <1>6, <1>8, GotoMoves, UncommittedHolds DEF Moves, TypeInv
<1> QED
  BY <1>2, <1>5, <1>6, <1>8, <1>9, ChangeStep

LEMMA RenewDueStep ==
  ASSUME TypeInv, NEW w \in Worker, RenewDue(w), UNCHANGED installation
  PROVE  TypeInv' /\ (SafeInv => WorkerEffect(w))
<1>1. PICK e \in worker[w].todo :
        LET back == Renewing(worker[w].todo \ {e}) IN
        \/ Configured(e.id) /\ BeginRenewal(w, e.id, back)
        \/ Goto(w, back) /\ UNCHANGED configVars
  BY DEF RenewDue
<1> DEFINE back == Renewing(worker[w].todo \ {e})
<1>2. worker[w].pc = "renewDue" /\ ~At(w, "unload") /\ Mark({})
      /\ UNCHANGED <<disk, tableVars, outsideVars, caVars, issuer>>
  BY DEF RenewDue, At
<1>3. worker[w].todo \ {e} \in SUBSET Entry
  BY <1>2, WorkerShapes DEF TypeInv, WorkersOK, RenewDueState
<1>4. back \in IdleState \cup RenewDueState
  BY <1>3, RenewingIn
<1> HIDE DEF back
<1>5. CASE Configured(e.id) /\ BeginRenewal(w, e.id, back)
  BY <1>2, <1>4, <1>5, BeginRenewalStep DEF Configured
<1>6. CASE Goto(w, back) /\ UNCHANGED configVars
  BY <1>2, <1>4, <1>6, ComeBackStep
<1> QED
  BY <1>1, <1>5, <1>6 DEF back

(* Every step of a worker keeps the types and has the effect of one. *)
LEMMA WorkerActs ==
  ASSUME TypeInv, NEW w \in Worker, Request(w) \/ BeginMaintenance(w) \/ WorkerStep(w),
         UNCHANGED installation
  PROVE  TypeInv' /\ (SafeInv => WorkerEffect(w))
<1>1. CASE Request(w)
  BY <1>1, ImportStep, GenerateStep, CreateStep, UpdateStep, RenewStep, BeginDeletionStep
  DEF Request
<1>2. CASE WriteCrt(w) \/ WriteKey(w) \/ AddImported(w) \/ UpdateImported(w) \/ LoadImported(w)
  BY <1>2, WriteCrtStep, WriteKeyStep, AddStep, ChangeImportedStep, LoadStep
<1>3. CASE StoreEdit(w) \/ Reload(w) \/ SwapLoaded(w)
  BY <1>3, StoreEditStep, ReloadStep, SwapStep
<1>4. CASE StoreRenewing(w) \/ IssueRenewal(w) \/ RefuseRenewal(w) \/ StoreRefused(w)
  BY <1>4, StoreRenewingStep, IssueRenewalStep, RefuseRenewalStep, StoreRefusedStep
<1>5. CASE RemoveFiles(w) \/ DeleteConfigured(w) \/ Unload(w)
  BY <1>5, RemoveFilesStep, DeleteConfiguredStep, UnloadStep
<1>6. CASE BeginMaintenance(w) \/ SyncFile(w) \/ StoreSynced(w) \/ LoadSynced(w)
  BY <1>6, BeginMaintenanceStep, SyncFileStep, StoreSyncedStep, LoadSyncedStep
<1>7. CASE ListRemoved(w) \/ ClearBinding(w) \/ DropEntry(w)
  BY <1>7, ListRemovedStep, ClearBindingStep, DropEntryStep
<1>8. CASE ListRenewals(w) \/ FillRenewAt(w) \/ RenewDue(w)
  BY <1>8, ListRenewalsStep, FillRenewAtStep, RenewDueStep
<1> QED
  BY <1>1, <1>2, <1>3, <1>4, <1>5, <1>6, <1>7, <1>8 DEF WorkerStep

-----------------------------------------------------------------------------
(* What a step of an issuer may do to the rest *)

(* A step of i takes nothing from the list, and of the tables it changes   *)
(* the entries of its certificate.  It ends by telling its verdict.        *)
IssuerEffect(i) ==
  /\ raced' = raced \cup Contended /\ hurt \subseteq hurt'
  /\ \A v \in Worker : Alike(worker[v], worker'[v])
  /\ \A j \in Issuer \ {i} : issuer'[j] = issuer[j]
  /\ \A c \in Cert \ issuer[i].on : loaded'[c] = loaded[c]
  /\ IdsOf(certs) \subseteq IdsOf(certs') /\ bound' = bound /\ ListsAgree'
  /\ \A c \in Cert : Clean(c)' /\ loaded'[c] # None => loaded[c] # None \/ Configured(c)'
  /\ issuer'[i] = Idle => /\ IssuerAt(i, "report")
                          /\ progress'[issuer[i].entry.id] = issuer[i].verdict
                          /\ loaded' = loaded
  /\ IssuerHolds(i)'

LEMMA IssuerShapes ==
  ASSUME IssuersOK, NEW i \in Issuer, issuer[i].pc # "idle"
  PROVE  /\ issuer[i].pc # "report" => issuer[i] \in IssuingState
         /\ issuer[i].pc = "report" => issuer[i] \in ReportState
         /\ issuer[i].entry \in Entry /\ issuer[i].on \in SUBSET Cert
         /\ issuer[i].entry.id \in issuer[i].on /\ issuer[i].entry.id \in Cert
<1>1. issuer[i] \in IssuerState
  BY DEF IssuersOK
<1>2. issuer[i] \in IssuingState \/ issuer[i] \in ReportState
  BY <1>1 DEF IssuerState, IdleState
<1>3. /\ issuer[i].entry \in Entry /\ issuer[i].on \in SUBSET Cert
      /\ issuer[i].entry.id \in issuer[i].on
      /\ issuer[i] \in IssuingState => issuer[i].pc # "report"
      /\ issuer[i] \in ReportState => issuer[i].pc = "report"
  BY <1>2 DEF IssuingState, ReportState
<1> QED
  BY <1>2, <1>3 DEF Entry

(* An issuer goes on with y, and the workers and the list are as given. *)
LEMMA IssuerMoves ==
  ASSUME TypeInv, NEW i \in Issuer, NEW y \in IssuingState \cup ReportState, Continue(i, y),
         raced' = raced \cup Contended, hurt \subseteq hurt', ListsKept, WorkersOK',
         IdsOf(certs) \subseteq IdsOf(certs'), \A v \in Worker : Alike(worker[v], worker'[v]),
         TablesOK', OutsideOK', bound' = bound,
         \A c \in Cert \ issuer[i].on : loaded'[c] = loaded[c],
         SafeInv => \A c \in Cert : Clean(c)' /\ loaded'[c] # None =>
                                      loaded[c] # None \/ Configured(c)',
         SafeInv => IssuerHolds(i)'
  PROVE  TypeInv' /\ (SafeInv => IssuerEffect(i))
<1>1. y \in IssuerState /\ y.pc # "idle"
  BY DEF IssuerState, IssuingState, ReportState
<1>2. IssuersOK' /\ issuer'[i] = y /\ \A j \in Issuer \ {i} : issuer'[j] = issuer[j]
  BY <1>1, IssuersMove DEF TypeInv
<1>3. issuer'[i] # Idle
  BY <1>1, <1>2 DEF Idle
<1>4. TypeInv'
  BY <1>2 DEF TypeInv, ListsKept
<1> QED
  BY <1>2, <1>3, <1>4 DEF IssuerEffect, ListsKept, SafeInv

(* A step that changes at most the files. *)
LEMMA IssuerFileStep ==
  ASSUME TypeInv, NEW i \in Issuer, NEW y \in IssuingState \cup ReportState, Continue(i, y),
         raced' = raced \cup Contended, hurt \subseteq hurt', TablesOK',
         UNCHANGED <<installation, configVars, loaded, outsideVars, caVars, worker>>,
         SafeInv => IssuerHolds(i)'
  PROVE  TypeInv' /\ (SafeInv => IssuerEffect(i))
<1>1. ListsKept /\ IdsOf(certs') = IdsOf(certs)
  BY UnchangedLists DEF TypeInv
<1>2. WorkersOK' /\ OutsideOK' /\ \A v \in Worker : Alike(worker[v], worker'[v])
  BY <1>1, WorkersStay, OutsideStays DEF TypeInv, Alike
<1> QED
  BY <1>1, <1>2, IssuerMoves DEF outsideVars

(* A step that changes the list. *)
LEMMA IssuerListStep ==
  ASSUME TypeInv, NEW i \in Issuer, NEW y \in IssuingState \cup ReportState, Continue(i, y),
         raced' = raced \cup Contended, hurt \subseteq hurt', NEW e \in Entry,
         (Updated(e) /\ UNCHANGED worker) \/ (Added(e) /\ worker' \in AfterAppend),
         UNCHANGED <<installation, disk, tableVars, outsideVars, caVars>>,
         SafeInv => IssuerHolds(i)'
  PROVE  TypeInv' /\ (SafeInv => IssuerEffect(i))
<1>1. ListsKept /\ IdsOf(certs) \subseteq IdsOf(certs')
  BY UpdatedList, AddedList DEF TypeInv
<1>2. WorkersOK' /\ \A v \in Worker : Alike(worker[v], worker'[v])
  BY <1>1, WorkersStay, WorkersAppend DEF TypeInv, Alike
<1>3. OutsideOK' /\ TablesOK'
  BY OutsideStays, TablesStay DEF TypeInv
<1> QED
  BY <1>1, <1>2, <1>3, IssuerMoves DEF outsideVars, tableVars

(* An issuer at one of these steps has promised nothing. *)
LEMMA UnpromisedHolds ==
  ASSUME NEW i \in Issuer,
         issuer'[i].pc \in {"obtain", "writeCrt", "writeKey", "find", "add", "failed"}
         \/ (issuer'[i].pc = "report" /\ issuer'[i].verdict = "error")
  PROVE  IssuerHolds(i)'
  BY DEF IssuerHolds, IssuerAt

(* What an issuer that reports has in hand. *)
LEMMA ReportIn ==
  ASSUME IssuersOK, NEW i \in Issuer, issuer[i].pc # "idle", NEW verdict \in {"success", "error"},
         Report(i, verdict)
  PROVE  \E y \in ReportState : /\ Continue(i, y) /\ issuer'[i] = y /\ y.pc = "report"
                                /\ y.verdict = verdict /\ y.entry = issuer[i].entry
<1> DEFINE y == [pc |-> "report", on |-> issuer[i].on, entry |-> issuer[i].entry,
                 verdict |-> verdict]
<1>1. y \in ReportState /\ y.pc = "report" /\ y.verdict = verdict /\ y.entry = issuer[i].entry
  BY IssuerShapes DEF ReportState
<1>2. Continue(i, y)
  BY DEF Report
<1> HIDE DEF y
<1>3. issuer'[i] = y
  BY <1>2, IssuersMove
<1> QED
  BY <1>1, <1>2, <1>3

(* Where an issuer goes on with the same entry. *)
LEMMA GoesOnIn ==
  ASSUME IssuersOK, NEW i \in Issuer, issuer[i].pc \notin {"idle", "report"},
         NEW pc \in {"writeKey", "find", "update", "add", "load"},
         Continue(i, [issuer[i] EXCEPT !.pc = pc])
  PROVE  \E y \in IssuingState : /\ Continue(i, y) /\ issuer'[i] = y /\ y.pc = pc
                                 /\ y.entry = issuer[i].entry
<1> DEFINE y == [issuer[i] EXCEPT !.pc = pc]
<1>1. issuer[i] \in IssuingState
  BY IssuerShapes
<1>2. y \in IssuingState /\ y.pc = pc /\ y.entry = issuer[i].entry
  BY <1>1 DEF IssuingState
<1> HIDE DEF y
<1>3. issuer'[i] = y
  BY IssuersMove DEF y
<1> QED
  BY <1>2, <1>3 DEF y

-----------------------------------------------------------------------------
(* The steps of an issuer *)

LEMMA PresentStep ==
  ASSUME TypeInv, NEW i \in Issuer, PresentChallenge(i), UNCHANGED installation
  PROVE  TypeInv' /\ (SafeInv => IssuerEffect(i))
<1> DEFINE e == issuer[i].entry
<1>1. PICK d \in Domain :
        /\ issuer[i].pc = "obtain" /\ Mark({})
        /\ records' = [records EXCEPT ![e.id] = d]
        /\ progress' = [progress EXCEPT ![e.id] = "running"]
        /\ Continue(i, [issuer[i] EXCEPT !.awaits = @ \cup {d}])
        /\ UNCHANGED <<configVars, disk, loaded, outsideVars, caVars, worker>>
  BY DEF PresentChallenge, IssuerAt
<1> DEFINE y == [issuer[i] EXCEPT !.awaits = @ \cup {d}]
<1>2. issuer[i] \in IssuingState
  BY <1>1, IssuerShapes DEF TypeInv
<1>3. y \in IssuingState /\ y.pc = "obtain"
  BY <1>1, <1>2 DEF IssuingState
<1>4. Continue(i, y)
  BY <1>1
<1> HIDE DEF y
<1>5. IssuerHolds(i)'
  BY <1>3, <1>4, IssuersMove, UnpromisedHolds DEF TypeInv
<1>6. TablesOK'
  BY <1>1 DEF TypeInv, TablesOK
<1> QED
  BY <1>1, <1>3, <1>4, <1>5, <1>6, IssuerFileStep DEF Mark

(* An issue ends, well or not, and its entry is f. *)
LEMMA EndOfIssue ==
  ASSUME TypeInv, NEW i \in Issuer, issuer[i].pc = "obtain", Mark({}),
         NEW told \in {"success", "error"},
         progress' = [progress EXCEPT ![issuer[i].entry.id] = told],
         NEW f \in Entry, f.id = issuer[i].entry.id, NEW pc \in {"writeCrt", "failed"},
         Continue(i, [issuer[i] EXCEPT !.pc = pc, !.entry = f]), OutsideOK',
         UNCHANGED <<installation, configVars, disk, loaded, records, outsideVars, worker>>
  PROVE  TypeInv' /\ (SafeInv => IssuerEffect(i))
<1> DEFINE y == [issuer[i] EXCEPT !.pc = pc, !.entry = f]
<1>1. issuer[i] \in IssuingState /\ issuer[i].entry.id \in issuer[i].on
      /\ issuer[i].entry.id \in Cert
  BY IssuerShapes DEF TypeInv
<1>2. y \in IssuingState /\ y.pc = pc
  BY <1>1 DEF IssuingState
<1> HIDE DEF y
<1>3. issuer'[i] = y
  BY IssuersMove DEF TypeInv, y
<1>4. IssuerHolds(i)'
  BY <1>2, <1>3, UnpromisedHolds
<1>5. TablesOK'
  BY <1>1 DEF TypeInv, TablesOK
<1>7. ListsKept /\ IdsOf(certs') = IdsOf(certs)
  BY UnchangedLists DEF TypeInv, Mark
<1>8. WorkersOK' /\ \A v \in Worker : Alike(worker[v], worker'[v])
  BY <1>7, WorkersStay DEF TypeInv, Alike
<1>9. Continue(i, y)
  BY Zenon DEF y
<1> QED
  BY <1>1, <1>2, <1>4, <1>5, <1>7, <1>8, <1>9, IssuerMoves DEF outsideVars, Mark

LEMMA ObtainStep ==
  ASSUME TypeInv, NEW i \in Issuer, Obtain(i), UNCHANGED installation
  PROVE  TypeInv' /\ (SafeInv => IssuerEffect(i))
<1> DEFINE e == issuer[i].entry
           f == [e EXCEPT !.expires = issued + 1, !.renewAt = issued + 1, !.status = "valid"]
           y == [issuer[i] EXCEPT !.pc = "writeCrt", !.entry = f]
<1>1. /\ issuer[i].pc = "obtain" /\ Mark({})
      /\ progress' = [progress EXCEPT ![e.id] = "success"]
      /\ issued < installation.maxIssued /\ issued' = issued + 1
      /\ UNCHANGED <<configVars, disk, loaded, records, outsideVars, due, unused, worker>>
  BY DEF Obtain, IssuerAt
<1>2. e \in Entry /\ issuer[i] \in IssuingState
  BY <1>1, IssuerShapes DEF TypeInv
<1>3. issued + 1 \in Issue /\ issued + 1 \in 0 .. MaxIssued
  BY <1>1, NextIssue DEF TypeInv
<1>4. f \in Entry /\ f.id = e.id
  BY <1>2, <1>3 DEF Entry
<1>5. PICK z : /\ z = [issuer[i] EXCEPT !.pc = "writeCrt", !.entry.expires = issued + 1,
                                        !.entry.renewAt = issued + 1, !.entry.status = "valid"]
               /\ Continue(i, z)
  BY Zenon DEF Obtain
<1>6. z = y
  BY <1>2, <1>5 DEF IssuingState
<1>7. OutsideOK'
  BY <1>1, <1>3 DEF TypeInv, OutsideOK, outsideVars
<1> HIDE DEF f
<1>8. Continue(i, [issuer[i] EXCEPT !.pc = "writeCrt", !.entry = f])
  <2>1. Continue(i, z)
    BY <1>5
  <2> QED
    BY <1>6, <2>1, Zenon
<1> QED
  BY <1>1, <1>4, <1>7, <1>8, EndOfIssue

LEMMA ObtainFailsStep ==
  ASSUME TypeInv, NEW i \in Issuer, ObtainFails(i), UNCHANGED installation
  PROVE  TypeInv' /\ (SafeInv => IssuerEffect(i))
<1> DEFINE e == issuer[i].entry
           f == [e EXCEPT !.status = "error"]
           y == [issuer[i] EXCEPT !.pc = "failed", !.entry = f]
<1>1. /\ issuer[i].pc = "obtain" /\ Mark({})
      /\ progress' = [progress EXCEPT ![e.id] = "error"]
      /\ UNCHANGED <<configVars, disk, loaded, records, outsideVars, caVars, worker>>
  BY DEF ObtainFails, IssuerAt
<1>2. e \in Entry /\ issuer[i] \in IssuingState
  BY <1>1, IssuerShapes DEF TypeInv
<1>3. f \in Entry /\ f.id = e.id
  BY <1>2 DEF Entry
<1>4. PICK z : /\ z = [issuer[i] EXCEPT !.pc = "failed", !.entry.status = "error"]
               /\ Continue(i, z)
  BY Zenon DEF ObtainFails
<1>5. z = y
  BY <1>2, <1>4 DEF IssuingState
<1>6. OutsideOK'
  BY <1>1, OutsideStays DEF TypeInv
<1> HIDE DEF f
<1>7. Continue(i, [issuer[i] EXCEPT !.pc = "failed", !.entry = f])
  BY <1>4, <1>5, Zenon
<1> QED
  BY <1>1, <1>3, <1>6, <1>7, EndOfIssue

LEMMA StoreFailureStep ==
  ASSUME TypeInv, NEW i \in Issuer, StoreFailure(i), UNCHANGED installation
  PROVE  TypeInv' /\ (SafeInv => IssuerEffect(i))
<1> DEFINE e == issuer[i].entry
<1>1. /\ issuer[i].pc = "failed" /\ Report(i, "error") /\ Updated(e)
      /\ raced' = raced \cup Contended /\ hurt \subseteq hurt'
      /\ UNCHANGED <<disk, tableVars, outsideVars, caVars, worker>>
  BY DEF StoreFailure, IssuerAt, UpdateEntry, Saves, Mark, Updated, Stored
<1>2. e \in Entry
  BY <1>1, IssuerShapes DEF TypeInv
<1>3. PICK y \in ReportState : /\ Continue(i, y) /\ issuer'[i] = y /\ y.pc = "report"
                               /\ y.verdict = "error"
  BY <1>1, ReportIn DEF TypeInv
<1>4. IssuerHolds(i)'
  BY <1>3, UnpromisedHolds
<1> HIDE DEF e
<1> QED
  BY <1>1, <1>2, <1>3, <1>4, IssuerListStep

LEMMA RefuseIssuedStep ==
  ASSUME TypeInv, NEW i \in Issuer, RefuseIssued(i), UNCHANGED installation
  PROVE  TypeInv' /\ (SafeInv => IssuerEffect(i))
<1>1. /\ issuer[i].pc = "writeCrt" /\ Report(i, "error")
      /\ raced' = raced \cup Contended /\ hurt \subseteq hurt'
      /\ UNCHANGED <<configVars, disk, tableVars, outsideVars, caVars, worker>>
  BY DEF RefuseIssued, IssuerAt, Mark
<1>2. PICK y \in ReportState : /\ Continue(i, y) /\ issuer'[i] = y /\ y.pc = "report"
                               /\ y.verdict = "error"
  BY <1>1, ReportIn DEF TypeInv
<1>3. IssuerHolds(i)' /\ TablesOK'
  BY <1>1, <1>2, UnpromisedHolds, TablesStay DEF TypeInv
<1> QED
  BY <1>1, <1>2, <1>3, IssuerFileStep DEF tableVars

(* A file of the certificate issued is written, or that fails. *)
LEMMA WriteIssuedStep ==
  ASSUME TypeInv, NEW i \in Issuer, NEW part \in {"crt", "key"}, NEW pc \in {"writeKey", "find"},
         issuer[i].pc \in {"writeCrt", "writeKey"},
         WriteFile(issuer[i].entry.id, part, issuer[i].entry.expires,
                   Continue(i, [issuer[i] EXCEPT !.pc = pc]), Report(i, "error")),
         UNCHANGED <<installation, configVars, tableVars, outsideVars, caVars, worker>>
  PROVE  TypeInv' /\ (SafeInv => IssuerEffect(i))
<1> DEFINE e == issuer[i].entry
<1>1. e.id \in Cert /\ e.expires \in MaybeIssue
  BY IssuerShapes DEF TypeInv, Entry, MaybeIssue
<1>2. /\ Written(e.id, part) /\ raced' = raced \cup Contended /\ hurt \subseteq hurt'
      /\ Continue(i, [issuer[i] EXCEPT !.pc = pc]) \/ Report(i, "error")
  BY <1>1, FileIn DEF WriteFile, Written, Mark, TypeInv
<1>3. TablesOK'
  BY <1>1, <1>2, WrittenIn DEF TypeInv
<1>4. CASE Report(i, "error")
  <2>1. PICK y \in ReportState : /\ Continue(i, y) /\ issuer'[i] = y /\ y.pc = "report"
                                 /\ y.verdict = "error"
    BY <1>4, ReportIn DEF TypeInv
  <2>2. IssuerHolds(i)'
    BY <2>1, UnpromisedHolds
  <2> QED
    BY <1>2, <1>3, <2>1, <2>2, IssuerFileStep DEF tableVars
<1>5. CASE Continue(i, [issuer[i] EXCEPT !.pc = pc])
  <2>1. PICK y \in IssuingState : Continue(i, y) /\ issuer'[i] = y /\ y.pc = pc
    <3>1. CASE pc = "writeKey"
      <4>1. Continue(i, [issuer[i] EXCEPT !.pc = "writeKey"])
        BY <1>5, <3>1
      <4> QED
        BY <3>1, <4>1, GoesOnIn DEF TypeInv
    <3>2. CASE pc = "find"
      <4>1. Continue(i, [issuer[i] EXCEPT !.pc = "find"])
        BY <1>5, <3>2
      <4> QED
        BY <3>2, <4>1, GoesOnIn DEF TypeInv
    <3> QED
      BY <3>1, <3>2
  <2>2. IssuerHolds(i)'
    BY <2>1, UnpromisedHolds
  <2> QED
    BY <1>2, <1>3, <2>1, <2>2, IssuerFileStep DEF tableVars
<1> QED
  BY <1>2, <1>4, <1>5

LEMMA FindStep ==
  ASSUME TypeInv, NEW i \in Issuer, FindConfigured(i), UNCHANGED installation
  PROVE  TypeInv' /\ (SafeInv => IssuerEffect(i))
<1> DEFINE e == issuer[i].entry
           pc == IF Configured(e.id) THEN "update" ELSE "add"
<1>1. /\ issuer[i].pc = "find" /\ Mark({}) /\ Continue(i, [issuer[i] EXCEPT !.pc = pc])
      /\ UNCHANGED <<configVars, disk, tableVars, outsideVars, caVars, worker>>
  BY DEF FindConfigured, IssuerAt
<1>2. pc \in {"update", "add"} /\ (pc = "update" => Configured(e.id))
  OBVIOUS
<1> HIDE DEF pc
<1>3. PICK y \in IssuingState : /\ Continue(i, y) /\ issuer'[i] = y /\ y.pc = pc
                                /\ y.entry = e
  <2>1. CASE pc = "update"
    <3>1. Continue(i, [issuer[i] EXCEPT !.pc = "update"])
      BY <1>1, <2>1
    <3> QED
      BY <1>1, <2>1, <3>1, GoesOnIn DEF TypeInv
  <2>2. CASE pc = "add"
    <3>1. Continue(i, [issuer[i] EXCEPT !.pc = "add"])
      BY <1>1, <2>2
    <3> QED
      BY <1>1, <2>2, <3>1, GoesOnIn DEF TypeInv
  <2> QED
    BY <1>2, <2>1, <2>2
<1>4. IssuerHolds(i)'
  BY <1>1, <1>2, <1>3 DEF IssuerHolds, IssuerAt, Configured, configVars
<1>5. TablesOK'
  BY <1>1, TablesStay DEF TypeInv
<1> QED
  BY <1>1, <1>3, <1>4, <1>5, IssuerFileStep DEF tableVars, Mark

(* The entry is stored, or that fails. *)
LEMMA StoreIssuedStep ==
  ASSUME TypeInv, NEW i \in Issuer, issuer[i].pc \in {"update", "add"},
         \/ Updated(issuer[i].entry) /\ UNCHANGED worker /\ IssuerAt(i, "update")
         \/ Added(issuer[i].entry) /\ worker' \in AfterAppend,
         raced' = raced \cup Contended, hurt \subseteq hurt',
         Continue(i, [issuer[i] EXCEPT !.pc = "load"]) \/ Report(i, "error"),
         UNCHANGED <<installation, disk, tableVars, outsideVars, caVars>>
  PROVE  TypeInv' /\ (SafeInv => IssuerEffect(i))
<1>1. PICK e : e = issuer[i].entry
  OBVIOUS
<1>2. e \in Entry /\ e.id \in Cert
  BY <1>1, IssuerShapes DEF TypeInv
<1>3. CASE Report(i, "error")
  <2>1. PICK y \in ReportState : /\ Continue(i, y) /\ issuer'[i] = y /\ y.pc = "report"
                                 /\ y.verdict = "error"
    BY <1>3, ReportIn DEF TypeInv
  <2>2. IssuerHolds(i)'
    BY <2>1, UnpromisedHolds
  <2> QED
    BY <1>1, <1>2, <2>1, <2>2, IssuerListStep
<1>4. CASE Continue(i, [issuer[i] EXCEPT !.pc = "load"])
  <2>1. PICK y \in IssuingState : /\ Continue(i, y) /\ issuer'[i] = y /\ y.pc = "load"
                                  /\ y.entry = e
    BY <1>1, <1>4, GoesOnIn DEF TypeInv
  <2>2. ASSUME SafeInv, e.id \notin Raced' \cup hurt'
        PROVE  e.id \in IdsOf(certs')
    <3>1. CASE Updated(issuer[i].entry) /\ IssuerAt(i, "update")
      <4>1. Configured(e.id)
        BY <1>1, <2>2, <3>1 DEF SafeInv, IssuerHolds, IssuerAt, Clean, Raced
      <4> QED
        BY <1>1, <1>2, <3>1, <4>1, UpdatedList DEF TypeInv, Configured
    <3>2. CASE Added(issuer[i].entry)
      BY <1>1, <1>2, <3>2, AddedList DEF TypeInv
    <3> QED
      BY <3>1, <3>2
  <2>3. SafeInv => IssuerHolds(i)'
    BY <2>1, <2>2 DEF IssuerHolds, IssuerAt, Clean, Configured
  <2> QED
    BY <1>1, <1>2, <2>1, <2>3, IssuerListStep
<1> QED
  BY <1>3, <1>4

LEMMA LoadIssuedStep ==
  ASSUME TypeInv, NEW i \in Issuer, LoadIssued(i), UNCHANGED installation
  PROVE  TypeInv' /\ (SafeInv => IssuerEffect(i))
<1>1. PICK e : e = issuer[i].entry
  OBVIOUS
<1> DEFINE p == Served(e.terms, e.expires)
<1>2. /\ issuer[i].pc = "load" /\ Mark({}) /\ Report(i, "success")
      /\ loaded' = [loaded EXCEPT ![e.id] = p]
      /\ UNCHANGED <<configVars, disk, progress, records, outsideVars, caVars, worker>>
  BY <1>1 DEF LoadIssued, IssuerAt
<1>3. e \in Entry /\ e.id \in Cert /\ e.id \in issuer[i].on
  BY <1>1, <1>2, IssuerShapes DEF TypeInv
<1>4. e.terms \in Chosen /\ e.expires \in MaybeIssue
  BY <1>3 DEF Entry, Chosen, MaybeIssue
<1>5. p \in Pair
  BY <1>4 DEF Pair
<1>6. PICK y \in ReportState : /\ Continue(i, y) /\ issuer'[i] = y /\ y.pc = "report"
                               /\ y.entry = e
  BY <1>1, <1>2, ReportIn DEF TypeInv
<1> HIDE DEF p
<1>7. /\ loaded' \in Table /\ loaded'[e.id] = p
      /\ \A c \in Cert : c # e.id => loaded'[c] = loaded[c]
  BY <1>2, <1>3, <1>5 DEF TypeInv, TablesOK, Table
<1>8. TablesOK'
  BY <1>2, <1>7 DEF TypeInv, TablesOK
<1>9. IssuerHolds(i)'
  BY <1>6, <1>7 DEF IssuerHolds, IssuerAt, p
<1>10. ASSUME SafeInv, NEW c \in Cert, Clean(c)', loaded'[c] # None
       PROVE  loaded[c] # None \/ Configured(c)'
  <2>1. CASE c # e.id
    BY <1>7, <1>10, <2>1
  <2>2. CASE c = e.id
    BY <1>1, <1>2, <1>10, <2>2
    DEF SafeInv, IssuerHolds, Clean, Raced, Mark, Configured, configVars
  <2> QED
    BY <2>1, <2>2
<1>11. ListsKept /\ IdsOf(certs') = IdsOf(certs)
  BY <1>2, UnchangedLists DEF TypeInv, Mark
<1>12. WorkersOK' /\ OutsideOK' /\ \A v \in Worker : Alike(worker[v], worker'[v])
  BY <1>2, <1>11, WorkersStay, OutsideStays DEF TypeInv, Alike
<1> QED
  BY <1>2, <1>3, <1>6, <1>7, <1>8, <1>9, <1>10, <1>11, <1>12, IssuerMoves
  DEF outsideVars, Mark

LEMMA FinishStep ==
  ASSUME TypeInv, NEW i \in Issuer, Finish(i), UNCHANGED installation
  PROVE  TypeInv' /\ (SafeInv => IssuerEffect(i))
<1> DEFINE e == issuer[i].entry
<1>1. /\ issuer[i].pc = "report" /\ Mark({}) /\ Continue(i, Idle)
      /\ progress' = [progress EXCEPT ![e.id] = issuer[i].verdict]
      /\ UNCHANGED <<configVars, disk, loaded, records, outsideVars, caVars, worker>>
  BY DEF Finish, IssuerAt
<1>2. e.id \in Cert /\ issuer[i].verdict \in {"success", "error"}
  BY <1>1, IssuerShapes DEF TypeInv, ReportState
<1>3. IssuersOK' /\ issuer'[i] = Idle /\ \A j \in Issuer \ {i} : issuer'[j] = issuer[j]
  BY <1>1, IssuersMove, IdleIsIdle DEF TypeInv, IssuerState
<1>4. TablesOK' /\ progress'[e.id] = issuer[i].verdict
  BY <1>1, <1>2 DEF TypeInv, TablesOK
<1>5. ListsKept /\ IdsOf(certs') = IdsOf(certs)
  BY <1>1, UnchangedLists DEF TypeInv, Mark
<1>6. WorkersOK' /\ OutsideOK' /\ \A v \in Worker : Alike(worker[v], worker'[v])
  BY <1>1, <1>5, WorkersStay, OutsideStays DEF TypeInv, Alike
<1>7. TypeInv'
  BY <1>3, <1>4, <1>5, <1>6 DEF TypeInv, ListsKept
<1>8. IssuerHolds(i)'
  BY <1>3 DEF IssuerHolds, IssuerAt, Idle
<1> QED
  BY <1>1, <1>3, <1>4, <1>5, <1>6, <1>7, <1>8
  DEF IssuerEffect, IssuerAt, ListsKept, SafeInv, Mark, outsideVars

(* Every step of an issuer keeps the types and has the effect of one. *)
LEMMA IssuerActs ==
  ASSUME TypeInv, NEW i \in Issuer, IssuerStep(i), UNCHANGED installation
  PROVE  TypeInv' /\ (SafeInv => IssuerEffect(i))
<1>1. CASE WriteIssuedCrt(i) \/ WriteIssuedKey(i)
  <2>1. CASE WriteIssuedCrt(i)
    BY <2>1, WriteIssuedStep DEF WriteIssuedCrt, IssuerAt
  <2>2. CASE WriteIssuedKey(i)
    BY <2>2, WriteIssuedStep DEF WriteIssuedKey, IssuerAt
  <2> QED
    BY <1>1, <2>1, <2>2
<1>2. CASE AddIssued(i)
  BY <1>2, StoreIssuedStep DEF AddIssued, IssuerAt, AddEntry, Saves, Mark, Added, Stored
<1>3. CASE UpdateIssued(i)
  BY <1>3, StoreIssuedStep DEF UpdateIssued, IssuerAt, UpdateEntry, Saves, Mark, Updated, Stored
<1> QED
  BY <1>1, <1>2, <1>3, PresentStep, ObtainStep, ObtainFailsStep, StoreFailureStep,
     RefuseIssuedStep, FindStep, LoadIssuedStep, FinishStep
  DEF IssuerStep

-----------------------------------------------------------------------------
(* The inductive invariant *)

LEMMA TypeInit == CertInit => TypeInv
<1> SUFFICES ASSUME CertInit PROVE TypeInv
  OBVIOUS
<1>1. installation \in Installation /\ installation \in Installations /\ MaxIssued \in Nat
      /\ Len(installation.stored) <= installation.maxIssued
  BY CertificateAssumption DEF CertInit
<1>2. /\ installation.stored \in Seq(Entry) /\ installation.fresh \subseteq Cert
      /\ installation.lists \subseteq {Unreadable} \cup SUBSET SyncCert
      /\ installation.maxIssued \in 1 .. MaxIssued
  BY <1>1 DEF Installation, Issue
<1>3. ListsOK
  BY <1>2, SliceIn DEF CertInit, ListsOK
<1>4. /\ Elements(certs) \in SUBSET Entry
      /\ \A c \in IdsOf(certs) : Element(certs, c).expires \in MaybeIssue
  BY <1>3, ElementIn DEF Entry, MaybeIssue
<1>5. disk \in [Cert -> File]
  <2>1. ASSUME NEW p \in MaybeIssue PROVE [crt |-> p, key |-> p] \in File
    BY <2>1 DEF File, MaybeIssue
  <2>2. [crt |-> None, key |-> None] \in File
    BY DEF File
  <2> QED
    BY <1>4, <2>1, <2>2 DEF CertInit
<1>6. loaded \in Table
  <2>1. ASSUME NEW c \in Cert
        PROVE  Loadable(Elements(certs))[c] \in Pair \cup {None}
    <3> DEFINE S == Elements(certs)
               t == (CHOOSE e \in S : e.id = c).terms
    <3>1. Loadable(S)[c] = IF c \in IdSet(S) /\ Fits(disk[c]) THEN Served(t, disk[c].crt)
                           ELSE None
      BY <2>1 DEF Loadable
    <3>2. disk[c].crt \in MaybeIssue
      BY <1>5 DEF File, MaybeIssue
    <3>3. c \in IdSet(S) => t \in Chosen
      BY <1>4 DEF IdSet, Entry, Chosen
    <3> HIDE DEF t
    <3> QED
      BY <3>1, <3>2, <3>3 DEF Pair
  <2>2. Loadable(Elements(certs)) = [c \in Cert |-> Loadable(Elements(certs))[c]]
    BY DEF Loadable
  <2>3. loaded = Loadable(Elements(certs))
    BY DEF CertInit
  <2> QED
    BY <2>1, <2>2, <2>3 DEF Table
<1>7. TablesOK
  BY <1>5, <1>6 DEF CertInit, TablesOK
<1>8. Len(installation.stored) \in Nat
  BY <1>2
<1>9. OutsideOK
  BY <1>1, <1>2, <1>8 DEF CertInit, OutsideOK
<1>10. WorkersOK
  BY IdleIn DEF CertInit, WorkersOK
<1>11. IssuersOK
  BY IdleIsIdle DEF CertInit, IssuersOK, IssuerState
<1> QED
  BY <1>3, <1>7, <1>9, <1>10, <1>11 DEF TypeInv

(* A step outside the certificate manager that leaves the list alone. *)
LEMMA OutsideTypes ==
  ASSUME TypeInv, UNCHANGED <<installation, configVars, worker, issuer>>, hurt \subseteq hurt',
         TablesOK', OutsideOK'
  PROVE  TypeInv'
<1>1. ListsKept
  BY UnchangedLists DEF TypeInv
<1>2. WorkersOK'
  BY <1>1, WorkersStay DEF TypeInv
<1> QED
  BY <1>1, <1>2, IssuersStay DEF TypeInv, ListsKept

LEMMA DiskIn ==
  ASSUME TablesOK, NEW c \in Cert, NEW part \in {"crt", "key"}, NEW p \in MaybeIssue,
         disk' = [disk EXCEPT ![c][part] = p], UNCHANGED tableVars
  PROVE  TablesOK'
  BY WrittenIn DEF Written

LEMMA OutsideKeepsTypes ==
  ASSUME TypeInv, Outside, UNCHANGED installation
  PROVE  TypeInv'
<1>1. ASSUME NEW c \in Cert, Bind(c) \/ Release(c)
      PROVE  TypeInv'
  <2>1. /\ UNCHANGED <<configVars, disk, tableVars, external, crashes, caVars, worker, issuer>>
        /\ hurt \subseteq hurt' /\ bound' \subseteq bound \cup {c}
    BY <1>1 DEF Bind, Release, Mark
  <2>2. TablesOK' /\ OutsideOK'
    BY <2>1, TablesStay DEF TypeInv, OutsideOK, caVars
  <2> QED
    BY <2>1, <2>2, OutsideTypes
<1>3. ASSUME NEW c \in Cert, ToolWritesCrt(c)
      PROVE  TypeInv'
  <2>1. /\ UNCHANGED <<configVars, tableVars, outsideVars, due, unused, worker, issuer>>
        /\ hurt \subseteq hurt' /\ issued' = issued + 1
        /\ disk' = [disk EXCEPT ![c]["crt"] = issued + 1]
    BY <1>3 DEF ToolWritesCrt, Mark
  <2>2. issued + 1 \in MaybeIssue /\ issued + 1 \in 0 .. MaxIssued
    BY <1>3, NextIssue DEF ToolWritesCrt, TypeInv
  <2>3. TablesOK'
    BY <2>1, <2>2, DiskIn DEF TypeInv
  <2>4. OutsideOK'
    BY <2>1, <2>2 DEF TypeInv, OutsideOK, outsideVars
  <2> QED
    BY <2>1, <2>3, <2>4, OutsideTypes
<1>4. ASSUME NEW c \in Cert, ToolWritesKey(c)
      PROVE  TypeInv'
  <2>1. /\ UNCHANGED <<configVars, tableVars, outsideVars, caVars, worker, issuer>>
        /\ hurt \subseteq hurt' /\ disk' = [disk EXCEPT ![c]["key"] = disk[c].crt]
    BY <1>4 DEF ToolWritesKey, Mark
  <2>2. disk[c].crt \in MaybeIssue
    BY DEF TypeInv, TablesOK, File, MaybeIssue
  <2>3. TablesOK' /\ OutsideOK'
    BY <2>1, <2>2, DiskIn, OutsideStays DEF TypeInv
  <2> QED
    BY <2>1, <2>3, OutsideTypes
<1>5. CASE RenewalDateComes
  <2>1. /\ UNCHANGED <<configVars, disk, tableVars, outsideVars, issued, unused, worker, issuer>>
        /\ hurt \subseteq hurt'
    BY <1>5 DEF RenewalDateComes, Mark
  <2>2. TablesOK' /\ OutsideOK'
    BY <2>1, TablesStay DEF TypeInv, OutsideOK, outsideVars
  <2> QED
    BY <2>1, <2>2, OutsideTypes
<1>6. CASE ListChanges
  <2>1. /\ UNCHANGED <<configVars, disk, tableVars, bound, crashes, caVars, worker, issuer>>
        /\ hurt \subseteq hurt' /\ external' \in installation.lists
    BY <1>6 DEF ListChanges, Mark
  <2>2. TablesOK' /\ OutsideOK'
    BY <2>1, TablesStay, InstallationFacts DEF TypeInv, OutsideOK, caVars
  <2> QED
    BY <2>1, <2>2, OutsideTypes
<1>7. CASE Restart
  <2>1. /\ certs' = Slice(saved) /\ saved' = saved
        /\ loaded' = Loadable(Elements(Slice(saved)))
        /\ progress' = [c \in Cert |-> None] /\ records' = [c \in Cert |-> None]
        /\ worker' = [w \in Worker |-> Idle] /\ issuer' = [i \in Issuer |-> Idle]
        /\ crashes' = crashes + 1
        /\ UNCHANGED <<disk, bound, external, caVars>>
    BY <1>7 DEF Restart
  <2>2. Slice(saved) \in SliceOf(Entry)
    BY SliceIn DEF TypeInv, ListsOK
  <2>3. Elements(Slice(saved)) \in SUBSET Entry
    BY <2>2, SliceFacts DEF Elements
  <2>4. loaded' \in Table
    BY <2>1, <2>3, LoadableIn DEF TypeInv
  <2>5. ListsOK'
    BY <2>1, <2>2 DEF TypeInv, ListsOK
  <2>6. TablesOK'
    BY <2>1, <2>4 DEF TypeInv, TablesOK
  <2>7. OutsideOK'
    BY <2>1 DEF TypeInv, OutsideOK, caVars
  <2>8. WorkersOK' /\ IssuersOK'
    BY <2>1, IdleIn, IdleIsIdle DEF WorkersOK, IssuersOK, IssuerState
  <2> QED
    BY <2>5, <2>6, <2>7, <2>8 DEF TypeInv
<1> QED
  BY <1>1, <1>3, <1>4, <1>5, <1>6, <1>7, SyncInCert DEF Outside

LEMMA StepKeepsTypes == TypeInv /\ [CertNext]_certVars => TypeInv'
<1> SUFFICES ASSUME TypeInv, [CertNext]_certVars PROVE TypeInv'
  OBVIOUS
<1>1. CASE UNCHANGED certVars
  BY <1>1 DEF certVars, TypeInv, ListsOK, TablesOK, OutsideOK, WorkersOK, IssuersOK, Leads
<1>2. CASE CertNext
  BY <1>2, WorkerActs, IssuerActs, OutsideKeepsTypes DEF CertNext
<1> QED
  BY <1>1, <1>2

-----------------------------------------------------------------------------
(* Every step keeps the invariants *)

(* Two goroutines that work on a certificate at once leave a mark on it. *)
LEMMA ContendedFacts ==
  /\ \A v, w \in Worker : v # w /\ worker[v] # Idle /\ worker[w] # Idle => Contended = Cert
  /\ \A i \in Issuer, w \in Worker, c \in Cert :
       c \in issuer[i].on /\ c \in worker[w].on => c \in Contended
  /\ \A i, j \in Issuer, c \in Cert :
       i # j /\ c \in issuer[i].on /\ c \in issuer[j].on => c \in Contended
  BY DEF Contended

LEMMA MarksStay ==
  ASSUME raced' = raced \cup Contended, hurt \subseteq hurt'
  PROVE  /\ \A c : c \notin Raced' => c \notin Raced /\ c \notin Contended
         /\ \A c : Clean(c)' => Clean(c) /\ c \notin Contended
  BY DEF Raced, Clean

LEMMA WorkerStepSafe ==
  ASSUME TypeInv, SafeInv, NEW w \in Worker, WorkerEffect(w)
  PROVE  SafeInv'
<1>1. /\ \A c : c \notin Raced' => c \notin Raced /\ c \notin Contended
      /\ \A c : Clean(c)' => Clean(c) /\ c \notin Contended
  BY MarksStay DEF WorkerEffect
<1>2. ASSUME NEW v \in Worker, v # w
      PROVE  WorkerHolds(v)'
  <2> DEFINE x == worker[v]
             y == worker'[v]
  <2>1. x \in WorkerState /\ Alike(x, y)
    BY <1>2 DEF TypeInv, WorkersOK, WorkerEffect
  <2>2. /\ y \in WorkerState /\ y.pc = x.pc /\ y.on = x.on
        /\ x.pc \notin {"renew", "issue", "refused", "check", "synced", "loadSynced"} => y = x
        /\ x.pc \in {"synced", "loadSynced"} => y.id = x.id /\ (y.ref # None => x.ref # None)
    BY <2>1, AlikeFields
  <2>3. CASE x.pc \in Uncommitted
    BY <1>2, <2>2, <2>3, UncommittedHolds
  <2>4. CASE x.pc \notin Uncommitted /\ worker[w] # Idle
    <3>1. Contended = Cert
      <4>1. x # Idle
        BY <2>4 DEF Idle, Uncommitted
      <4> QED
        BY <1>2, <2>4, <4>1, ContendedFacts
    <3>2. \A c \in Cert : ~Clean(c)'
      BY <1>1, <3>1
    <3>3. /\ y.pc \in {"delete", "dropEntry", "synced", "loadSynced"} => y.id \in Cert
          /\ y.pc \in {"writeCrt", "writeKey", "add", "update", "load"} => y.entry.id \in Cert
      BY <2>2, WorkerShapes DEF DeleteState, DeletedState, SyncedState, WritingState, Entry
    <3>4. PICK z : z = y
      OBVIOUS
    <3> HIDE DEF x
    <3>5. WorkerHolds(v)' <=>
            /\ z.pc \in {"delete", "dropEntry"} /\ Clean(z.id)' => z.id \notin bound'
            /\ z.pc = "swap" =>
                 \A c \in Cert : Clean(c)' /\ z.table[c] # None => Configured(c)'
            /\ /\ z.pc \in {"writeCrt", "writeKey", "add", "update", "load"}
               /\ z.pc \in {"update", "load"} \/ z.then = "update"
               /\ Clean(z.entry.id)'
               => Configured(z.entry.id)'
            /\ /\ z.pc \in {"synced", "loadSynced"}
               /\ z.pc = "loadSynced" \/ z.ref # None
               /\ Clean(z.id)'
               => Configured(z.id)'
      BY <3>4 DEF WorkerHolds, At, Clean, Configured
    <3> QED
      BY <3>2, <3>3, <3>4, <3>5
  <2>5. CASE x.pc \notin Uncommitted /\ worker[w] = Idle
    <3>1. IdsOf(certs) \subseteq IdsOf(certs') /\ bound' \subseteq bound
      BY <2>5 DEF WorkerEffect, Idle
    <3>2. WorkerHolds(v)
      BY DEF SafeInv
    <3>3. \A c : c \notin Raced' \cup hurt' => Clean(c)
      BY <1>1 DEF Clean
    <3>4. CASE x.pc \in {"synced", "loadSynced"}
      BY <2>2, <3>1, <3>2, <3>3, <3>4 DEF WorkerHolds, At, Clean, Configured
    <3>5. CASE x.pc \notin {"synced", "loadSynced"}
      <4>1. y = x
        BY <2>2, <2>5, <3>5 DEF Uncommitted
      <4> QED
        BY <3>1, <3>2, <3>3, <3>5, <4>1 DEF WorkerHolds, At, Clean, Configured
    <3> QED
      BY <3>4, <3>5
  <2> QED
    BY <2>3, <2>4, <2>5
<1>3. ASSUME NEW i \in Issuer
      PROVE  IssuerHolds(i)'
  <2>1. CASE issuer[i] = Idle /\ issuer'[i].pc = "obtain"
    BY <2>1, UnpromisedHolds
  <2>2. CASE issuer'[i] = issuer[i] /\ issuer[i].pc = "idle"
    BY <2>2 DEF IssuerHolds, IssuerAt
  <2>3. CASE issuer'[i] = issuer[i] /\ issuer[i].pc # "idle"
    <3>1. PICK c \in Cert : c = issuer[i].entry.id /\ c \in issuer[i].on
      BY <2>3, IssuerShapes DEF TypeInv
    <3>2. c \notin Raced' => /\ c \notin Raced /\ c \notin worker[w].on
                             /\ loaded'[c] = loaded[c]
                             /\ (Configured(c) => c \in IdsOf(certs'))
      BY <1>1, <3>1, ContendedFacts DEF WorkerEffect, Configured
    <3>3. c \notin Raced' \cup hurt' => Clean(c)
      BY <1>1 DEF Clean
    <3>4. IssuerHolds(i)
      BY DEF SafeInv
    <3> QED
      BY <2>3, <3>1, <3>2, <3>3, <3>4 DEF IssuerHolds, IssuerAt, Clean, Configured
  <2> QED
    BY <2>1, <2>2, <2>3 DEF WorkerEffect
<1>4. ASSUME NEW c \in Cert
      PROVE  CertHolds(c)'
  <2> SUFFICES ASSUME Clean(c)'
               PROVE  loaded'[c] # None =>
                        \/ Configured(c)'
                        \/ \E v \in Worker : worker'[v].pc = "unload" /\ worker'[v].id = c
    BY DEF CertHolds, At
  <2>1. Clean(c) /\ CertHolds(c)
    BY <1>1 DEF SafeInv
  <2>2. ASSUME loaded'[c] # None, ~Configured(c)'
        PROVE  \E v \in Worker : worker'[v].pc = "unload" /\ worker'[v].id = c
    <3>1. loaded[c] # None
      BY <2>2 DEF WorkerEffect
    <3>2. CASE Configured(c)
      BY <2>2, <3>2 DEF WorkerEffect, Configured, At
    <3>3. CASE ~Configured(c)
      <4>1. PICK v \in Worker : worker[v].pc = "unload" /\ worker[v].id = c
        BY <2>1, <3>1, <3>3 DEF CertHolds, At
      <4>2. v # w
        BY <2>2, <4>1 DEF WorkerEffect, At
      <4>3. worker'[v] = worker[v]
        BY <4>1, <4>2, AlikeFields DEF WorkerEffect, TypeInv, WorkersOK
      <4> QED
        BY <4>1, <4>3
    <3> QED
      BY <3>2, <3>3
  <2> QED
    BY <2>2
<1>5. WorkerHolds(w)' /\ ListsAgree'
  BY DEF WorkerEffect
<1> QED
  BY <1>2, <1>3, <1>4, <1>5 DEF SafeInv

LEMMA IssuerStepSafe ==
  ASSUME TypeInv, SafeInv, NEW i \in Issuer, IssuerEffect(i)
  PROVE  SafeInv'
<1>1. /\ \A c : c \notin Raced' => c \notin Raced /\ c \notin Contended
      /\ \A c : Clean(c)' => Clean(c) /\ c \notin Contended
  BY MarksStay DEF IssuerEffect
<1>2. ASSUME NEW v \in Worker
      PROVE  WorkerHolds(v)'
  <2> DEFINE x == worker[v]
             y == worker'[v]
  <2>1. x \in WorkerState /\ Alike(x, y)
    BY <1>2 DEF TypeInv, WorkersOK, IssuerEffect
  <2>2. /\ y \in WorkerState /\ y.pc = x.pc /\ y.on = x.on
        /\ x.pc \notin {"renew", "issue", "refused", "check", "synced", "loadSynced"} => y = x
        /\ x.pc \in {"synced", "loadSynced"} => y.id = x.id /\ (y.ref # None => x.ref # None)
    BY <2>1, AlikeFields
  <2>3. IdsOf(certs) \subseteq IdsOf(certs') /\ bound' = bound /\ WorkerHolds(v)
    BY DEF IssuerEffect, SafeInv
  <2>4. \A c : c \notin Raced' \cup hurt' => Clean(c)
    BY <1>1 DEF Clean
  <2>5. CASE x.pc \in Uncommitted
    BY <1>2, <2>2, <2>5, UncommittedHolds
  <2>6. CASE x.pc \in {"synced", "loadSynced"}
    BY <2>2, <2>3, <2>4, <2>6 DEF WorkerHolds, At, Clean, Configured
  <2>7. CASE x.pc \notin Uncommitted /\ x.pc \notin {"synced", "loadSynced"}
    <3>1. y = x
      BY <2>2, <2>7 DEF Uncommitted
    <3> QED
      BY <2>3, <2>4, <2>7, <3>1 DEF WorkerHolds, At, Clean, Configured
  <2> QED
    BY <2>5, <2>6, <2>7
<1>3. ASSUME NEW j \in Issuer, j # i
      PROVE  IssuerHolds(j)'
  <2>1. issuer'[j] = issuer[j]
    BY <1>3 DEF IssuerEffect
  <2>2. CASE issuer[j].pc = "idle"
    BY <2>1, <2>2 DEF IssuerHolds, IssuerAt
  <2>3. CASE issuer[j].pc # "idle"
    <3>1. PICK c \in Cert : c = issuer[j].entry.id /\ c \in issuer[j].on
      BY <2>3, IssuerShapes DEF TypeInv
    <3>2. c \notin Raced' => /\ c \notin Raced /\ c \notin issuer[i].on
                             /\ loaded'[c] = loaded[c]
                             /\ (Configured(c) => c \in IdsOf(certs'))
      BY <1>1, <1>3, <3>1, ContendedFacts DEF IssuerEffect, Configured
    <3>3. c \notin Raced' \cup hurt' => Clean(c)
      BY <1>1 DEF Clean
    <3>4. IssuerHolds(j)
      BY DEF SafeInv
    <3> QED
      BY <2>1, <2>3, <3>1, <3>2, <3>3, <3>4 DEF IssuerHolds, IssuerAt, Clean, Configured
  <2> QED
    BY <2>2, <2>3
<1>4. ASSUME NEW c \in Cert
      PROVE  CertHolds(c)'
  <2> SUFFICES ASSUME Clean(c)'
               PROVE  loaded'[c] # None =>
                        \/ Configured(c)'
                        \/ \E v \in Worker : worker'[v].pc = "unload" /\ worker'[v].id = c
    BY DEF CertHolds, At
  <2>1. Clean(c) /\ CertHolds(c) /\ (Configured(c) => Configured(c)')
    BY <1>1 DEF SafeInv, IssuerEffect, Configured
  <2>2. ASSUME loaded'[c] # None, ~Configured(c)'
        PROVE  \E v \in Worker : worker'[v].pc = "unload" /\ worker'[v].id = c
    <3>1. loaded[c] # None
      BY <2>2 DEF IssuerEffect
    <3>2. PICK v \in Worker : worker[v].pc = "unload" /\ worker[v].id = c
      BY <2>1, <2>2, <3>1 DEF CertHolds, At
    <3>3. worker'[v] = worker[v]
      BY <3>2, AlikeFields DEF IssuerEffect, TypeInv, WorkersOK
    <3> QED
      BY <3>2, <3>3
  <2> QED
    BY <2>2
<1>5. IssuerHolds(i)' /\ ListsAgree'
  BY DEF IssuerEffect
<1> QED
  BY <1>2, <1>3, <1>4, <1>5 DEF SafeInv

(* A step that leaves the list, the TLS table and the goroutines alone. *)
LEMMA AsideSafe ==
  ASSUME TypeInv, SafeInv, UNCHANGED <<configVars, loaded, worker, issuer>>,
         raced' = raced \cup Contended, hurt \subseteq hurt',
         \A w \in Worker : /\ worker[w].pc \in {"delete", "dropEntry"}
                           /\ worker[w].id \notin hurt' /\ worker[w].id \in bound'
                           => worker[w].id \in bound
  PROVE  SafeInv'
<1>1. \A c : c \notin Raced' => c \notin Raced
  BY MarksStay
<1>2. \A c : c \notin Raced' \cup hurt' => Clean(c)
  BY <1>1 DEF Clean
<1>3. certs' = certs /\ saved' = saved /\ worker' = worker /\ issuer' = issuer
      /\ loaded' = loaded
  BY DEF configVars
<1>4. ListsAgree'
  BY <1>3 DEF SafeInv, ListsAgree, Configured
<1>5. ASSUME NEW w \in Worker
      PROVE  WorkerHolds(w)'
  <2>1. WorkerHolds(w)
    BY DEF SafeInv
  <2> QED
    BY <1>2, <1>3, <2>1 DEF WorkerHolds, At, Clean, Configured
<1>6. ASSUME NEW i \in Issuer
      PROVE  IssuerHolds(i)'
  <2>1. IssuerHolds(i)
    BY DEF SafeInv
  <2> QED
    BY <1>1, <1>2, <1>3, <2>1 DEF IssuerHolds, IssuerAt, Clean, Configured
<1>7. ASSUME NEW c \in Cert
      PROVE  CertHolds(c)'
  <2>1. CertHolds(c)
    BY DEF SafeInv
  <2> QED
    BY <1>2, <1>3, <2>1 DEF CertHolds, At, Clean, Configured
<1> QED
  BY <1>4, <1>5, <1>6, <1>7 DEF SafeInv

LEMMA BusyOn ==
  ASSUME TypeInv, NEW w \in Worker, worker[w].pc \in {"delete", "dropEntry"}
  PROVE  worker[w].id \in Busy
<1>1. worker[w].id \in worker[w].on
  BY WorkerShapes DEF TypeInv, WorkersOK, DeleteState, DeletedState
<1> QED
  BY <1>1 DEF Busy

(* A restart finds the list in the file: the certificates are the same,    *)
(* and the table is made from it.                                          *)
LEMMA RestartSafe ==
  ASSUME TypeInv, SafeInv, Restart
  PROVE  SafeInv'
<1>1. /\ certs' = Slice(saved) /\ saved' = saved
      /\ loaded' = Loadable(Elements(Slice(saved)))
      /\ worker' = [w \in Worker |-> Idle] /\ issuer' = [i \in Issuer |-> Idle]
      /\ UNCHANGED <<disk, bound>>
      /\ raced' = raced \cup Contended /\ hurt \subseteq hurt'
  BY DEF Restart, Mark
<1>2. \A c : c \notin Raced' \cup hurt' => Clean(c)
  BY <1>1, MarksStay DEF Clean
<1>3. Slice(saved) \in SliceOf(Entry)
  BY SliceIn DEF TypeInv, ListsOK
<1>4. Elements(Slice(saved)) \in SUBSET Entry
  BY <1>3, SliceFacts DEF Elements
<1>5. \A c \in Cert : loaded'[c] # None => c \in IdsOf(certs')
  BY <1>1, <1>4, LoadableIn DEF TypeInv, IdsOf
<1>6. ListsAgree'
  BY <1>1 DEF ListsAgree, Configured
<1>7. ASSUME NEW w \in Worker
      PROVE  WorkerHolds(w)'
  BY <1>1, IdleIn, UncommittedHolds
<1>8. ASSUME NEW i \in Issuer
      PROVE  IssuerHolds(i)'
  BY <1>1 DEF IssuerHolds, IssuerAt, Idle
<1>9. ASSUME NEW c \in Cert
      PROVE  CertHolds(c)'
  BY <1>5 DEF CertHolds, Clean, Configured
<1> QED
  BY <1>6, <1>7, <1>8, <1>9 DEF SafeInv

LEMMA OutsideSafe ==
  ASSUME TypeInv, SafeInv, Outside
  PROVE  SafeInv'
<1>1. ASSUME NEW c \in Cert, Bind(c)
      PROVE  SafeInv'
  <2>1. /\ bound' = bound \cup {c}
        /\ raced' = raced \cup Contended /\ hurt' = hurt \cup ({c} \cap Busy)
        /\ UNCHANGED <<configVars, disk, tableVars, worker, issuer>>
    BY <1>1 DEF Bind, Mark
  <2>2. \A w \in Worker : /\ worker[w].pc \in {"delete", "dropEntry"}
                          /\ worker[w].id \notin hurt' /\ worker[w].id \in bound'
                          => worker[w].id \in bound
    BY <2>1, BusyOn
  <2> QED
    BY <2>1, <2>2, AsideSafe DEF tableVars
<1>2. ASSUME NEW c \in Cert, Release(c)
      PROVE  SafeInv'
  BY <1>2, AsideSafe DEF Release, Mark, tableVars
<1>4. ASSUME NEW c \in Cert, ToolWritesCrt(c) \/ ToolWritesKey(c)
      PROVE  SafeInv'
  BY <1>4, AsideSafe DEF ToolWritesCrt, ToolWritesKey, Mark, tableVars, outsideVars
<1>5. CASE RenewalDateComes
  BY <1>5, AsideSafe DEF RenewalDateComes, Mark, tableVars, outsideVars
<1>6. CASE ListChanges
  BY <1>6, AsideSafe DEF ListChanges, Mark, tableVars
<1> QED
  BY <1>1, <1>2, <1>4, <1>5, <1>6, RestartSafe, SyncInCert DEF Outside

LEMMA SafeInit == CertInit => SafeInv
<1> SUFFICES ASSUME CertInit PROVE SafeInv
  OBVIOUS
<1>1. TypeInv
  BY TypeInit
<1>2. certs = Slice(saved) /\ loaded = Loadable(Elements(certs)) /\ bound = {}
      /\ worker = [w \in Worker |-> Idle] /\ issuer = [i \in Issuer |-> Idle]
  BY DEF CertInit
<1>3. \A c \in Cert : loaded[c] # None => Configured(c)
  BY <1>1, <1>2, ElementIn, LoadableIn DEF TypeInv, Configured, IdsOf
<1> QED
  BY <1>2, <1>3 DEF SafeInv, ListsAgree, WorkerHolds, IssuerHolds, CertHolds, At, IssuerAt,
                    Configured, Idle

LEMMA StepIsSafe == TypeInv /\ SafeInv /\ [CertNext]_certVars => SafeInv'
<1> SUFFICES ASSUME TypeInv, SafeInv, [CertNext]_certVars PROVE SafeInv'
  OBVIOUS
<1>1. CASE UNCHANGED certVars
  BY <1>1 DEF certVars, SafeInv, ListsAgree, WorkerHolds, IssuerHolds, CertHolds, At, IssuerAt,
              Configured, Clean, Raced, Contended
<1>2. CASE CertNext
  BY <1>2, WorkerActs, IssuerActs, WorkerStepSafe, IssuerStepSafe, OutsideSafe DEF CertNext
<1> QED
  BY <1>1, <1>2

LEMMA Invariance == CertSpec => [](TypeInv /\ SafeInv)
<1>1. CertInit => TypeInv /\ SafeInv
  BY TypeInit, SafeInit
<1>2. TypeInv /\ SafeInv /\ [CertNext]_certVars => TypeInv' /\ SafeInv'
  BY StepKeepsTypes, StepIsSafe
<1> QED
  BY <1>1, <1>2, PTL DEF CertSpec

-----------------------------------------------------------------------------
(* The list is a slice of entries, the files, tables and locals have their *)
(* types at every step, and every pointer of a goroutine leads into the    *)
(* array of the list or keeps the entry it led to, however often the list  *)
(* is appended to and deleted from meanwhile (GetCertificate hands out     *)
(* pointers into config.Certs).                                            *)
THEOREM CertificateTypesAreCorrect == CertSpec => []TypeInv
  BY Invariance, PTL

(* TLS handshakes are not answered with a certificate that was deleted or  *)
(* never stored: who puts one into the table has it in the list, and who   *)
(* takes it from the list takes it from the table next.                    *)
THEOREM DeletedCertificatesAreNotServed == CertSpec => []ServedIsConfigured
<1>1. TypeInv /\ SafeInv => ServedIsConfigured
  <2> SUFFICES ASSUME TypeInv, SafeInv, NEW c \in Cert, Settled(c), loaded[c] # None
               PROVE  Configured(c)
    BY DEF ServedIsConfigured
  <2>1. Clean(c) /\ CertHolds(c)
    BY DEF Settled, Clean, SafeInv
  <2>2. ASSUME NEW w \in Worker, At(w, "unload"), worker[w].id = c
        PROVE  FALSE
    <3>1. c \in worker[w].on
      BY <2>2, WorkerShapes DEF TypeInv, WorkersOK, At, DeletedState
    <3> QED
      BY <3>1 DEF Settled, Busy
  <2> QED
    BY <2>1, <2>2 DEF CertHolds
<1> QED
  BY <1>1, Invariance, PTL

(* A certificate that goes is bound to no service when it goes:            *)
(* DeleteCertificate asks the services and the synchronisation unbinds     *)
(* them before the entry goes, and a restart finds the entry in the file.  *)
THEOREM RemovedCertificatesAreUnbound == CertSpec => RemovedIsUnbound
<1> DEFINE A == \A c \in Cert : Configured(c) /\ ~Configured(c)'
                                /\ c \notin (Raced \cup hurt)' => c \notin bound'
<1>1. ASSUME TypeInv, SafeInv, [CertNext]_certVars
      PROVE  A
  <2> SUFFICES ASSUME NEW c \in Cert, Configured(c), ~Configured(c)',
                      c \notin (Raced \cup hurt)'
               PROVE  c \notin bound'
    OBVIOUS
  <2>1. CertNext /\ Clean(c)' /\ c \in IdsOf(certs) \ IdsOf(certs')
    BY <1>1 DEF certVars, Configured, Clean
  <2>2. CASE \E i \in Issuer : IssuerStep(i) /\ UNCHANGED installation
    BY <1>1, <2>1, <2>2, IssuerActs DEF IssuerEffect
  <2>3. CASE \E w \in Worker : (Request(w) \/ BeginMaintenance(w) \/ WorkerStep(w))
                               /\ UNCHANGED installation
    BY <1>1, <2>1, <2>3, WorkerActs DEF WorkerEffect
  <2>4. CASE Outside
    <3>1. CASE Restart
      <4>1. certs' = Slice(saved) /\ hurt \subseteq hurt'
        BY <3>1 DEF Restart, Mark
      <4>2. c \notin hurt
        BY <2>1, <4>1 DEF Clean
      <4> QED
        BY <1>1, <2>1, <4>1, <4>2 DEF SafeInv, ListsAgree, Configured
    <3>2. CASE ~Restart
      <4>1. certs' = certs
        BY <2>4, <3>2 DEF Outside, Bind, Release, ToolWritesCrt, ToolWritesKey,
                          RenewalDateComes, ListChanges, configVars
      <4> QED
        BY <2>1, <4>1
    <3> QED
      BY <3>1, <3>2
  <2> QED
    BY <2>1, <2>2, <2>3, <2>4 DEF CertNext
<1>2. TypeInv /\ SafeInv /\ [CertNext]_certVars => [A]_certVars
  BY <1>1
<1> QED
  BY <1>2, Invariance, PTL DEF CertSpec, RemovedIsUnbound

(* An issue that ends with success on the progress page is the one that is *)
(* served when it ends.                                                    *)
THEOREM SuccessfulIssueIsServed == CertSpec => SuccessIsServed
<1> DEFINE A == \A i \in Issuer :
                  LET e == issuer[i].entry
                  IN issuer[i] # Idle /\ issuer'[i] = Idle /\ crashes' = crashes
                     /\ progress'[e.id] = "success" /\ e.id \notin Raced
                       => loaded[e.id] = Served(e.terms, e.expires)
<1>1. ASSUME TypeInv, SafeInv, [CertNext]_certVars
      PROVE  A
  <2> SUFFICES ASSUME NEW i \in Issuer, issuer[i] # Idle, issuer'[i] = Idle, crashes' = crashes,
                      progress'[issuer[i].entry.id] = "success",
                      issuer[i].entry.id \notin Raced
               PROVE  loaded[issuer[i].entry.id] = Served(issuer[i].entry.terms,
                                                          issuer[i].entry.expires)
    OBVIOUS
  <2>1. CertNext
    BY <1>1 DEF certVars
  <2>2. CASE \E j \in Issuer : IssuerStep(j) /\ UNCHANGED installation
    <3>1. PICK j \in Issuer : IssuerEffect(j)
      BY <1>1, <2>2, IssuerActs
    <3>2. j = i
      BY <3>1 DEF IssuerEffect
    <3>3. IssuerAt(i, "report") /\ issuer[i].verdict = "success"
      BY <3>1, <3>2 DEF IssuerEffect
    <3> QED
      BY <1>1, <3>3 DEF SafeInv, IssuerHolds
  <2>3. CASE \E w \in Worker : (Request(w) \/ BeginMaintenance(w) \/ WorkerStep(w))
                               /\ UNCHANGED installation
    <3>1. PICK w \in Worker : WorkerEffect(w)
      BY <1>1, <2>3, WorkerActs
    <3> QED
      BY <3>1 DEF WorkerEffect, Idle
  <2>4. CASE Outside
    <3>1. ~Restart
      <4>1. crashes \in Nat
        BY <1>1 DEF TypeInv, OutsideOK
      <4> QED
        BY <4>1 DEF Restart
    <3>2. issuer' = issuer
      BY <2>4, <3>1 DEF Outside, Bind, Release, ToolWritesCrt, ToolWritesKey,
                        RenewalDateComes, ListChanges
    <3> QED
      BY <3>2
  <2> QED
    BY <2>1, <2>2, <2>3, <2>4 DEF CertNext
<1>2. TypeInv /\ SafeInv /\ [CertNext]_certVars => [A]_certVars
  BY <1>1
<1> QED
  BY <1>2, Invariance, PTL DEF CertSpec, SuccessIsServed

-----------------------------------------------------------------------------
(* What the four places tell of a certificate between the steps            *)

(* A list has the certificate c at most once. *)
Single(s, c) ==
  \A i, j \in 1 .. s.len : s.cells[i].id = c /\ s.cells[j].id = c => i = j
SameIssue(x, y) == x.source = y.source /\ x.expires = y.expires
PairOf(e) == [crt |-> e.expires, key |-> e.expires]

(* The list in memory and the one in the file tell of the same issue. *)
ListHolds(c) ==
  /\ Single(certs, c) /\ Single(Slice(saved), c)
  /\ Configured(c) => SameIssue(Element(certs, c), Element(Slice(saved), c))
  /\ c \in SyncCert /\ Configured(c) => Element(certs, c).source = "file_sync"

(* The files are those of the entry, and so is what is served. *)
Backed(c) ==
  LET e == Element(certs, c)
  IN Configured(c) /\ e.source # "file_sync" => e.expires # None /\ disk[c] = PairOf(e)
Shown(c) ==
  LET e == Element(certs, c)
  IN Configured(c) /\ e.source # "file_sync" /\ (e.source = "acme" \/ e.terms # SelfSigned) =>
       loaded[c] # None /\ loaded[c].issue = e.expires

(* Who is between two steps that make the places differ. *)
Writing(w) == worker[w].pc \in {"writeCrt", "writeKey", "add", "update", "load"}
HalfWay(w, c) ==
  (Writing(w) /\ worker[w].entry.id = c) \/ (At(w, "delete") /\ worker[w].id = c)
Reloading(w) == worker[w].pc \in {"reload", "swap"}
Issuing(i) == issuer[i].pc \in {"writeCrt", "writeKey", "find", "add", "update", "load"}
Renews(w) == worker[w].pc \in {"renew", "issue", "refused"}
IssuesFor(i, c) == issuer[i] # Idle /\ issuer[i].entry.id = c
Between(c) ==
  (\E w \in Worker : HalfWay(w, c)) \/ \E i \in Issuer : Issuing(i) /\ IssuesFor(i, c)

FilesHold(c) ==
  /\ Between(c) \/ Backed(c)
  /\ Between(c) \/ Shown(c) \/ \E w \in Worker : Reloading(w)

(* An identifier that was not given out belongs to nothing. *)
UnusedHolds(c) ==
  c \in unused => /\ ~Configured(c)
                  /\ \A w \in Worker : ~(Writing(w) /\ worker[w].entry.id = c)
                  /\ \A i \in Issuer : ~IssuesFor(i, c)

(* What is known of an entry e on its way to files, list and table. *)
DraftHolds(pc, e, c) ==
  /\ e.source # "file_sync" /\ e.expires # None /\ c \notin SyncCert
  /\ pc = "writeKey" => disk[c].crt = e.expires
  /\ pc \in {"find", "add", "update", "load"} => disk[c] = PairOf(e)
  /\ pc = "add" => ~Configured(c)
  /\ pc = "load" => Configured(c) /\ SameIssue(e, Element(certs, c))

StoringHolds(w, c) ==
  Writing(w) /\ worker[w].entry.id = c =>
    /\ DraftHolds(worker[w].pc, worker[w].entry, c)
    /\ worker[w].entry.source = "imported"
    /\ worker[w].serves = worker[w].entry.expires \/ worker[w].entry.terms = SelfSigned
    /\ At(w, "load") => worker[w].entry.terms = Element(certs, c).terms
    /\ worker[w].pc \in {"writeCrt", "writeKey"} /\ worker[w].then = "add" => ~Configured(c)

(* A copy of the list, or of an entry, tells of the issue in the list. *)
Copied(todo, c) ==
  \A e \in todo : e.id = c /\ Configured(c) =>
                    e.source = "acme" /\ SameIssue(e, Element(certs, c))
EditHolds(w, c) ==
  At(w, "edit") /\ worker[w].entry.id = c /\ Configured(c) =>
    SameIssue(worker[w].entry, Element(certs, c))
SwapHolds(w, c) ==
  At(w, "swap") /\ Configured(c) /\ Element(certs, c).source # "file_sync" =>
    worker[w].table[c] # None /\ worker[w].table[c].issue = Element(certs, c).expires
TodoHolds(w, c) ==
  /\ At(w, "renewDue") => Copied(worker[w].todo, c)
  /\ Renews(w) /\ worker[w].back.pc = "renewDue" => Copied(worker[w].back.todo, c)
RenewalHolds(w, c) ==
  Renews(w) /\ worker[w].entry.id = c =>
    /\ Configured(c) /\ Element(certs, c).source = "acme"
    /\ SameIssue(worker[w].entry, Element(certs, c))
    /\ ~At(w, "refused") => SameIssue(Deref(certs, worker[w].ref), Element(certs, c))
UnloadHolds(w, c) == At(w, "unload") /\ worker[w].id = c => ~Configured(c)
SyncedHolds(w, c) ==
  At(w, "synced") /\ worker[w].id = c =>
    IF worker[w].ref = None THEN ~Configured(c)
    ELSE SameIssue(Deref(certs, worker[w].ref), Element(certs, c))

LocalsHold(w, c) ==
  /\ StoringHolds(w, c) /\ EditHolds(w, c) /\ SwapHolds(w, c) /\ TodoHolds(w, c)
  /\ RenewalHolds(w, c) /\ UnloadHolds(w, c) /\ SyncedHolds(w, c)

IssueHolds(i, c) ==
  IssuesFor(i, c) /\ ~IssuerAt(i, "report") =>
    /\ issuer[i].entry.source = "acme" /\ c \notin SyncCert
    /\ Configured(c) => Element(certs, c).source = "acme"
    /\ issuer[i].pc \in {"obtain", "failed"} /\ Configured(c) =>
         issuer[i].entry.expires = Element(certs, c).expires
    /\ Issuing(i) => DraftHolds(issuer[i].pc, issuer[i].entry, c)

(* While no two workers ever ran at once, a pointer leads to the entry it  *)
(* was made for, and a worker is registered at what it still has to do.    *)
PointsTo(p, c) ==
  IF p.kept THEN p.element.id = c ELSE p.at \in 1 .. certs.len /\ certs.cells[p.at].id = c
Follows(w) ==
  /\ worker[w].pc \in {"renew", "issue"} => PointsTo(worker[w].ref, worker[w].entry.id)
  /\ worker[w].pc \in {"check", "synced"} /\ worker[w].ref # None =>
       PointsTo(worker[w].ref, worker[w].id)
Registered(w) ==
  /\ At(w, "renewDue") => IdSet(worker[w].todo) \subseteq worker[w].on
  /\ Renews(w) =>
       /\ worker[w].entry.id \in worker[w].on /\ worker[w].back.on \subseteq worker[w].on
       /\ worker[w].back.pc = "renewDue" =>
            IdSet(worker[w].back.todo) \subseteq worker[w].back.on
  /\ At(w, "sync") => worker[w].on \subseteq SyncCert
  /\ worker[w].pc \in {"synced", "loadSynced"} =>
       worker[w].id \in SyncCert /\ worker[w].back.on \subseteq SyncCert
OneAtATime == Cert \ Raced # {}

StoreHolds(c) ==
  /\ ListHolds(c) /\ FilesHold(c) /\ UnusedHolds(c)
  /\ \A w \in Worker : LocalsHold(w, c)
  /\ \A i \in Issuer : IssueHolds(i, c)

StoreInv ==
  /\ unused \subseteq installation.fresh
  /\ OneAtATime => \A w \in Worker : Follows(w) /\ Registered(w)
  /\ \A c \in Cert : Clean(c) => StoreHolds(c)

-----------------------------------------------------------------------------
(* Entries a list has once, and what the operations on lists make of them  *)

LEMMA OnlyElement ==
  ASSUME NEW E, NEW s \in SliceOf(E), NEW c, Single(s, c), NEW i \in 1 .. s.len,
         s.cells[i].id = c
  PROVE  c \in IdsOf(s) /\ IndexOf(s, c) = i /\ Element(s, c) = s.cells[i]
<1>1. c \in IdsOf(s)
  BY DEF IdsOf, IdSet, Elements
<1>2. IndexOf(s, c) \in 1 .. s.len /\ s.cells[IndexOf(s, c)].id = c
  BY <1>1, IndexOfFirst
<1> QED
  BY <1>1, <1>2 DEF Single, Element

LEMMA SetElementOnce ==
  ASSUME NEW E, NEW s \in SliceOf(E), NEW t \in IdsOf(s), NEW e \in E, e.id = t,
         NEW c, Single(s, c), NEW r, r = SetElement(s, IndexOf(s, t), e)
  PROVE  /\ Single(r, c)
         /\ c \in IdsOf(r) <=> c \in IdsOf(s)
         /\ c \in IdsOf(s) => Element(r, c) = IF c = t THEN e ELSE Element(s, c)
         /\ r.len = s.len /\ \A k \in 1 .. s.len : r.cells[k].id = s.cells[k].id
<1> DEFINE i == IndexOf(s, t)
<1>1. i \in 1 .. s.len /\ s.cells[i].id = t
  BY IndexOfFirst
<1>2. r = SetElement(s, i, e)
  OBVIOUS
<1> HIDE DEF i
<1>3. /\ r \in SliceOf(E) /\ r.len = s.len /\ IdsOf(r) = IdsOf(s)
      /\ \A k \in 1 .. Len(s.cells) : r.cells[k] = IF k = i THEN e ELSE s.cells[k]
  BY <1>1, <1>2, SetElementIn, SetElementIds
<1>4. s.len \in Nat /\ Len(s.cells) \in Nat /\ s.len <= Len(s.cells)
  BY SliceFacts
<1>5. \A k \in 1 .. s.len : r.cells[k] = IF k = i THEN e ELSE s.cells[k]
  BY <1>3, <1>4
<1>6. \A k \in 1 .. s.len : r.cells[k].id = s.cells[k].id
  BY <1>1, <1>5
<1>7. Single(r, c)
  BY <1>3, <1>6 DEF Single
<1>8. ASSUME c \in IdsOf(s)
      PROVE  Element(r, c) = IF c = t THEN e ELSE Element(s, c)
  <2>1. PICK k : k = IndexOf(s, c)
    OBVIOUS
  <2>2. k \in 1 .. s.len /\ s.cells[k].id = c /\ Element(s, c) = s.cells[k]
    BY <1>8, <2>1, IndexOfFirst DEF Element
  <2>3. Element(r, c) = r.cells[k]
    BY <1>3, <1>6, <1>7, <2>2, OnlyElement
  <2>4. k = i <=> c = t
    BY <1>1, <2>2 DEF Single
  <2> QED
    BY <1>5, <2>2, <2>3, <2>4
<1> QED
  BY <1>3, <1>6, <1>7, <1>8

LEMMA AppendedOnce ==
  ASSUME NEW E, NEW s \in SliceOf(E), NEW e \in E, NEW c, Single(s, c),
         c # e.id \/ c \notin IdsOf(s), NEW r, r = Appended(s, e)
  PROVE  /\ Single(r, c)
         /\ c \in IdsOf(r) <=> c \in IdsOf(s) \/ c = e.id
         /\ c \in IdsOf(r) => Element(r, c) = IF c = e.id THEN e ELSE Element(s, c)
<1>1. /\ r \in SliceOf(E) /\ r.len = s.len + 1 /\ s.len \in Nat
      /\ \A k \in 1 .. s.len : r.cells[k] = s.cells[k]
      /\ r.cells[s.len + 1] = e /\ IdsOf(r) = IdsOf(s) \cup {e.id}
  <2>1. s.len \in Nat
    BY SliceFacts
  <2>2. /\ r \in SliceOf(E) /\ r.len = s.len + 1 /\ r.cells[s.len + 1] = e
        /\ \A k \in 1 .. s.len : r.cells[k] = s.cells[k]
    BY AppendedIn
  <2>3. IdsOf(r) = IdsOf(s) \cup {e.id}
    BY AppendedIds
  <2> QED
    BY <2>1, <2>2, <2>3
<1>2. \A k \in 1 .. r.len : k \in 1 .. s.len \/ k = s.len + 1
  BY <1>1
<1>3. Single(r, c)
  <2>1. c = e.id => \A k \in 1 .. s.len : s.cells[k].id # c
    BY DEF IdsOf, IdSet, Elements
  <2> SUFFICES ASSUME NEW i \in 1 .. r.len, NEW j \in 1 .. r.len,
                      r.cells[i].id = c, r.cells[j].id = c
               PROVE  i = j
    BY DEF Single
  <2> QED
    BY <1>1, <1>2, <2>1 DEF Single
<1>4. CASE c = e.id
  BY <1>1, <1>3, <1>4, OnlyElement
<1>5. ASSUME c # e.id, c \in IdsOf(s)
      PROVE  Element(r, c) = Element(s, c)
  <2>1. PICK k : k = IndexOf(s, c)
    OBVIOUS
  <2>2. k \in 1 .. s.len /\ s.cells[k].id = c /\ Element(s, c) = s.cells[k]
    BY <1>5, <2>1, IndexOfFirst DEF Element
  <2>3. k \in 1 .. r.len /\ r.cells[k] = s.cells[k]
    BY <1>1, <2>2
  <2> QED
    BY <1>1, <1>3, <2>2, <2>3, OnlyElement
<1> QED
  BY <1>1, <1>3, <1>4, <1>5

LEMMA RemovedOnce ==
  ASSUME NEW E, NEW s \in SliceOf(E), NEW t \in IdsOf(s), NEW c, Single(s, c),
         NEW r, r = Remove(s, IndexOf(s, t))
  PROVE  /\ Single(r, c)
         /\ c \in IdsOf(r) <=> c \in IdsOf(s) /\ c # t
         /\ c \in IdsOf(r) => Element(r, c) = Element(s, c)
<1> DEFINE i == IndexOf(s, t)
<1>1. i \in 1 .. s.len /\ s.cells[i].id = t
  BY IndexOfFirst
<1>2. r = Remove(s, i)
  OBVIOUS
<1> HIDE DEF i
<1>3. /\ r \in SliceOf(E) /\ r.len = s.len - 1 /\ s.len \in Nat
      /\ \A k \in 1 .. s.len - 1 : r.cells[k] = IF k < i THEN s.cells[k] ELSE s.cells[k + 1]
      /\ IdsOf(r) \subseteq IdsOf(s) /\ IdsOf(s) \ {t} \subseteq IdsOf(r)
  BY <1>1, <1>2, RemoveIn, RemoveIds, SliceFacts
<1>4. ASSUME NEW k \in 1 .. r.len
      PROVE  \E m \in 1 .. s.len : m # i /\ r.cells[k] = s.cells[m] /\ m = IF k < i THEN k ELSE k + 1
  BY <1>1, <1>3
<1>5. Single(r, c)
  <2> SUFFICES ASSUME NEW k \in 1 .. r.len, NEW l \in 1 .. r.len,
                      r.cells[k].id = c, r.cells[l].id = c
               PROVE  k = l
    BY DEF Single
  <2>1. PICK x \in 1 .. s.len : r.cells[k] = s.cells[x] /\ x = IF k < i THEN k ELSE k + 1
    BY <1>4
  <2>2. PICK y \in 1 .. s.len : r.cells[l] = s.cells[y] /\ y = IF l < i THEN l ELSE l + 1
    BY <1>4
  <2>3. x = y
    BY <2>1, <2>2 DEF Single
  <2> QED
    BY <1>1, <1>3, <2>1, <2>2, <2>3
<1>6. ASSUME c \in IdsOf(r)
      PROVE  c # t /\ Element(r, c) = Element(s, c)
  <2>1. PICK k : k = IndexOf(r, c)
    OBVIOUS
  <2>2. k \in 1 .. r.len /\ r.cells[k].id = c /\ Element(r, c) = r.cells[k]
    BY <1>3, <1>6, <2>1, IndexOfFirst DEF Element
  <2>3. PICK m \in 1 .. s.len : m # i /\ r.cells[k] = s.cells[m]
    BY <1>4, <2>2
  <2>4. Element(s, c) = s.cells[m]
    BY <2>2, <2>3, OnlyElement
  <2> QED
    BY <1>1, <2>2, <2>3, <2>4 DEF Single
<1> QED
  BY <1>3, <1>5, <1>6

(* What is read back from the file is what was in memory. *)
LEMMA ListedOnce ==
  ASSUME NEW E, NEW s \in SliceOf(E), NEW c, Single(s, c)
  PROVE  /\ Single(Slice(Listed(s)), c)
         /\ c \in IdsOf(s) => Element(Slice(Listed(s)), c) = Element(s, c)
<1> DEFINE r == Slice(Listed(s))
<1>1. s.cells \in Seq(E) /\ s.len \in Nat /\ s.len <= Len(s.cells)
  BY SliceFacts
<1>2. r \in SliceOf(E)
  BY ListedIn, SliceIn
<1>3. r.len = s.len /\ \A k \in 1 .. s.len : r.cells[k] = s.cells[k]
  BY <1>1 DEF Slice, Listed
<1> HIDE DEF r
<1>4. Single(r, c)
  BY <1>3 DEF Single
<1>5. ASSUME c \in IdsOf(s)
      PROVE  Element(r, c) = Element(s, c)
  <2>1. PICK k : k = IndexOf(s, c)
    OBVIOUS
  <2>2. k \in 1 .. s.len /\ s.cells[k].id = c /\ Element(s, c) = s.cells[k]
    BY <1>5, <2>1, IndexOfFirst DEF Element
  <2> QED
    BY <1>2, <1>3, <1>4, <2>2, OnlyElement
<1> QED
  BY <1>4, <1>5 DEF r

-----------------------------------------------------------------------------
(* What the operations on the list do to a certificate that is in it once  *)

LEMMA SavedOnce ==
  ASSUME ListsOK, certs' \in SliceOf(Entry), NEW t, Stored(t), NEW c \in Cert, c \notin hurt',
         ListHolds(c), Single(certs', c),
         c # t => /\ c \in IdsOf(certs') => c \in IdsOf(certs)
                  /\ c \in IdsOf(certs') => Element(certs', c) = Element(certs, c),
         c \in SyncCert /\ c \in IdsOf(certs') => Element(certs', c).source = "file_sync"
  PROVE  ListHolds(c)'
<1>1. CASE saved' = Listed(certs')
  <2>1. /\ Single(Slice(saved'), c)
        /\ c \in IdsOf(certs') => Element(Slice(saved'), c) = Element(certs', c)
    BY <1>1, ListedOnce
  <2> QED
    BY <2>1 DEF ListHolds, Configured, SameIssue
<1>2. CASE UNCHANGED saved /\ c # t
  BY <1>2 DEF ListHolds, Configured, SameIssue
<1> QED
  BY <1>1, <1>2 DEF Stored

LEMMA StaysOnce ==
  ASSUME UNCHANGED configVars, NEW c \in Cert, ListHolds(c)
  PROVE  ListHolds(c)'
  BY DEF ListHolds, Configured, SameIssue, configVars

LEMMA UpdatedOnce ==
  ASSUME ListsOK, NEW e \in Entry, Updated(e), NEW c \in Cert, c \notin hurt', ListHolds(c),
         c \in SyncCert /\ c = e.id /\ Configured(c) => e.source = "file_sync"
  PROVE  /\ ListHolds(c)' /\ (Configured(c)' <=> Configured(c))
         /\ Configured(c) => Element(certs', c) = IF c = e.id THEN e ELSE Element(certs, c)
<1>1. CASE Configured(e.id)
  <2>1. certs \in SliceOf(Entry) /\ e.id \in IdsOf(certs) /\ Single(certs, c)
    BY <1>1 DEF ListsOK, Configured, ListHolds
  <2>2. certs' = SetElement(certs, IndexOf(certs, e.id), e) /\ Stored(e.id)
    BY <1>1 DEF Updated
  <2>3. /\ Single(certs', c) /\ (c \in IdsOf(certs') <=> c \in IdsOf(certs))
        /\ c \in IdsOf(certs) => Element(certs', c) = IF c = e.id THEN e ELSE Element(certs, c)
    BY <2>1, <2>2, SetElementOnce
  <2>4. certs' \in SliceOf(Entry)
    <3>1. IndexOf(certs, e.id) \in 1 .. certs.len
      BY <2>1, IndexOfFirst
    <3> QED
      BY <2>1, <2>2, <3>1, SetElementIn
  <2>5. c \in SyncCert /\ c \in IdsOf(certs') => Element(certs', c).source = "file_sync"
    BY <2>3 DEF ListHolds, Configured
  <2>6. ListHolds(c)'
    BY <2>2, <2>3, <2>4, <2>5, SavedOnce
  <2> QED
    BY <2>3, <2>6 DEF Configured
<1>2. CASE ~Configured(e.id)
  <2>1. UNCHANGED configVars
    BY <1>2 DEF Updated
  <2> QED
    BY <1>2, <2>1, StaysOnce DEF Configured, configVars
<1> QED
  BY <1>1, <1>2

LEMMA AddedOnce ==
  ASSUME ListsOK, NEW e \in Entry, Added(e), NEW c \in Cert, c \notin hurt', ListHolds(c),
         c = e.id => ~Configured(c),
         c \in SyncCert /\ c = e.id => e.source = "file_sync"
  PROVE  /\ ListHolds(c)' /\ (Configured(c)' <=> Configured(c) \/ c = e.id)
         /\ Configured(c)' => Element(certs', c) = IF c = e.id THEN e ELSE Element(certs, c)
<1>1. certs \in SliceOf(Entry) /\ Single(certs, c)
  BY DEF ListsOK, ListHolds
<1>2. certs' = Appended(certs, e) /\ Stored(e.id)
  BY DEF Added
<1>3. /\ Single(certs', c) /\ (c \in IdsOf(certs') <=> c \in IdsOf(certs) \/ c = e.id)
      /\ c \in IdsOf(certs') => Element(certs', c) = IF c = e.id THEN e ELSE Element(certs, c)
  BY <1>1, <1>2, AppendedOnce DEF Configured
<1>4. certs' \in SliceOf(Entry)
  BY <1>1, <1>2, AppendedIn
<1>5. c \in SyncCert /\ c \in IdsOf(certs') => Element(certs', c).source = "file_sync"
  BY <1>3 DEF ListHolds, Configured
<1>6. ListHolds(c)'
  BY <1>2, <1>3, <1>4, <1>5, SavedOnce
<1> QED
  BY <1>3, <1>6 DEF Configured

LEMMA DeletedOnce ==
  ASSUME ListsOK, NEW t, Deleted(t), NEW c \in Cert, c \notin hurt', ListHolds(c)
  PROVE  /\ ListHolds(c)' /\ (Configured(c)' <=> Configured(c) /\ c # t)
         /\ Configured(c)' => Element(certs', c) = Element(certs, c)
<1>1. CASE Configured(t)
  <2>1. certs \in SliceOf(Entry) /\ t \in IdsOf(certs) /\ Single(certs, c)
    BY <1>1 DEF ListsOK, Configured, ListHolds
  <2>2. certs' = Remove(certs, IndexOf(certs, t)) /\ Stored(t)
    BY <1>1 DEF Deleted
  <2>3. /\ Single(certs', c) /\ (c \in IdsOf(certs') <=> c \in IdsOf(certs) /\ c # t)
        /\ c \in IdsOf(certs') => Element(certs', c) = Element(certs, c)
    BY <2>1, <2>2, RemovedOnce
  <2>4. certs' \in SliceOf(Entry)
    <3>1. IndexOf(certs, t) \in 1 .. certs.len
      BY <2>1, IndexOfFirst
    <3> QED
      BY <2>1, <2>2, <3>1, RemoveIn
  <2>5. c \in SyncCert /\ c \in IdsOf(certs') => Element(certs', c).source = "file_sync"
    BY <2>3 DEF ListHolds, Configured
  <2>6. ListHolds(c)'
    BY <2>2, <2>3, <2>4, <2>5, SavedOnce
  <2> QED
    BY <2>3, <2>6 DEF Configured
<1>2. CASE ~Configured(t)
  <2>1. UNCHANGED configVars
    BY <1>2 DEF Deleted
  <2> QED
    BY <1>2, <2>1, StaysOnce DEF Configured, configVars
<1> QED
  BY <1>1, <1>2

(* The status is written into the entry t of the list. *)
LEMMA RestatedOnce ==
  ASSUME ListsOK, NEW t \in IdsOf(certs), NEW f,
         f = [Element(certs, t) EXCEPT !.status = "renew"],
         certs' = SetElement(certs, IndexOf(certs, t), f), UNCHANGED saved,
         NEW c \in Cert, ListHolds(c)
  PROVE  /\ f \in Entry /\ f.id = t /\ SameIssue(f, Element(certs, t))
         /\ f.terms = Element(certs, t).terms
         /\ ListHolds(c)' /\ (Configured(c)' <=> Configured(c))
         /\ Configured(c) => Element(certs', c) = IF c = t THEN f ELSE Element(certs, c)
<1>1. certs \in SliceOf(Entry) /\ Single(certs, c)
  BY DEF ListsOK, ListHolds
<1>2. Element(certs, t) \in Entry /\ Element(certs, t).id = t
  BY ElementIn
<1>3. /\ f \in Entry /\ f.id = t /\ SameIssue(f, Element(certs, t))
      /\ f.terms = Element(certs, t).terms
  BY <1>2 DEF Entry, SameIssue
<1>4. /\ Single(certs', c) /\ (c \in IdsOf(certs') <=> c \in IdsOf(certs))
      /\ c \in IdsOf(certs) => Element(certs', c) = IF c = t THEN f ELSE Element(certs, c)
  <2>1. ASSUME NEW g \in Entry, g.id = t, certs' = SetElement(certs, IndexOf(certs, t), g)
        PROVE  /\ Single(certs', c) /\ (c \in IdsOf(certs') <=> c \in IdsOf(certs))
               /\ c \in IdsOf(certs) =>
                    Element(certs', c) = IF c = t THEN g ELSE Element(certs, c)
    BY <1>1, <2>1, SetElementOnce
  <2> QED
    BY <1>3, <2>1
<1>5. ListHolds(c)'
  BY <1>3, <1>4 DEF ListHolds, Configured, SameIssue
<1> QED
  BY <1>3, <1>4, <1>5 DEF Configured

-----------------------------------------------------------------------------
(* What a step of a worker may do to a certificate that stays clean        *)

EntryKept(c) ==
  /\ Configured(c)' <=> Configured(c)
  /\ Configured(c) =>
       /\ SameIssue(Element(certs', c), Element(certs, c))
       /\ \/ Element(certs, c).source = "acme"
          \/ Element(certs', c).terms = Element(certs, c).terms
Kept(c) == EntryKept(c) /\ disk'[c] = disk[c] /\ loaded'[c] = loaded[c]

(* Either c goes on as it was, or w works on it and leaves it half way or  *)
(* with all places telling of one issue.                                   *)
FilesStep(w, c) ==
  \/ Kept(c) /\ (HalfWay(w, c) => HalfWay(w, c)') /\ (Reloading(w) => Reloading(w)')
  \/ /\ c \in worker[w].on
     /\ HalfWay(w, c)' \/ Backed(c)'
     /\ HalfWay(w, c)' \/ Shown(c)' \/ Reloading(w)'

StoreStep(w, c) ==
  /\ ListHolds(c)' /\ FilesStep(w, c)
  /\ c \in unused' => ~Configured(c)' /\ ~(Writing(w)' /\ worker'[w].entry.id = c)
  /\ c \in worker'[w].on => LocalsHold(w, c)'
  /\ \A i \in Issuer :
       \/ issuer'[i] = issuer[i]
       \/ /\ issuer[i] = Idle /\ issuer'[i].pc = "obtain" /\ IssueHolds(i, c)'
          /\ issuer'[i].entry.id = c => c \notin unused'

StoreEffect(w) ==
  /\ unused' \subseteq unused
  /\ worker[w] = Idle /\ worker'[w] = Idle => UNCHANGED <<configVars, disk, loaded, worker>>
  /\ OneAtATime' => Follows(w)' /\ Registered(w)'
  /\ \A c \in Cert : Clean(c)' => StoreStep(w, c)

LEMMA CleanBefore ==
  ASSUME StoreInv, raced' = raced \cup Contended, hurt \subseteq hurt',
         NEW c \in Cert, Clean(c)'
  PROVE  /\ StoreHolds(c) /\ c \notin hurt' /\ Clean(c) /\ c \notin Contended
         /\ OneAtATime /\ OneAtATime'
         /\ \A w \in Worker : Follows(w) /\ Registered(w)
<1>1. Clean(c) /\ c \notin Contended
  BY MarksStay
<1>2. OneAtATime /\ OneAtATime' /\ c \notin hurt'
  BY <1>1 DEF Clean, OneAtATime
<1> QED
  BY <1>1, <1>2 DEF StoreInv

LEMMA OnceBefore ==
  ASSUME StoreInv, raced' = raced \cup Contended, hurt \subseteq hurt', OneAtATime'
  PROVE  OneAtATime /\ \A w \in Worker : Follows(w) /\ Registered(w)
<1>1. OneAtATime
  BY MarksStay DEF OneAtATime
<1> QED
  BY <1>1 DEF StoreInv

LEMMA IdleStays ==
  ASSUME NEW x, NEW y, Alike(x, y)
  PROVE  x = Idle => y = Idle
  BY DEF Alike, Idle

(* While w works, no other worker does. *)
LEMMA OthersIdle ==
  ASSUME TypeInv, NEW w \in Worker, NEW v \in Worker, v # w, Alike(worker[v], worker'[v]),
         raced' = raced \cup Contended, hurt \subseteq hurt',
         NEW c \in Cert, c \notin Raced', worker[w] # Idle \/ worker'[w] # Idle
  PROVE  worker[v] = Idle /\ worker'[v] = Idle
<1>1. CASE worker[w] # Idle
  <2>1. worker[v] = Idle
    BY <1>1, MarksStay, ContendedFacts
  <2> QED
    BY <2>1, IdleStays
<1>2. CASE worker'[w] # Idle
  <2>1. c \notin Contended'
    BY DEF Raced
  <2>2. worker'[v] = Idle
    BY <1>2, <2>1 DEF Contended
  <2>3. worker[v] \in WorkerState
    BY DEF TypeInv, WorkersOK
  <2>4. worker[v].pc = "idle"
    BY <2>2, <2>3, AlikeFields DEF Idle
  <2>5. worker[v] = Idle
    BY <2>3, <2>4, WorkerShapes, IdleIsIdle
  <2> QED
    BY <2>2, <2>5
<1> QED
  BY <1>1, <1>2

(* Where a worker is not registered it holds nothing. *)
LEMMA LocalsElsewhere ==
  ASSUME NEW w \in Worker, NEW c \in Cert, worker'[w] \in WorkerState, Registered(w)',
         c \notin worker'[w].on
  PROVE  LocalsHold(w, c)'
<1>1. PICK x : x = worker'[w]
  OBVIOUS
<1>2. x \in WorkerState /\ c \notin x.on
  BY <1>1
<1>3. CASE x.pc \in {"writeCrt", "writeKey", "add", "update", "load"}
  <2>1. x.entry.id \in x.on
    BY <1>2, <1>3, WorkerShapes DEF WritingState
  <2> QED
    BY <1>1, <1>2, <1>3, <2>1
    DEF LocalsHold, StoringHolds, EditHolds, SwapHolds, TodoHolds, RenewalHolds, UnloadHolds,
        SyncedHolds, At, Renews, Writing
<1>4. CASE x.pc \in {"edit", "swap"}
  <2>1. x.on = Cert
    BY <1>2, <1>4, WorkerShapes DEF EditState, SwapState
  <2> QED
    BY <1>2, <2>1
<1>5. CASE x.pc = "renewDue"
  <2>1. IdSet(x.todo) \subseteq x.on
    BY <1>1, <1>5 DEF Registered, At
  <2>2. \A e \in x.todo : e.id # c
    BY <1>2, <2>1 DEF IdSet
  <2> QED
    BY <1>1, <1>5, <2>2
    DEF LocalsHold, StoringHolds, EditHolds, SwapHolds, TodoHolds, RenewalHolds, UnloadHolds,
        SyncedHolds, At, Renews, Writing, Copied
<1>6. CASE x.pc \in {"renew", "issue", "refused"}
  <2>1. /\ x.entry.id # c
        /\ x.back.pc = "renewDue" => \A e \in x.back.todo : e.id # c
    BY <1>1, <1>2, <1>6 DEF Registered, At, Renews, IdSet
  <2> QED
    BY <1>1, <1>6, <2>1
    DEF LocalsHold, StoringHolds, EditHolds, SwapHolds, TodoHolds, RenewalHolds, UnloadHolds,
        SyncedHolds, At, Renews, Writing, Copied
<1>7. CASE x.pc \in {"unload", "synced"}
  <2>1. x.id # c
    BY <1>2, <1>7, WorkerShapes DEF DeletedState, SyncedState
  <2> QED
    BY <1>1, <1>7, <2>1
    DEF LocalsHold, StoringHolds, EditHolds, SwapHolds, TodoHolds, RenewalHolds, UnloadHolds,
        SyncedHolds, At, Renews, Writing
<1> QED
  BY <1>1, <1>3, <1>4, <1>5, <1>6, <1>7
  DEF LocalsHold, StoringHolds, EditHolds, SwapHolds, TodoHolds, RenewalHolds, UnloadHolds,
      SyncedHolds, At, Renews, Writing

LEMMA IssueKept ==
  ASSUME NEW i \in Issuer, NEW c \in Cert, issuer'[i] = issuer[i], EntryKept(c),
         c \notin SyncCert => disk'[c] = disk[c], IssueHolds(i, c)
  PROVE  IssueHolds(i, c)'
  BY DEF IssueHolds, IssuesFor, IssuerAt, Issuing, DraftHolds, EntryKept, SameIssue

LEMMA FilesKept ==
  ASSUME NEW c \in Cert, Kept(c)
  PROVE  (Backed(c) => Backed(c)') /\ (Shown(c) => Shown(c)')
  BY DEF Kept, EntryKept, Backed, Shown, SameIssue, PairOf

LEMMA StoreUnchanged ==
  ASSUME NEW w \in Worker, NEW c \in Cert, UNCHANGED <<certs, worker>>,
         c \notin SyncCert => disk'[c] = disk[c], LocalsHold(w, c)
  PROVE  LocalsHold(w, c)'
<1>1. StoringHolds(w, c)'
  BY DEF LocalsHold, StoringHolds, Writing, At, DraftHolds, PairOf, SameIssue, Configured
<1>2. EditHolds(w, c)' /\ SwapHolds(w, c)' /\ UnloadHolds(w, c)'
  BY DEF LocalsHold, EditHolds, SwapHolds, UnloadHolds, At, SameIssue, Configured
<1>3. TodoHolds(w, c)'
  BY DEF LocalsHold, TodoHolds, Copied, Renews, At, SameIssue, Configured
<1>4. RenewalHolds(w, c)' /\ SyncedHolds(w, c)'
  BY DEF LocalsHold, RenewalHolds, SyncedHolds, Renews, At, SameIssue, Configured
<1> QED
  BY <1>1, <1>2, <1>3, <1>4 DEF LocalsHold

LEMMA WorkerStoreSafe ==
  ASSUME TypeInv, TypeInv', StoreInv, NEW w \in Worker, StoreEffect(w),
         raced' = raced \cup Contended, hurt \subseteq hurt', UNCHANGED installation,
         \A v \in Worker \ {w} : Alike(worker[v], worker'[v])
  PROVE  StoreInv'
<1>1. unused' \subseteq installation'.fresh
  BY DEF StoreEffect, StoreInv
<1>2. ASSUME OneAtATime', NEW v \in Worker
      PROVE  Follows(v)' /\ Registered(v)'
  <2>1. PICK c \in Cert : c \notin Raced'
    BY <1>2 DEF OneAtATime
  <2>2. CASE v = w
    BY <1>2, <2>2 DEF StoreEffect
  <2>3. CASE v # w /\ (worker[w] # Idle \/ worker'[w] # Idle)
    <3>1. worker'[v] = Idle
      BY <2>1, <2>3, OthersIdle
    <3> QED
      BY <3>1 DEF Follows, Registered, At, Renews, Idle
  <2>4. CASE worker[w] = Idle /\ worker'[w] = Idle
    <3>1. worker' = worker /\ certs' = certs
      BY <2>4 DEF StoreEffect, configVars
    <3>2. Follows(v) /\ Registered(v)
      BY <1>2, OnceBefore
    <3> QED
      BY <3>1, <3>2 DEF Follows, PointsTo, Registered, At, Renews
  <2> QED
    BY <2>2, <2>3, <2>4
<1>3. ASSUME NEW c \in Cert, Clean(c)'
      PROVE  StoreHolds(c)'
  <2>1. /\ StoreStep(w, c) /\ StoreHolds(c) /\ OneAtATime' /\ c \notin Raced'
        /\ c \notin Contended
    BY <1>3, CleanBefore DEF StoreEffect, Clean
  <2>2. ASSUME NEW v \in Worker, v # w
        PROVE  \/ worker[v] = Idle /\ worker'[v] = Idle
               \/ UNCHANGED <<certs, disk, loaded, worker>>
    BY <2>1, <2>2, OthersIdle DEF StoreEffect, configVars
  <2>3. ASSUME NEW i \in Issuer, c \in worker[w].on
        PROVE  ~IssuesFor(i, c)
    <3> SUFFICES ASSUME issuer[i] # Idle, issuer[i].entry.id = c PROVE FALSE
      BY DEF IssuesFor
    <3>1. c \in issuer[i].on
      <4>1. issuer[i] \in IssuerState
        BY DEF TypeInv, IssuersOK
      <4>2. issuer[i] \notin IdleState
        BY IdleIsIdle
      <4> QED
        BY <4>1, <4>2 DEF IssuerState, IssuingState, ReportState
    <3> QED
      BY <2>1, <2>3, <3>1, ContendedFacts
  <2>4. UnusedHolds(c)'
    <3> SUFFICES ASSUME c \in unused' PROVE UnusedHolds(c)'
      BY DEF UnusedHolds
    <3>1. c \in unused /\ UnusedHolds(c)
      BY <2>1 DEF StoreEffect, StoreHolds
    <3>2. ASSUME NEW v \in Worker
          PROVE  ~(Writing(v)' /\ worker'[v].entry.id = c)
      <4>1. CASE v = w
        BY <2>1, <4>1 DEF StoreStep
      <4>2. CASE v # w /\ worker'[v] = Idle
        BY <4>2 DEF Writing, Idle
      <4>3. CASE worker' = worker
        BY <3>1, <4>3 DEF UnusedHolds, Writing
      <4> QED
        BY <2>2, <4>1, <4>2, <4>3
    <3>3. ASSUME NEW i \in Issuer
          PROVE  ~(IssuesFor(i, c)')
      BY <2>1, <3>1, <3>3 DEF StoreStep, UnusedHolds, IssuesFor
    <3> QED
      BY <2>1, <3>2, <3>3 DEF StoreStep, UnusedHolds
  <2>5. ASSUME NEW v \in Worker
        PROVE  LocalsHold(v, c)'
    <3>1. worker'[v] \in WorkerState /\ Registered(v)'
      BY <1>2, <2>1 DEF TypeInv, WorkersOK
    <3>2. CASE c \notin worker'[v].on
      BY <3>1, <3>2, LocalsElsewhere
    <3>3. CASE v = w
      BY <2>1, <3>2, <3>3 DEF StoreStep
    <3>4. CASE v # w /\ worker'[v] = Idle
      BY <3>2, <3>4 DEF Idle
    <3>5. CASE UNCHANGED <<certs, disk, loaded, worker>>
      BY <2>1, <3>5, StoreUnchanged DEF StoreHolds
    <3> QED
      BY <2>2, <3>3, <3>4, <3>5
  <2>6. ASSUME NEW i \in Issuer
        PROVE  IssueHolds(i, c)'
    <3>1. CASE issuer'[i] # issuer[i]
      BY <2>1, <3>1 DEF StoreStep
    <3>2. CASE issuer'[i] = issuer[i] /\ Kept(c)
      BY <2>1, <3>2, IssueKept DEF Kept, StoreHolds
    <3>3. CASE issuer'[i] = issuer[i] /\ c \in worker[w].on
      BY <2>3, <3>3 DEF IssueHolds, IssuesFor
    <3> QED
      BY <2>1, <3>1, <3>2, <3>3 DEF StoreStep, FilesStep
  <2>7. FilesHold(c)'
    <3>1. CASE /\ c \in worker[w].on
               /\ HalfWay(w, c)' \/ Backed(c)'
               /\ HalfWay(w, c)' \/ Shown(c)' \/ Reloading(w)'
      BY <3>1 DEF FilesHold, Between
    <3>2. CASE Kept(c) /\ (HalfWay(w, c) => HalfWay(w, c)') /\ (Reloading(w) => Reloading(w)')
      <4>1. ASSUME NEW v \in Worker
            PROVE  (HalfWay(v, c) => HalfWay(v, c)') /\ (Reloading(v) => Reloading(v)')
        <5>1. CASE v = w
          BY <3>2, <5>1
        <5>2. CASE v # w /\ worker[v] = Idle
          BY <5>2 DEF HalfWay, Writing, Reloading, At, Idle
        <5>3. CASE worker' = worker
          BY <5>3 DEF HalfWay, Writing, Reloading, At
        <5> QED
          BY <2>2, <5>1, <5>2, <5>3
      <4>2. ASSUME NEW i \in Issuer, Issuing(i), IssuesFor(i, c)
            PROVE  Issuing(i)' /\ IssuesFor(i, c)'
        BY <2>1, <4>2 DEF StoreStep, Issuing, IssuesFor, Idle
      <4>3. Between(c) => Between(c)'
        BY <4>1, <4>2 DEF Between
      <4>4. FilesHold(c)
        BY <2>1 DEF StoreHolds
      <4> QED
        BY <3>2, <4>1, <4>3, <4>4, FilesKept DEF FilesHold
    <3> QED
      BY <2>1, <3>1, <3>2 DEF StoreStep, FilesStep
  <2> QED
    BY <2>1, <2>4, <2>5, <2>6, <2>7 DEF StoreStep, StoreHolds
<1> QED
  BY <1>1, <1>2, <1>3 DEF StoreInv

-----------------------------------------------------------------------------
(* Steps of a worker that leave list, files and TLS table alone *)

Resting == {"idle", "sync", "drop", "check", "dropEntry", "delete", "reload", "loadSynced"}

LEMMA NothingHeld ==
  ASSUME NEW w \in Worker, NEW c, worker'[w].pc \in Resting
  PROVE  LocalsHold(w, c)' /\ ~(Writing(w)')
  BY DEF LocalsHold, StoringHolds, EditHolds, SwapHolds, TodoHolds, RenewalHolds, UnloadHolds,
         SyncedHolds, At, Renews, Writing, Resting

LEMMA FollowsNothing ==
  ASSUME NEW w \in Worker, worker'[w].pc \in (Resting \ {"check", "sync", "loadSynced"})
                                              \cup {"edit", "swap", "unload", "writeCrt", "writeKey",
                                                    "add", "update", "load"}
  PROVE  Follows(w)' /\ Registered(w)'
  BY DEF Follows, Registered, At, Renews, Resting

LEMMA AlikeLists ==
  ASSUME NEW c \in Cert, UNCHANGED configVars
  PROVE  EntryKept(c) /\ (ListHolds(c) => ListHolds(c)')
  BY StaysOnce DEF EntryKept, Configured, SameIssue, configVars

LEMMA PlainStore ==
  ASSUME StoreInv, NEW w \in Worker, raced' = raced \cup Contended, hurt \subseteq hurt',
         UNCHANGED <<configVars, disk, loaded>>, unused' \subseteq unused,
         worker[w].pc \notin {"writeCrt", "writeKey", "add", "update", "load", "delete"},
         Reloading(w) => Reloading(w)',
         worker[w] = Idle /\ worker'[w] = Idle => worker' = worker,
         OneAtATime' => Follows(w)' /\ Registered(w)',
         \A c \in Cert :
           Clean(c)' =>
             /\ c \in unused' => ~(Writing(w)' /\ worker'[w].entry.id = c)
             /\ c \in worker'[w].on => LocalsHold(w, c)'
             /\ \A i \in Issuer :
                  \/ issuer'[i] = issuer[i]
                  \/ /\ issuer[i] = Idle /\ issuer'[i].pc = "obtain" /\ IssueHolds(i, c)'
                     /\ issuer'[i].entry.id = c => c \notin unused'
  PROVE  StoreEffect(w)
<1>1. ASSUME NEW c \in Cert, Clean(c)'
      PROVE  StoreStep(w, c)
  <2>1. StoreHolds(c)
    BY <1>1, CleanBefore
  <2>2. EntryKept(c) /\ ListHolds(c)'
    BY <2>1, AlikeLists DEF StoreHolds
  <2>3. FilesStep(w, c)
    BY <2>2 DEF FilesStep, Kept, HalfWay, Writing, At
  <2>4. c \in unused' => ~Configured(c)'
    BY <2>1 DEF StoreHolds, UnusedHolds, Configured, configVars
  <2> QED
    BY <1>1, <2>2, <2>3, <2>4 DEF StoreStep
<1> QED
  BY <1>1 DEF StoreEffect

LEMMA BeginsWriting ==
  ASSUME TypeInv, StoreInv, NEW w \in Worker, NEW x, Goto(w, x), Begins(w), Mark({}),
         UNCHANGED <<configVars, disk, loaded, issuer>>, unused' \subseteq unused,
         x.pc = "writeCrt", x.on = {x.entry.id}, x.entry.expires # None,
         x.serves = x.entry.expires \/ x.entry.terms = SelfSigned,
         \A c \in Cert : Clean(c)' /\ c = x.entry.id =>
                           /\ x.entry.source = "imported" /\ c \notin SyncCert
                           /\ c \notin unused' /\ (x.then = "add" => ~Configured(c))
  PROVE  StoreEffect(w)
<1>1. worker'[w] = x /\ raced' = raced \cup Contended /\ hurt \subseteq hurt'
      /\ worker[w] = Idle
  BY GotoMoves, IdleWorker DEF TypeInv, Mark, Moves
<1>2. Follows(w)' /\ Registered(w)'
  BY <1>1, FollowsNothing DEF Resting
<1>3. ASSUME NEW c \in Cert, Clean(c)', c = x.entry.id
      PROVE  LocalsHold(w, c)'
  <2>1. DraftHolds("writeCrt", x.entry, c)'
    BY <1>3 DEF DraftHolds
  <2>2. Configured(c)' <=> Configured(c)
    BY DEF Configured, configVars
  <2>3. StoringHolds(w, c)'
    BY <1>1, <1>3, <2>1, <2>2 DEF StoringHolds, At
  <2> QED
    BY <1>1, <2>3
    DEF LocalsHold, EditHolds, SwapHolds, TodoHolds, RenewalHolds, UnloadHolds, SyncedHolds, At,
        Renews
<1>4. ASSUME NEW c \in Cert, Clean(c)'
      PROVE  /\ c \in unused' => ~(Writing(w)' /\ worker'[w].entry.id = c)
             /\ c \in worker'[w].on => LocalsHold(w, c)'
  BY <1>1, <1>3, <1>4
<1>5. worker[w].pc = "idle" /\ worker'[w] # Idle
  BY <1>1 DEF Idle
<1>6. \A i \in Issuer : issuer'[i] = issuer[i]
  OBVIOUS
<1> QED
  BY <1>1, <1>2, <1>4, <1>5, <1>6, PlainStore DEF Reloading

(* An identifier that was not given out is none of the external list's. *)
LEMMA FreshId ==
  ASSUME TypeInv, StoreInv, NEW c \in unused
  PROVE  c \in Cert /\ c \notin SyncCert
<1>1. installation \in Installation
  BY CertificateAssumption DEF TypeInv, OutsideOK
<1>2. installation.fresh \subseteq Cert \ SyncCert
  BY <1>1 DEF Installation
<1> QED
  BY <1>2 DEF StoreInv

LEMMA IssueIsSome == None \notin Issue
  BY CertificateAssumption

LEMMA ImportStore ==
  ASSUME TypeInv, StoreInv, NEW w \in Worker, ImportCertificate(w), UNCHANGED installation
  PROVE  StoreEffect(w)
<1>1. PICK c \in unused, t \in installation.terms :
        unused' = unused \ {c} /\ Upload(w, NewEntry(c, "imported", t, FALSE), "add")
  BY DEF ImportCertificate
<1> DEFINE f == [NewEntry(c, "imported", t, FALSE)
                 EXCEPT !.expires = issued + 1, !.status = "valid", !.renewAt = None]
           x == [pc |-> "writeCrt", on |-> {c}, then |-> "add", serves |-> issued + 1,
                 entry |-> f]
<1>2. issued + 1 # None
  BY <1>1, NextIssue, IssueIsSome DEF Upload, TypeInv
<1>3. f.id = c /\ f.source = "imported" /\ f.expires = issued + 1
  BY DEF NewEntry
<1>4. Goto(w, x)
  BY <1>1 DEF Upload, NewEntry
<1> HIDE DEF f
<1>5. /\ x.pc = "writeCrt" /\ x.on = {x.entry.id} /\ x.entry = f /\ x.serves = issued + 1
      /\ x.then = "add"
  BY <1>3
<1> HIDE DEF x
<1>6. ASSUME NEW d \in Cert, Clean(d)', d = c
      PROVE  d \notin SyncCert /\ d \notin unused' /\ ~Configured(d)
  <2>1. StoreHolds(d)
    BY <1>6, CleanBefore DEF ImportCertificate, Mark
  <2> QED
    BY <1>1, <1>6, <2>1, FreshId DEF StoreHolds, UnusedHolds
<1>7. Begins(w) /\ Mark({}) /\ UNCHANGED <<configVars, disk, loaded, issuer>>
      /\ unused' \subseteq unused
  BY <1>1 DEF ImportCertificate, Arrives, tableVars
<1> QED
  BY <1>2, <1>3, <1>4, <1>5, <1>6, <1>7, BeginsWriting

LEMMA GenerateStore ==
  ASSUME TypeInv, StoreInv, NEW w \in Worker, GenerateSelfSigned(w), UNCHANGED installation
  PROVE  StoreEffect(w)
<1>1. PICK c \in unused :
        /\ unused' = unused \ {c}
        /\ Goto(w, [pc |-> "writeCrt", on |-> {c}, then |-> "add", serves |-> None,
                    entry |-> [NewEntry(c, "imported", SelfSigned, FALSE)
                               EXCEPT !.expires = issued + 1]])
  BY DEF GenerateSelfSigned
<1> DEFINE f == [NewEntry(c, "imported", SelfSigned, FALSE) EXCEPT !.expires = issued + 1]
           x == [pc |-> "writeCrt", on |-> {c}, then |-> "add", serves |-> None, entry |-> f]
<1>2. issued + 1 # None
  BY NextIssue, IssueIsSome DEF TypeInv, GenerateSelfSigned
<1>3. f.id = c /\ f.source = "imported" /\ f.expires = issued + 1 /\ f.terms = SelfSigned
  BY DEF NewEntry
<1>4. Goto(w, x)
  BY <1>1
<1> HIDE DEF f
<1>5. x.pc = "writeCrt" /\ x.on = {x.entry.id} /\ x.entry = f /\ x.then = "add"
  BY <1>3
<1> HIDE DEF x
<1>6. ASSUME NEW d \in Cert, Clean(d)', d = c
      PROVE  d \notin SyncCert /\ d \notin unused' /\ ~Configured(d)
  <2>1. StoreHolds(d)
    BY <1>6, CleanBefore DEF GenerateSelfSigned, Mark
  <2> QED
    BY <1>1, <1>6, <2>1, FreshId DEF StoreHolds, UnusedHolds
<1>7. Begins(w) /\ Mark({}) /\ UNCHANGED <<configVars, disk, loaded, issuer>>
      /\ unused' \subseteq unused
  BY <1>1 DEF GenerateSelfSigned, Arrives, tableVars
<1> QED
  BY <1>2, <1>3, <1>4, <1>5, <1>6, <1>7, BeginsWriting

LEMMA IssueStore ==
  ASSUME TypeInv, StoreInv, NEW w \in Worker, NEW e \in Entry, NEW x,
         IssueACMECertificate(w, e, x), Mark({}), UNCHANGED <<configVars, disk, loaded>>,
         unused' \subseteq unused, worker[w].pc \in {"idle", "issue"},
         OneAtATime' => Follows(w)' /\ Registered(w)', ~(Writing(w)'),
         \A c \in Cert :
           Clean(c)' =>
             /\ c \in worker'[w].on => LocalsHold(w, c)'
             /\ c = e.id => /\ e.source = "acme" /\ c \notin SyncCert /\ c \notin unused'
                            /\ Configured(c) => /\ Element(certs, c).source = "acme"
                                                /\ e.expires = Element(certs, c).expires
  PROVE  StoreEffect(w)
<1>1. PICK i \in Issuer : /\ issuer[i] = Idle
                          /\ Continue(i, [pc |-> "obtain", on |-> {e.id}, entry |-> e,
                                          awaits |-> {}])
  BY DEF IssueACMECertificate
<1>2. PICK y : y = [pc |-> "obtain", on |-> {e.id}, entry |-> e, awaits |-> {}]
  OBVIOUS
<1>3. issuer'[i] = y /\ \A j \in Issuer \ {i} : issuer'[j] = issuer[j]
  <2>1. Continue(i, y)
    BY <1>1, <1>2
  <2> QED
    BY <2>1, IssuersMove DEF TypeInv
<1>4. y.pc = "obtain" /\ y.entry = e
  BY <1>2
<1>5. Goto(w, x) /\ worker'[w] = x
  BY GotoMoves DEF IssueACMECertificate, TypeInv, Moves
<1>6. ASSUME worker[w] = Idle, worker'[w] = Idle
      PROVE  worker' = worker
  <2>1. worker' = [worker EXCEPT ![w] = x] /\ x = worker[w]
    BY <1>5, <1>6 DEF Goto
  <2> QED
    BY <2>1 DEF TypeInv, WorkersOK
<1>7. ASSUME NEW c \in Cert, Clean(c)'
      PROVE  /\ IssueHolds(i, c)' /\ issuer[i] = Idle /\ issuer'[i].pc = "obtain"
             /\ issuer'[i].entry.id = c => c \notin unused'
  <2>1. Configured(c)' = Configured(c) /\ Element(certs', c) = Element(certs, c)
    BY DEF Configured, configVars
  <2> QED
    BY <1>1, <1>3, <1>4, <1>7, <2>1 DEF IssueHolds, IssuesFor, IssuerAt, Issuing
<1>8. ~Reloading(w)
  BY DEF Reloading
<1>9. \A c \in Cert : Clean(c)' =>
        /\ c \in unused' => ~(Writing(w)' /\ worker'[w].entry.id = c)
        /\ c \in worker'[w].on => LocalsHold(w, c)'
        /\ \A j \in Issuer :
             \/ issuer'[j] = issuer[j]
             \/ /\ issuer[j] = Idle /\ issuer'[j].pc = "obtain" /\ IssueHolds(j, c)'
                /\ issuer'[j].entry.id = c => c \notin unused'
  BY <1>3, <1>7
<1> QED
  BY <1>6, <1>8, <1>9, PlainStore DEF Mark

LEMMA CreateStore ==
  ASSUME TypeInv, StoreInv, NEW w \in Worker, CreateACME(w), UNCHANGED installation
  PROVE  StoreEffect(w)
<1>1. PICK c \in unused, t \in installation.terms, a \in BOOLEAN :
        unused' = unused \ {c} /\ IssueACMECertificate(w, NewEntry(c, "acme", t, a), Idle)
  BY DEF CreateACME
<1>2. PICK e : e = NewEntry(c, "acme", t, a)
  OBVIOUS
<1>3. e \in Entry /\ e.id = c /\ e.source = "acme"
  <2>1. NewEntry(c, "acme", t, a) \in Entry
    BY InstallationFacts, NewEntryIn DEF TypeInv, OutsideOK
  <2> QED
    BY <1>2, <2>1 DEF NewEntry
<1>4. Begins(w) /\ Mark({}) /\ UNCHANGED <<configVars, disk, loaded>>
  BY DEF CreateACME, Arrives
<1>5. IssueACMECertificate(w, e, Idle)
  BY <1>1, <1>2
<1>6. worker'[w] = Idle /\ worker[w].pc = "idle"
  BY <1>4, <1>5, GotoMoves, IdleWorker DEF IssueACMECertificate, TypeInv, Moves, Idle
<1>7. Follows(w)' /\ Registered(w)' /\ ~(Writing(w)')
  BY <1>6, FollowsNothing DEF Idle, Resting, Writing
<1>8. ASSUME NEW d \in Cert, Clean(d)', d = e.id
      PROVE  d \notin SyncCert /\ d \notin unused' /\ ~Configured(d)
  <2>1. StoreHolds(d)
    BY <1>4, <1>8, CleanBefore DEF Mark
  <2> QED
    BY <1>1, <1>3, <1>8, <2>1, FreshId DEF StoreHolds, UnusedHolds
<1>9. \A d \in Cert : d \notin worker'[w].on
  BY <1>6 DEF Idle
<1> QED
  BY <1>1, <1>3, <1>4, <1>5, <1>6, <1>7, <1>8, <1>9, IssueStore

LEMMA UpdateStore ==
  ASSUME TypeInv, StoreInv, NEW w \in Worker, UpdateCertificate(w), UNCHANGED installation
  PROVE  StoreEffect(w)
<1> DEFINE e(c) == Element(certs, c)
           edited(c, t, a) == [e(c) EXCEPT !.terms = t, !.autoRenew = a]
           edit(f) == [pc |-> "edit", on |-> Cert, entry |-> f]
<1>1. Begins(w) /\ Mark({}) /\ UNCHANGED <<configVars, disk, loaded, unused>>
  BY DEF UpdateCertificate, Arrives
<1>2. PICK c \in IdsOf(certs), t \in installation.terms, a \in BOOLEAN :
        \/ /\ e(c).source = "imported" /\ Upload(w, edited(c, t, a), "update")
           /\ UNCHANGED <<issuer, progress, records>>
        \/ /\ Goto(w, edit(edited(c, t, a))) /\ UNCHANGED <<issuer, progress, records, issued, due>>
        \/ /\ Goto(w, edit(EditedACME(e(c), a))) /\ UNCHANGED <<issuer, progress, records, issued, due>>
        \/ e(c).source = "acme" /\ IssueACMECertificate(w, edited(c, t, a), Idle)
  BY ZenonT(30) DEF UpdateCertificate
<1>3. PICK g : g = Element(certs, c)
  OBVIOUS
<1>4. g \in Entry /\ g.id = c /\ c \in Cert /\ c \in IdsOf(certs)
  BY <1>2, <1>3, ElementIn DEF TypeInv
<1>5. ASSUME Clean(c)'
      PROVE  /\ c \in SyncCert => g.source = "file_sync"
             /\ c \notin unused
  <2>1. StoreHolds(c)
    BY <1>1, <1>4, <1>5, CleanBefore DEF Mark
  <2> QED
    BY <1>3, <1>4, <2>1 DEF StoreHolds, UnusedHolds, ListHolds, Configured
<1>6. ASSUME NEW f \in Entry, f.id = c, SameIssue(f, g), Goto(w, edit(f)), UNCHANGED issuer
      PROVE  StoreEffect(w)
  <2>1. PICK x : x = edit(f)
    OBVIOUS
  <2>2. x.pc = "edit" /\ x.entry = f
    BY <2>1
  <2>3. worker'[w] = x /\ worker[w] = Idle
    BY <1>1, <1>6, <2>1, GotoMoves, IdleWorker DEF TypeInv, Moves
  <2>4. Follows(w)' /\ Registered(w)' /\ ~(Writing(w)')
    BY <2>2, <2>3, FollowsNothing DEF Writing
  <2>5. ASSUME NEW d \in Cert
        PROVE  LocalsHold(w, d)'
    <3>1. Element(certs', c) = g
      BY <1>1, <1>3 DEF configVars
    <3>2. EditHolds(w, d)'
      BY <1>6, <2>2, <2>3, <3>1 DEF EditHolds, At
    <3> QED
      BY <2>2, <2>3, <3>2
      DEF LocalsHold, StoringHolds, SwapHolds, TodoHolds, RenewalHolds, UnloadHolds, SyncedHolds,
          At, Renews, Writing
  <2>6. worker[w].pc = "idle" /\ worker'[w] # Idle /\ ~Reloading(w)
    BY <2>2, <2>3 DEF Idle, Reloading
  <2>7. \A i \in Issuer : issuer'[i] = issuer[i]
    BY <1>6
  <2> QED
    BY <1>1, <2>4, <2>5, <2>6, <2>7, PlainStore DEF Mark
<1>7. /\ edited(c, t, a).id = c /\ SameIssue(edited(c, t, a), g)
      /\ EditedACME(g, a).id = c /\ SameIssue(EditedACME(g, a), g)
      /\ edited(c, t, a) \in Entry /\ EditedACME(g, a) \in Entry
  <2>1. /\ edited(c, t, a) \in Entry /\ edited(c, t, a).id = c /\ EditedACME(g, a) \in Entry
    BY <1>3, <1>4, InstallationFacts, EditedIn DEF TypeInv
  <2>2. SameIssue(edited(c, t, a), g)
    BY <1>3, <1>4 DEF SameIssue, Entry
  <2>3. EditedACME(g, a).id = c /\ SameIssue(EditedACME(g, a), g)
    BY <1>4 DEF SameIssue, Entry, EditedACME
  <2> QED
    BY <2>1, <2>2, <2>3
<1>8. CASE e(c).source = "imported" /\ Upload(w, edited(c, t, a), "update") /\ UNCHANGED issuer
  <2>1. PICK h : h = edited(c, t, a)
    OBVIOUS
  <2>2. h \in Entry /\ h.id = c /\ h.source = "imported"
    BY <1>3, <1>7, <1>8, <2>1 DEF SameIssue
  <2> DEFINE f == [h EXCEPT !.expires = issued + 1, !.status = "valid", !.renewAt = None]
             x == [pc |-> "writeCrt", on |-> {c}, then |-> "update", serves |-> issued + 1,
                   entry |-> f]
  <2>3. Upload(w, h, "update")
    BY <1>8, <2>1
  <2>4. issued + 1 # None
    BY <2>3, NextIssue, IssueIsSome DEF Upload, TypeInv
  <2>5. f.id = c /\ f.source = "imported" /\ f.expires = issued + 1
    BY <2>2 DEF Entry
  <2>6. Goto(w, x)
    BY <2>2, <2>3 DEF Upload
  <2> HIDE DEF f
  <2>7. /\ x.pc = "writeCrt" /\ x.on = {x.entry.id} /\ x.entry = f /\ x.serves = issued + 1
        /\ x.then = "update"
    BY <2>5
  <2> HIDE DEF x
  <2>8. ASSUME NEW d \in Cert, Clean(d)', d = c
        PROVE  d \notin SyncCert /\ d \notin unused'
    BY <1>1, <1>3, <1>5, <1>8, <2>8
  <2> QED
    BY <1>1, <1>8, <2>4, <2>5, <2>6, <2>7, <2>8, BeginsWriting
<1>9. CASE e(c).source = "acme" /\ IssueACMECertificate(w, edited(c, t, a), Idle)
  <2>1. PICK h : h = edited(c, t, a)
    OBVIOUS
  <2>2. h \in Entry /\ h.id = c /\ h.source = "acme" /\ h.expires = g.expires
        /\ g.source = "acme"
    BY <1>3, <1>7, <1>9, <2>1 DEF SameIssue
  <2>3. IssueACMECertificate(w, h, Idle)
    BY <1>9, <2>1
  <2>4. worker'[w] = Idle /\ worker[w].pc = "idle"
    BY <1>1, <2>3, GotoMoves, IdleWorker DEF IssueACMECertificate, TypeInv, Moves, Idle
  <2>5. Follows(w)' /\ Registered(w)' /\ ~(Writing(w)')
    BY <2>4, FollowsNothing DEF Idle, Resting, Writing
  <2>6. \A d \in Cert : d \notin worker'[w].on
    BY <2>4 DEF Idle
  <2>7. ASSUME NEW d \in Cert, Clean(d)', d = h.id
        PROVE  /\ d \notin SyncCert /\ d \notin unused'
               /\ Element(certs, d).source = "acme" /\ h.expires = Element(certs, d).expires
    BY <1>1, <1>3, <1>5, <2>2, <2>7
  <2> QED
    BY <1>1, <2>2, <2>3, <2>4, <2>5, <2>6, <2>7, IssueStore
<1>10. CASE Goto(w, edit(edited(c, t, a))) /\ UNCHANGED issuer
  <2>1. PICK f : f = edited(c, t, a)
    OBVIOUS
  <2> QED
    BY <1>6, <1>7, <1>10, <2>1
<1>11. CASE Goto(w, edit(EditedACME(e(c), a))) /\ UNCHANGED issuer
  <2>1. PICK f : f = EditedACME(g, a)
    OBVIOUS
  <2> QED
    BY <1>3, <1>6, <1>7, <1>11, <2>1
<1> QED
  BY <1>2, <1>8, <1>9, <1>10, <1>11

-----------------------------------------------------------------------------
(* Steps of a worker that store an entry of the same issue *)

LEMMA SoftUpdate ==
  ASSUME TypeInv, StoreInv, NEW e \in Entry, Updated(e), raced' = raced \cup Contended,
         hurt \subseteq hurt', NEW c \in Cert, Clean(c)',
         c = e.id /\ Configured(c) => SameIssue(e, Element(certs, c))
  PROVE  /\ ListHolds(c)' /\ (Configured(c)' <=> Configured(c))
         /\ Configured(c) => /\ SameIssue(Element(certs', c), Element(certs, c))
                             /\ Element(certs', c) = IF c = e.id THEN e ELSE Element(certs, c)
         /\ (c = e.id /\ Configured(c) => Element(certs, c).source = "acme") => EntryKept(c)
<1>1. c \notin hurt' /\ ListHolds(c)
  BY CleanBefore DEF StoreHolds
<1>2. c \in SyncCert /\ c = e.id /\ Configured(c) => e.source = "file_sync"
  BY <1>1 DEF ListHolds, SameIssue
<1>3. /\ ListHolds(c)' /\ (Configured(c)' <=> Configured(c))
      /\ Configured(c) => Element(certs', c) = IF c = e.id THEN e ELSE Element(certs, c)
  BY <1>1, <1>2, UpdatedOnce DEF TypeInv
<1> QED
  BY <1>3 DEF EntryKept, SameIssue

LEMMA CopyKept ==
  ASSUME NEW todo, NEW c \in Cert, Copied(todo, c), Configured(c)' <=> Configured(c),
         Configured(c) => SameIssue(Element(certs', c), Element(certs, c))
  PROVE  Copied(todo, c)'
  BY DEF Copied, SameIssue

(* A pointer leads on to the entry it was made for. *)
LEMMA UpdatedPointers ==
  ASSUME ListsOK, NEW e \in Entry, Updated(e), NEW p, NEW d, PointsTo(p, d)
  PROVE  /\ PointsTo(p, d)'
         /\ d # e.id => Deref(certs', p) = Deref(certs, p)
         /\ d = e.id /\ Configured(d) /\ Single(certs, d) =>
              p.kept \/ Deref(certs', p) = e
         /\ p.kept => Deref(certs', p) = Deref(certs, p)
<1>1. CASE p.kept
  BY <1>1 DEF PointsTo, Deref
<1>2. CASE ~p.kept /\ Configured(e.id)
  <2>1. certs \in SliceOf(Entry) /\ e.id \in IdsOf(certs)
    BY <1>2 DEF ListsOK, Configured
  <2>2. PICK i : i = IndexOf(certs, e.id)
    OBVIOUS
  <2>3. i \in 1 .. certs.len /\ certs.cells[i].id = e.id
    BY <2>1, <2>2, IndexOfFirst
  <2>4. certs' = SetElement(certs, i, e)
    BY <1>2, <2>2 DEF Updated
  <2>5. /\ certs'.len = certs.len /\ certs.len \in Nat /\ Len(certs.cells) \in Nat
        /\ certs.len <= Len(certs.cells)
        /\ \A k \in 1 .. Len(certs.cells) : certs'.cells[k] = IF k = i THEN e ELSE certs.cells[k]
    <3>1. certs.len \in Nat /\ Len(certs.cells) \in Nat /\ certs.len <= Len(certs.cells)
      BY <2>1, SliceFacts
    <3> QED
      BY <2>1, <2>3, <2>4, <3>1, SetElementIn
  <2>6. p.at \in 1 .. certs.len /\ certs.cells[p.at].id = d
    BY <1>2 DEF PointsTo
  <2>7. certs'.cells[p.at] = IF p.at = i THEN e ELSE certs.cells[p.at]
    BY <2>5, <2>6
  <2>8. PointsTo(p, d)'
    BY <1>2, <2>3, <2>5, <2>6, <2>7 DEF PointsTo
  <2> QED
    BY <1>2, <2>3, <2>6, <2>7, <2>8 DEF Deref, Single
<1>3. CASE ~p.kept /\ ~Configured(e.id)
  BY <1>3 DEF Updated, configVars, PointsTo, Deref
<1> QED
  BY <1>1, <1>2, <1>3

LEMMA BeginRenewalStore ==
  ASSUME TypeInv, StoreInv, NEW w \in Worker, NEW c \in IdsOf(certs),
         Element(certs, c).source = "acme", NEW back, BeginRenewal(w, c, back), Mark({}),
         worker[w].pc \in {"idle", "renewDue"},
         UNCHANGED <<installation, disk, loaded, unused, issuer>>,
         back.pc = "renewDue" => IdSet(back.todo) \subseteq back.on,
         \A d \in Cert : Clean(d)' /\ back.pc = "renewDue" => Copied(back.todo, d)
  PROVE  StoreEffect(w)
<1> DEFINE i == IndexOf(certs, c)
<1>1. PICK f : f = [certs.cells[i] EXCEPT !.status = "renew"]
  OBVIOUS
<1>2. PICK x : x = [pc |-> "renew", on |-> {c} \cup back.on, ref |-> PointerTo(i),
                    entry |-> f, back |-> back]
  OBVIOUS
<1>3. certs' = SetElement(certs, IndexOf(certs, c), f) /\ Goto(w, x) /\ UNCHANGED saved
  BY <1>1, <1>2 DEF BeginRenewal
<1>4. f = [Element(certs, c) EXCEPT !.status = "renew"]
  BY <1>1 DEF Element
<1>5. worker'[w] = x /\ raced' = raced \cup Contended /\ hurt \subseteq hurt'
  BY <1>3, GotoMoves DEF TypeInv, Mark, Moves
<1>6. x.pc = "renew" /\ x.entry = f /\ x.back = back /\ x.on = {c} \cup back.on
      /\ x.ref = PointerTo(i)
  BY <1>2
<1>7. ASSUME NEW d \in Cert, ListHolds(d)
      PROVE  /\ f \in Entry /\ f.id = c /\ SameIssue(f, Element(certs, c))
             /\ f.terms = Element(certs, c).terms
             /\ ListHolds(d)' /\ (Configured(d)' <=> Configured(d))
             /\ Configured(d) => Element(certs', d) = IF d = c THEN f ELSE Element(certs, d)
  BY <1>3, <1>4, <1>7, RestatedOnce DEF TypeInv
<1>8. /\ f \in Entry /\ f.id = c /\ i \in 1 .. certs'.len /\ certs'.cells[i] = f
      /\ c \in Cert
  <2>1. certs \in SliceOf(Entry) /\ Element(certs, c) \in Entry /\ Element(certs, c).id = c
    BY ElementIn DEF TypeInv, ListsOK
  <2>2. i \in 1 .. certs.len
    BY <2>1, IndexOfFirst
  <2>3. f \in Entry /\ f.id = c /\ c \in Cert
    BY <1>4, <2>1 DEF Entry
  <2>4. certs'.len = certs.len /\ \A k \in 1 .. Len(certs.cells) :
          certs'.cells[k] = IF k = i THEN f ELSE certs.cells[k]
    <3> HIDE DEF i
    <3>1. certs' = SetElement(certs, i, f)
      BY <1>3 DEF i
    <3> QED
      BY <2>1, <2>2, <2>3, <3>1, SetElementIn
  <2>5. i \in 1 .. Len(certs.cells)
    BY <2>1, <2>2, SliceFacts
  <2> QED
    BY <2>2, <2>3, <2>4, <2>5
<1> HIDE DEF i
<1>9. Deref(certs', x.ref) = f /\ PointsTo(x.ref, f.id)'
  BY <1>6, <1>8 DEF PointerTo, Deref, PointsTo
<1>10. Follows(w)' /\ Registered(w)'
  BY <1>5, <1>6, <1>8, <1>9 DEF Follows, Registered, At, Renews, PointsTo
<1>11. ASSUME NEW d \in Cert, Clean(d)'
       PROVE  StoreStep(w, d)
  <2>1. StoreHolds(d) /\ ListHolds(d)
    BY <1>5, <1>11, CleanBefore DEF StoreHolds
  <2>2. /\ SameIssue(f, Element(certs, c)) /\ f.terms = Element(certs, c).terms
        /\ ListHolds(d)' /\ (Configured(d)' <=> Configured(d))
        /\ Configured(d) => Element(certs', d) = IF d = c THEN f ELSE Element(certs, d)
    BY <1>7, <2>1
  <2>3. EntryKept(d)
    BY <2>2 DEF EntryKept, SameIssue
  <2>4. FilesStep(w, d)
    BY <2>3 DEF FilesStep, Kept, HalfWay, Writing, Reloading, At
  <2>5. TodoHolds(w, d)'
    <3>1. back.pc = "renewDue" => Copied(back.todo, d)'
      BY <1>11, <2>3, CopyKept DEF EntryKept
    <3> QED
      BY <1>5, <1>6, <3>1 DEF TodoHolds, At, Copied
  <2>6. RenewalHolds(w, d)'
    <3> SUFFICES ASSUME f.id = d PROVE RenewalHolds(w, d)'
      BY <1>5, <1>6 DEF RenewalHolds
    <3>1. Configured(d)' /\ Element(certs', d) = f /\ f.source = "acme"
      BY <1>8, <2>2 DEF SameIssue, Configured
    <3> QED
      BY <1>5, <1>6, <1>9, <3>1 DEF RenewalHolds, SameIssue
  <2>7. LocalsHold(w, d)' /\ ~(Writing(w)')
    BY <1>5, <1>6, <2>5, <2>6
    DEF LocalsHold, StoringHolds, EditHolds, SwapHolds, UnloadHolds, SyncedHolds, At, Writing
  <2>8. d \in unused' => ~Configured(d)'
    BY <2>1, <2>2 DEF StoreHolds, UnusedHolds
  <2> QED
    BY <2>2, <2>4, <2>7, <2>8 DEF StoreStep
<1>12. worker'[w] # Idle
  BY <1>5, <1>6 DEF Idle
<1> QED
  BY <1>10, <1>11, <1>12 DEF StoreEffect

LEMMA RenewStore ==
  ASSUME TypeInv, StoreInv, NEW w \in Worker, RenewCertificate(w), UNCHANGED installation
  PROVE  StoreEffect(w)
<1>1. /\ Begins(w) /\ Mark({}) /\ UNCHANGED <<disk, loaded, unused, issuer>>
  BY DEF RenewCertificate, Arrives, tableVars, caVars
<1>2. PICK c \in IdsOf(certs) : Element(certs, c).source = "acme" /\ BeginRenewal(w, c, Idle)
  BY DEF RenewCertificate
<1>3. worker[w].pc = "idle" /\ Idle.pc # "renewDue"
  BY <1>1, IdleWorker DEF Idle
<1> QED
  BY <1>1, <1>2, <1>3, BeginRenewalStore

LEMMA StoreRenewingStore ==
  ASSUME TypeInv, StoreInv, NEW w \in Worker, StoreRenewing(w), UNCHANGED installation
  PROVE  StoreEffect(w)
<1>1. PICK x : x = worker[w]
  OBVIOUS
<1>2. PICK e : e = x.entry
  OBVIOUS
<1>3. PICK y : y = [x EXCEPT !.pc = "issue"]
  OBVIOUS
<1>4. /\ x.pc = "renew" /\ Goto(w, y) /\ Updated(e)
      /\ raced' = raced \cup Contended /\ hurt \subseteq hurt'
      /\ UNCHANGED <<disk, loaded, unused, issuer>>
  BY <1>1, <1>2, <1>3
  DEF StoreRenewing, At, UpdateEntry, Saves, Mark, Updated, Stored, tableVars, caVars
<1>5. x \in RenewState /\ e \in Entry
  BY <1>1, <1>2, <1>4, RenewingOn
<1>6. /\ y.pc = "issue" /\ y.entry = e /\ y.ref = x.ref /\ y.back = x.back /\ y.on = x.on
  BY <1>2, <1>3, <1>5 DEF RenewState
<1>7. worker'[w] = y
  BY <1>4, GotoMoves DEF TypeInv, Moves
<1>8. ASSUME OneAtATime'
      PROVE  Follows(w)' /\ Registered(w)'
  <2>1. Follows(w) /\ Registered(w)
    BY <1>4, <1>8, OnceBefore
  <2>2. PointsTo(x.ref, e.id)
    BY <1>1, <1>2, <1>4, <2>1 DEF Follows
  <2>3. PointsTo(x.ref, e.id)'
    BY <1>4, <1>5, <2>2, UpdatedPointers DEF TypeInv
  <2>4. Follows(w)'
    BY <1>6, <1>7, <2>3 DEF Follows, PointsTo
  <2> QED
    BY <1>1, <1>2, <1>4, <1>6, <1>7, <2>1, <2>4 DEF Registered, At, Renews
<1>9. ASSUME NEW c \in Cert, Clean(c)'
      PROVE  StoreStep(w, c)
  <2>1. StoreHolds(c) /\ LocalsHold(w, c) /\ Follows(w)
    BY <1>4, <1>9, CleanBefore DEF StoreHolds
  <2>2. RenewalHolds(w, c) /\ TodoHolds(w, c)
    BY <2>1 DEF LocalsHold
  <2>3. e.id = c => /\ Configured(c) /\ Element(certs, c).source = "acme"
                    /\ SameIssue(e, Element(certs, c))
                    /\ SameIssue(Deref(certs, x.ref), Element(certs, c))
    BY <1>1, <1>2, <1>4, <2>2 DEF RenewalHolds, Renews, At
  <2>4. /\ ListHolds(c)' /\ (Configured(c)' <=> Configured(c)) /\ EntryKept(c)
        /\ Configured(c) => /\ SameIssue(Element(certs', c), Element(certs, c))
                            /\ Element(certs', c) = IF c = e.id THEN e ELSE Element(certs, c)
    BY <1>4, <1>5, <1>9, <2>3, SoftUpdate
  <2>5. FilesStep(w, c)
    BY <1>1, <1>4, <2>4 DEF FilesStep, Kept, HalfWay, Writing, Reloading, At
  <2>6. TodoHolds(w, c)'
    <3>1. x.back.pc = "renewDue" => Copied(x.back.todo, c)
      BY <1>1, <1>4, <2>2 DEF TodoHolds, Renews, At
    <3>2. x.back.pc = "renewDue" => Copied(x.back.todo, c)'
      BY <2>4, <3>1, CopyKept
    <3> QED
      BY <1>6, <1>7, <3>2 DEF TodoHolds, At, Copied
  <2>7. RenewalHolds(w, c)'
    <3> SUFFICES ASSUME e.id = c PROVE RenewalHolds(w, c)'
      BY <1>6, <1>7 DEF RenewalHolds
    <3>1. Configured(c)' /\ Element(certs', c) = e /\ e.source = "acme"
      BY <2>3, <2>4 DEF SameIssue
    <3>2. PointsTo(x.ref, c) /\ Single(certs, c)
      BY <1>1, <1>2, <1>4, <2>1 DEF Follows, StoreHolds, ListHolds
    <3>3. Deref(certs', x.ref) = Deref(certs, x.ref) \/ Deref(certs', x.ref) = e
      BY <1>4, <1>5, <2>3, <3>2, UpdatedPointers DEF TypeInv
    <3>4. SameIssue(Deref(certs', x.ref), e)
      BY <2>3, <3>3 DEF SameIssue
    <3> QED
      BY <1>6, <1>7, <3>1, <3>4 DEF RenewalHolds, SameIssue
  <2>8. LocalsHold(w, c)' /\ ~(Writing(w)')
    BY <1>6, <1>7, <2>6, <2>7
    DEF LocalsHold, StoringHolds, EditHolds, SwapHolds, UnloadHolds, SyncedHolds, At, Writing
  <2>9. c \in unused' => ~Configured(c)'
    BY <1>4, <2>1, <2>4 DEF StoreHolds, UnusedHolds
  <2> QED
    BY <1>4, <2>4, <2>5, <2>8, <2>9 DEF StoreStep
<1>10. worker'[w] # Idle
  BY <1>6, <1>7 DEF Idle
<1> QED
  BY <1>4, <1>8, <1>9, <1>10 DEF StoreEffect

(* Where a renewal goes back to: what is left to do of a copied list. *)
LEMMA BackHeld ==
  ASSUME NEW w \in Worker, NEW c \in Cert, NEW x, worker'[w] = x,
         x \in IdleState \cup RenewDueState,
         x.pc = "renewDue" => Copied(x.todo, c)'
  PROVE  LocalsHold(w, c)' /\ ~(Writing(w)')
<1>1. x.pc \in {"idle", "renewDue"}
  BY DEF IdleState, RenewDueState
<1>2. TodoHolds(w, c)'
  BY <1>1 DEF TodoHolds, At, Renews, Copied
<1> QED
  BY <1>1, <1>2
  DEF LocalsHold, StoringHolds, EditHolds, SwapHolds, RenewalHolds, UnloadHolds, SyncedHolds, At,
      Renews, Writing

LEMMA BackRegistered ==
  ASSUME NEW w \in Worker, NEW x, worker'[w] = x, x \in IdleState \cup RenewDueState,
         x.pc = "renewDue" => IdSet(x.todo) \subseteq x.on
  PROVE  Follows(w)' /\ Registered(w)'
<1>1. x.pc \in {"idle", "renewDue"}
  BY DEF IdleState, RenewDueState
<1> QED
  BY <1>1 DEF Follows, Registered, At, Renews

LEMMA RenewingFields ==
  ASSUME NEW S
  PROVE  /\ Renewing(S).pc \in {"idle", "renewDue"}
         /\ Renewing(S).pc = "renewDue" => Renewing(S).todo = S /\ Renewing(S).on = IdSet(S)
  BY DEF Renewing, Idle

(* What a worker that renews knows of the entry its pointer leads to. *)
LEMMA RenewalBefore ==
  ASSUME TypeInv, StoreInv, NEW w \in Worker, worker[w].pc \in {"renew", "issue", "refused"},
         raced' = raced \cup Contended, hurt \subseteq hurt', NEW c \in Cert, Clean(c)',
         NEW x, x = worker[w]
  PROVE  /\ x.back.pc = "renewDue" => Copied(x.back.todo, c)
         /\ x.entry.id = c => /\ Configured(c) /\ Element(certs, c).source = "acme"
                              /\ SameIssue(x.entry, Element(certs, c))
                              /\ c \notin SyncCert
         /\ x.pc = "issue" => Deref(certs, x.ref).id = x.entry.id
         /\ x.pc = "issue" /\ x.entry.id = c => SameIssue(Deref(certs, x.ref), Element(certs, c))
<1>1. StoreHolds(c) /\ LocalsHold(w, c) /\ Follows(w) /\ ListHolds(c)
  BY CleanBefore DEF StoreHolds
<1>2. RenewalHolds(w, c) /\ TodoHolds(w, c)
  BY <1>1 DEF LocalsHold
<1>3. x.back.pc = "renewDue" => Copied(x.back.todo, c)
  BY <1>2 DEF TodoHolds, Renews, At
<1>4. x.entry.id = c => /\ Configured(c) /\ Element(certs, c).source = "acme"
                        /\ SameIssue(x.entry, Element(certs, c))
                        /\ x.pc = "issue" => SameIssue(Deref(certs, x.ref), Element(certs, c))
  BY <1>2 DEF RenewalHolds, Renews, At
<1>5. x.entry.id = c => c \notin SyncCert
  BY <1>1, <1>4 DEF ListHolds
<1>6. x.pc = "issue" => Deref(certs, x.ref).id = x.entry.id
  BY <1>1 DEF Follows, PointsTo, Deref
<1> QED
  BY <1>3, <1>4, <1>5, <1>6

LEMMA IssueRenewalStore ==
  ASSUME TypeInv, StoreInv, NEW w \in Worker, IssueRenewal(w), UNCHANGED installation
  PROVE  StoreEffect(w)
<1>1. PICK x : x = worker[w]
  OBVIOUS
<1>2. PICK d : d = Deref(certs, x.ref)
  OBVIOUS
<1>3. PICK e : e = [d EXCEPT !.source = "acme"]
  OBVIOUS
<1>4. PICK y : y = x.back
  OBVIOUS
<1>5. /\ x.pc = "issue" /\ IssueACMECertificate(w, e, y) /\ Mark({})
      /\ UNCHANGED <<configVars, disk, loaded, unused>>
  BY <1>1, <1>2, <1>3, <1>4 DEF IssueRenewal, At, caVars
<1>6. d \in Entry /\ y \in IdleState \cup RenewDueState
  BY <1>1, <1>2, <1>4, <1>5, RenewingOn
<1>7. e \in Entry /\ e.id = d.id /\ e.source = "acme" /\ e.expires = d.expires
  BY <1>3, <1>6 DEF Entry
<1>8. worker'[w] = y /\ raced' = raced \cup Contended /\ hurt \subseteq hurt'
  BY <1>5, GotoMoves DEF IssueACMECertificate, TypeInv, Mark, Moves
<1>9. ASSUME OneAtATime'
      PROVE  Follows(w)' /\ Registered(w)'
  <2>1. Registered(w)
    BY <1>8, <1>9, OnceBefore
  <2> QED
    BY <1>1, <1>4, <1>5, <1>6, <1>8, <2>1, BackRegistered DEF Registered, Renews
<1>10. ASSUME NEW c \in Cert, Clean(c)'
       PROVE  /\ LocalsHold(w, c)'
              /\ c = e.id => /\ c \notin SyncCert /\ c \notin unused'
                             /\ Element(certs, c).source = "acme"
                             /\ e.expires = Element(certs, c).expires
  <2>1. /\ y.pc = "renewDue" => Copied(y.todo, c)
        /\ x.entry.id = c => /\ Configured(c) /\ Element(certs, c).source = "acme"
                             /\ c \notin SyncCert /\ SameIssue(d, Element(certs, c))
        /\ d.id = x.entry.id
    BY <1>1, <1>2, <1>4, <1>5, <1>8, <1>10, RenewalBefore
  <2>2. EntryKept(c) /\ StoreHolds(c)
    BY <1>5, <1>8, <1>10, AlikeLists, CleanBefore
  <2>3. y.pc = "renewDue" => Copied(y.todo, c)'
    BY <2>1, <2>2, CopyKept DEF EntryKept
  <2>4. LocalsHold(w, c)'
    BY <1>6, <1>8, <2>3, BackHeld
  <2> QED
    BY <1>5, <1>7, <2>1, <2>2, <2>4 DEF SameIssue, StoreHolds, UnusedHolds
<1>11. worker[w].pc \in {"idle", "issue"} /\ ~(Writing(w)')
  <2>1. y.pc \in {"idle", "renewDue"}
    BY <1>6 DEF IdleState, RenewDueState
  <2> QED
    BY <1>1, <1>5, <1>8, <2>1 DEF Writing
<1> QED
  BY <1>5, <1>7, <1>9, <1>10, <1>11, IssueStore

LEMMA RefuseRenewalStore ==
  ASSUME TypeInv, StoreInv, NEW w \in Worker, RefuseRenewal(w), UNCHANGED installation
  PROVE  StoreEffect(w)
<1>1. PICK x : x = worker[w]
  OBVIOUS
<1>2. PICK d : d = Deref(certs, x.ref)
  OBVIOUS
<1>3. PICK f : f = [d EXCEPT !.status = "error"]
  OBVIOUS
<1>4. PICK y : y = [x EXCEPT !.pc = "refused", !.entry = f]
  OBVIOUS
<1>5. /\ x.pc = "issue" /\ Goto(w, y) /\ Mark({})
      /\ UNCHANGED <<configVars, disk, loaded, unused, issuer>>
  BY <1>1, <1>2, <1>3, <1>4 DEF RefuseRenewal, At, caVars, tableVars
<1>6. d \in Entry /\ x \in RenewState
  BY <1>1, <1>2, <1>5, RenewingOn
<1>7. f.id = d.id /\ SameIssue(f, d)
  BY <1>3, <1>6 DEF Entry, SameIssue
<1>8. y.pc = "refused" /\ y.entry = f /\ y.back = x.back /\ y.on = x.on
  BY <1>4, <1>6 DEF RenewState
<1>9. worker'[w] = y /\ raced' = raced \cup Contended /\ hurt \subseteq hurt'
  BY <1>5, GotoMoves DEF TypeInv, Mark, Moves
<1>10. ASSUME OneAtATime'
       PROVE  Follows(w)' /\ Registered(w)'
  <2>1. Registered(w) /\ Follows(w)
    BY <1>9, <1>10, OnceBefore
  <2>2. d.id = x.entry.id
    BY <1>1, <1>2, <1>5, <2>1 DEF Follows, PointsTo, Deref
  <2> QED
    BY <1>1, <1>5, <1>7, <1>8, <1>9, <2>1, <2>2 DEF Follows, Registered, Renews, At
<1>11. ASSUME NEW c \in Cert, Clean(c)'
       PROVE  LocalsHold(w, c)'
  <2>1. /\ x.back.pc = "renewDue" => Copied(x.back.todo, c)
        /\ x.entry.id = c => /\ Configured(c) /\ Element(certs, c).source = "acme"
                             /\ SameIssue(d, Element(certs, c))
        /\ d.id = x.entry.id
    BY <1>1, <1>2, <1>5, <1>9, <1>11, RenewalBefore
  <2>2. Configured(c)' = Configured(c) /\ Element(certs', c) = Element(certs, c)
    BY <1>5 DEF Configured, configVars
  <2>3. x.back.pc = "renewDue" => Copied(x.back.todo, c)'
    BY <2>1, <2>2 DEF Copied
  <2>4. TodoHolds(w, c)'
    BY <1>8, <1>9, <2>3 DEF TodoHolds, At, Copied
  <2>5. RenewalHolds(w, c)'
    BY <1>7, <1>8, <1>9, <2>1, <2>2 DEF RenewalHolds, At, SameIssue
  <2> QED
    BY <1>8, <1>9, <2>4, <2>5
    DEF LocalsHold, StoringHolds, EditHolds, SwapHolds, UnloadHolds, SyncedHolds, At, Writing
<1>12. /\ ~Reloading(w) /\ ~(Writing(w)') /\ worker[w] # Idle
       /\ worker[w].pc \notin {"writeCrt", "writeKey", "add", "update", "load", "delete"}
  BY <1>1, <1>5, <1>8, <1>9 DEF Reloading, Writing, Idle
<1>13. \A i \in Issuer : issuer'[i] = issuer[i]
  BY <1>5
<1> QED
  BY <1>5, <1>9, <1>10, <1>11, <1>12, <1>13, PlainStore

LEMMA StoreRefusedStore ==
  ASSUME TypeInv, StoreInv, NEW w \in Worker, StoreRefused(w), UNCHANGED installation
  PROVE  StoreEffect(w)
<1>1. PICK x : x = worker[w]
  OBVIOUS
<1>2. PICK e : e = x.entry
  OBVIOUS
<1>3. PICK y : y = x.back
  OBVIOUS
<1>4. /\ x.pc = "refused" /\ Goto(w, y) /\ Updated(e)
      /\ raced' = raced \cup Contended /\ hurt \subseteq hurt'
      /\ UNCHANGED <<disk, loaded, unused, issuer>>
  BY <1>1, <1>2, <1>3
  DEF StoreRefused, At, UpdateEntry, Saves, Mark, Updated, Stored, tableVars, caVars
<1>5. y \in IdleState \cup RenewDueState /\ e \in Entry
  BY <1>1, <1>2, <1>3, <1>4, RenewingOn
<1>6. worker'[w] = y
  BY <1>4, GotoMoves DEF TypeInv, Moves
<1>7. ASSUME OneAtATime'
      PROVE  Follows(w)' /\ Registered(w)'
  <2>1. Registered(w)
    BY <1>4, <1>7, OnceBefore
  <2> QED
    BY <1>1, <1>3, <1>4, <1>5, <1>6, <2>1, BackRegistered DEF Registered, Renews
<1>8. ASSUME NEW c \in Cert, Clean(c)'
      PROVE  StoreStep(w, c)
  <2>1. /\ y.pc = "renewDue" => Copied(y.todo, c)
        /\ e.id = c => /\ Configured(c) /\ Element(certs, c).source = "acme"
                       /\ SameIssue(e, Element(certs, c))
    BY <1>1, <1>2, <1>3, <1>4, <1>8, RenewalBefore
  <2>2. /\ ListHolds(c)' /\ (Configured(c)' <=> Configured(c)) /\ EntryKept(c)
        /\ Configured(c) => SameIssue(Element(certs', c), Element(certs, c))
    BY <1>4, <1>5, <1>8, <2>1, SoftUpdate
  <2>3. FilesStep(w, c)
    BY <1>1, <1>4, <2>2 DEF FilesStep, Kept, HalfWay, Writing, Reloading, At
  <2>4. y.pc = "renewDue" => Copied(y.todo, c)'
    BY <2>1, <2>2, CopyKept
  <2>5. LocalsHold(w, c)' /\ ~(Writing(w)')
    BY <1>5, <1>6, <2>4, BackHeld
  <2>6. c \in unused' => ~Configured(c)'
    BY <1>4, <1>8, <2>2, CleanBefore DEF StoreHolds, UnusedHolds
  <2> QED
    BY <1>4, <2>2, <2>3, <2>5, <2>6 DEF StoreStep
<1>9. worker[w] # Idle
  BY <1>1, <1>4 DEF Idle
<1> QED
  BY <1>4, <1>7, <1>8, <1>9 DEF StoreEffect

-----------------------------------------------------------------------------
(* The steps of a request that stores a certificate *)

(* A certificate only w works on is between two steps of w or of nobody. *)
LEMMA NotBetween ==
  ASSUME TypeInv, StoreInv, NEW w \in Worker, raced' = raced \cup Contended,
         hurt \subseteq hurt', NEW c \in Cert, Clean(c)', c \in worker[w].on, ~HalfWay(w, c)
  PROVE  Backed(c) /\ (Shown(c) \/ Reloading(w))
<1>1. StoreHolds(c) /\ c \notin Contended
  BY CleanBefore
<1>2. ASSUME NEW v \in Worker, v # w
      PROVE  worker[v] = Idle
  <2>1. worker[w] # Idle
    BY DEF Idle
  <2> QED
    BY <1>1, <1>2, <2>1, ContendedFacts
<1>3. ASSUME NEW v \in Worker, v # w
      PROVE  ~HalfWay(v, c) /\ ~Reloading(v)
  BY <1>2, <1>3 DEF HalfWay, Writing, Reloading, At, Idle
<1>4. ASSUME NEW i \in Issuer
      PROVE  ~(Issuing(i) /\ IssuesFor(i, c))
  <2> SUFFICES ASSUME Issuing(i), issuer[i].entry.id = c PROVE FALSE
    BY DEF IssuesFor
  <2>1. c \in issuer[i].on
    BY IssuerShapes DEF TypeInv, Issuing
  <2> QED
    BY <1>1, <2>1, ContendedFacts
<1> QED
  BY <1>1, <1>3, <1>4 DEF StoreHolds, FilesHold, Between

LEMMA WritingHeld ==
  ASSUME NEW w \in Worker, NEW c,
         worker'[w].pc \in {"writeCrt", "writeKey", "add", "update", "load"},
         StoringHolds(w, c)'
  PROVE  LocalsHold(w, c)'
  BY DEF LocalsHold, EditHolds, SwapHolds, TodoHolds, RenewalHolds, UnloadHolds, SyncedHolds, At,
         Renews

LEMMA WritingBefore ==
  ASSUME StoreInv, NEW w \in Worker, Writing(w), raced' = raced \cup Contended,
         hurt \subseteq hurt', NEW c \in Cert, Clean(c)', NEW x, x = worker[w], x.entry.id = c
  PROVE  /\ ListHolds(c) /\ c \notin unused /\ DraftHolds(x.pc, x.entry, c)
         /\ x.entry.source = "imported"
         /\ x.serves = x.entry.expires \/ x.entry.terms = SelfSigned
         /\ x.pc = "load" => x.entry.terms = Element(certs, c).terms
         /\ x.pc \in {"writeCrt", "writeKey"} /\ x.then = "add" => ~Configured(c)
<1>1. StoreHolds(c)
  BY CleanBefore
<1>2. StoringHolds(w, c)
  BY <1>1 DEF StoreHolds, LocalsHold
<1> QED
  BY <1>1, <1>2 DEF StoringHolds, At, StoreHolds, UnusedHolds

LEMMA WritingStore ==
  ASSUME TypeInv, StoreInv, NEW w \in Worker, Writing(w), raced' = raced \cup Contended,
         hurt \subseteq hurt', NEW y, worker'[w] = y, UNCHANGED <<unused, issuer>>,
         \/ y = Idle
         \/ /\ y.pc \in {"writeCrt", "writeKey", "add", "update", "load"}
            /\ y.entry = worker[w].entry,
         \A c \in Cert :
           Clean(c)' => /\ ListHolds(c)' /\ (c # worker[w].entry.id => Kept(c))
                        /\ c = worker[w].entry.id =>
                             IF y = Idle THEN Backed(c)' /\ Shown(c)' ELSE StoringHolds(w, c)'
  PROVE  StoreEffect(w)
<1>1. PICK x : x = worker[w]
  OBVIOUS
<1>2. x.entry.id \in x.on /\ ~Reloading(w) /\ x # Idle
  <2>1. worker[w].entry.id \in worker[w].on
    BY WritingOn DEF Writing
  <2>2. ~Reloading(w) /\ worker[w] # Idle
    BY DEF Writing, Reloading, Idle
  <2> QED
    BY <1>1, <2>1, <2>2
<1>3. Follows(w)' /\ Registered(w)'
  <2>1. y.pc \in {"idle", "writeCrt", "writeKey", "add", "update", "load"}
    BY DEF Idle
  <2> QED
    BY <2>1, FollowsNothing DEF Resting
<1>4. ASSUME NEW c \in Cert, Clean(c)'
      PROVE  StoreStep(w, c)
  <2>1. ListHolds(c)' /\ (c # x.entry.id => Kept(c)) /\ StoreHolds(c)
    BY <1>1, <1>4, CleanBefore
  <2>2. c = x.entry.id => c \notin unused
    BY <1>1, <1>4, WritingBefore
  <2>3. c \in unused' => ~Configured(c)' /\ ~(Writing(w)' /\ worker'[w].entry.id = c)
    <3> SUFFICES ASSUME c \in unused'
                 PROVE  ~Configured(c)' /\ ~(Writing(w)' /\ worker'[w].entry.id = c)
      OBVIOUS
    <3>1. c # x.entry.id /\ Kept(c) /\ ~Configured(c)
      BY <2>1, <2>2 DEF StoreHolds, UnusedHolds
    <3> QED
      BY <1>1, <3>1 DEF Kept, EntryKept, Writing, Idle
  <2>4. LocalsHold(w, c)'
    <3>1. CASE y = Idle
      BY <3>1, NothingHeld DEF Idle, Resting
    <3>2. CASE y # Idle /\ c = x.entry.id
      BY <1>1, <1>4, <3>2, WritingHeld
    <3>3. CASE y # Idle /\ c # x.entry.id
      <4>1. StoringHolds(w, c)'
        BY <1>1, <3>3 DEF StoringHolds
      <4> QED
        BY <1>1, <3>3, <4>1, WritingHeld
    <3> QED
      BY <3>1, <3>2, <3>3
  <2>5. FilesStep(w, c)
    <3>1. CASE c # x.entry.id
      <4>1. ~HalfWay(w, c)
        BY <1>1, <3>1 DEF HalfWay, Writing, At
      <4> QED
        BY <1>2, <2>1, <3>1, <4>1 DEF FilesStep
    <3>2. CASE c = x.entry.id /\ y = Idle
      BY <1>1, <1>2, <1>4, <3>2 DEF FilesStep
    <3>3. CASE c = x.entry.id /\ y # Idle
      <4>1. HalfWay(w, c)'
        BY <1>1, <3>3 DEF HalfWay, Writing
      <4> QED
        BY <1>1, <1>2, <3>3, <4>1 DEF FilesStep
    <3> QED
      BY <3>1, <3>2, <3>3
  <2> QED
    BY <2>1, <2>3, <2>4, <2>5 DEF StoreStep
<1> QED
  BY <1>1, <1>2, <1>3, <1>4 DEF StoreEffect

(* A file is written, or it is not and the certificate bears the mark. *)
LEMMA WrittenFile ==
  ASSUME TablesOK, NEW c \in Cert, NEW part \in {"crt", "key"}, NEW p,
         NEW w, NEW x, WriteFile(c, part, p, Goto(w, x), Goto(w, Idle))
  PROVE  /\ raced' = raced \cup Contended /\ hurt \subseteq hurt'
         /\ \A d \in Cert : d # c => disk'[d] = disk[d]
         /\ \/ /\ Goto(w, x) /\ disk'[c].crt = (IF part = "crt" THEN p ELSE disk[c].crt)
               /\ part = "key" => disk'[c] = [crt |-> disk[c].crt, key |-> p]
            \/ Goto(w, Idle) /\ c \in hurt'
<1>1. disk \in [Cert -> File] /\ disk[c] \in File
  BY DEF TablesOK
<1>2. disk[c] = [crt |-> disk[c].crt, key |-> disk[c].key]
  BY <1>1 DEF File
<1>3. CASE disk' = [disk EXCEPT ![c][part] = p] /\ Goto(w, x) /\ Mark({})
  <2>0. PICK f : f = [disk[c] EXCEPT ![part] = p]
    OBVIOUS
  <2>1. disk' = [disk EXCEPT ![c] = f]
    BY <1>3, <2>0
  <2>2. /\ f.crt = (IF part = "crt" THEN p ELSE disk[c].crt)
        /\ part = "key" => f = [crt |-> disk[c].crt, key |-> p]
    BY <1>2, <2>0
  <2>3. disk'[c] = f /\ \A d \in Cert : d # c => disk'[d] = disk[d]
    BY <1>1, <2>1
  <2>4. raced' = raced \cup Contended /\ hurt \subseteq hurt'
    BY <1>3 DEF Mark
  <2>5. /\ disk'[c].crt = (IF part = "crt" THEN p ELSE disk[c].crt)
        /\ part = "key" => disk'[c] = [crt |-> disk[c].crt, key |-> p]
    BY <2>2, <2>3
  <2> QED
    BY <1>3, <2>3, <2>4, <2>5, Zenon
<1>4. ASSUME NEW left, disk' = [disk EXCEPT ![c][part] = left], Goto(w, Idle), Mark({c})
      PROVE  /\ \A d \in Cert : d # c => disk'[d] = disk[d]
             /\ raced' = raced \cup Contended /\ hurt \subseteq hurt' /\ c \in hurt'
  BY <1>1, <1>4 DEF Mark
<1> QED
  BY <1>3, <1>4 DEF WriteFile

LEMMA WriteCrtStore ==
  ASSUME TypeInv, StoreInv, NEW w \in Worker, WriteCrt(w), UNCHANGED installation
  PROVE  StoreEffect(w)
<1>1. PICK x : x = worker[w]
  OBVIOUS
<1>2. PICK e : e = x.entry
  OBVIOUS
<1>3. PICK y : y = [x EXCEPT !.pc = "writeKey"]
  OBVIOUS
<1>4. /\ x.pc = "writeCrt" /\ UNCHANGED <<configVars, loaded, unused, issuer>>
      /\ WriteFile(e.id, "crt", e.expires, Goto(w, y), Goto(w, Idle))
  BY <1>1, <1>2, <1>3 DEF WriteCrt, At, tableVars, caVars
<1>5. Writing(w) /\ x \in WritingState /\ e.id \in Cert
  BY <1>1, <1>2, <1>4, WritingOn DEF Writing
<1>6. /\ y.pc = "writeKey" /\ y.entry = e /\ y.serves = x.serves /\ y.then = x.then
  BY <1>2, <1>3, <1>5 DEF WritingState
<1>7. /\ raced' = raced \cup Contended /\ hurt \subseteq hurt'
      /\ \A d \in Cert : d # e.id => disk'[d] = disk[d]
      /\ (Goto(w, y) /\ disk'[e.id].crt = e.expires) \/ (Goto(w, Idle) /\ e.id \in hurt')
  BY <1>4, <1>5, WrittenFile DEF TypeInv
<1>8. (worker'[w] = y /\ disk'[e.id].crt = e.expires) \/ (worker'[w] = Idle /\ e.id \in hurt')
  BY <1>7, GotoMoves DEF TypeInv, Moves
<1>9. ASSUME NEW c \in Cert, Clean(c)'
      PROVE  /\ ListHolds(c)' /\ (c # e.id => Kept(c))
             /\ c = e.id => worker'[w] = y /\ StoringHolds(w, c)'
  <2>1. EntryKept(c) /\ ListHolds(c)'
    BY <1>4, <1>7, <1>9, CleanBefore, AlikeLists DEF StoreHolds
  <2>2. c # e.id => Kept(c)
    BY <1>4, <1>7, <2>1 DEF Kept
  <2>3. ASSUME c = e.id
        PROVE  worker'[w] = y /\ StoringHolds(w, c)'
    <3>1. /\ DraftHolds("writeCrt", e, c) /\ e.source = "imported"
          /\ x.serves = e.expires \/ e.terms = SelfSigned
          /\ x.then = "add" => ~Configured(c)
      BY <1>1, <1>2, <1>4, <1>5, <1>7, <1>9, <2>3, WritingBefore
    <3>2. worker'[w] = y /\ disk'[c].crt = e.expires
      BY <1>8, <1>9, <2>3 DEF Clean
    <3>3. DraftHolds("writeKey", e, c)'
      BY <3>1, <3>2 DEF DraftHolds
    <3> QED
      BY <1>6, <2>1, <3>1, <3>2, <3>3 DEF StoringHolds, At, EntryKept
  <2> QED
    BY <2>1, <2>2, <2>3
<1>10. y # Idle
  BY <1>6 DEF Idle
<1>11. worker'[w] = Idle \/ worker'[w] = y
  BY <1>8
<1> QED
  BY <1>1, <1>2, <1>4, <1>5, <1>6, <1>7, <1>9, <1>10, <1>11, WritingStore

LEMMA WriteKeyStore ==
  ASSUME TypeInv, StoreInv, NEW w \in Worker, WriteKey(w), UNCHANGED installation
  PROVE  StoreEffect(w)
<1>1. PICK x : x = worker[w]
  OBVIOUS
<1>2. PICK e : e = x.entry
  OBVIOUS
<1>3. PICK y : y = [x EXCEPT !.pc = x.then]
  OBVIOUS
<1>4. /\ x.pc = "writeKey" /\ UNCHANGED <<configVars, loaded, unused, issuer>>
      /\ WriteFile(e.id, "key", e.expires, Goto(w, y), Goto(w, Idle))
  BY <1>1, <1>2, <1>3 DEF WriteKey, At, tableVars, caVars
<1>5. Writing(w) /\ x \in WritingState /\ e.id \in Cert /\ x.then \in {"add", "update"}
  BY <1>1, <1>2, <1>4, WritingOn DEF Writing
<1>6. /\ y.pc = x.then /\ y.entry = e /\ y.serves = x.serves
  BY <1>2, <1>3, <1>5 DEF WritingState
<1>7. /\ raced' = raced \cup Contended /\ hurt \subseteq hurt'
      /\ \A d \in Cert : d # e.id => disk'[d] = disk[d]
      /\ \/ Goto(w, y) /\ disk'[e.id] = [crt |-> disk[e.id].crt, key |-> e.expires]
         \/ Goto(w, Idle) /\ e.id \in hurt'
  BY <1>4, <1>5, WrittenFile DEF TypeInv
<1>8. \/ worker'[w] = y /\ disk'[e.id] = [crt |-> disk[e.id].crt, key |-> e.expires]
      \/ worker'[w] = Idle /\ e.id \in hurt'
  BY <1>7, GotoMoves DEF TypeInv, Moves
<1>9. ASSUME NEW c \in Cert, Clean(c)'
      PROVE  /\ ListHolds(c)' /\ (c # e.id => Kept(c))
             /\ c = e.id => worker'[w] = y /\ StoringHolds(w, c)'
  <2>1. EntryKept(c) /\ ListHolds(c)'
    BY <1>4, <1>7, <1>9, CleanBefore, AlikeLists DEF StoreHolds
  <2>2. c # e.id => Kept(c)
    BY <1>4, <1>7, <2>1 DEF Kept
  <2>3. ASSUME c = e.id
        PROVE  worker'[w] = y /\ StoringHolds(w, c)'
    <3>1. /\ DraftHolds("writeKey", e, c) /\ e.source = "imported"
          /\ x.serves = e.expires \/ e.terms = SelfSigned
          /\ x.then = "add" => ~Configured(c)
      BY <1>1, <1>2, <1>4, <1>5, <1>7, <1>9, <2>3, WritingBefore
    <3>2. worker'[w] = y /\ disk'[c] = [crt |-> disk[c].crt, key |-> e.expires]
      BY <1>8, <1>9, <2>3 DEF Clean
    <3>3. disk'[c] = PairOf(e)
      BY <3>1, <3>2 DEF DraftHolds, PairOf
    <3>4. DraftHolds(x.then, e, c)'
      BY <1>5, <2>1, <3>1, <3>3 DEF DraftHolds, PairOf, EntryKept
    <3> QED
      BY <1>5, <1>6, <3>1, <3>2, <3>4 DEF StoringHolds, At
  <2> QED
    BY <2>1, <2>2, <2>3
<1>10. y # Idle /\ y.pc \in {"add", "update"}
  BY <1>5, <1>6 DEF Idle
<1>11. worker'[w] = Idle \/ worker'[w] = y
  BY <1>8
<1> QED
  BY <1>1, <1>2, <1>4, <1>5, <1>6, <1>7, <1>9, <1>10, <1>11, WritingStore

LEMMA AddImportedStore ==
  ASSUME TypeInv, StoreInv, NEW w \in Worker, AddImported(w), UNCHANGED installation
  PROVE  StoreEffect(w)
<1>1. PICK x : x = worker[w]
  OBVIOUS
<1>2. PICK e : e = x.entry
  OBVIOUS
<1>3. PICK y : y = [x EXCEPT !.pc = "load"]
  OBVIOUS
<1>4. x.pc = "add" /\ UNCHANGED <<disk, loaded, unused, issuer>>
  BY <1>1 DEF AddImported, At, tableVars, caVars
<1>5. Writing(w) /\ x \in WritingState /\ e \in Entry
  BY <1>1, <1>2, <1>4, WritingOn DEF Writing
<1>6. /\ y.pc = "load" /\ y.entry = e /\ y.serves = x.serves
  BY <1>2, <1>3, <1>5 DEF WritingState
<1>7. PICK ws \in AfterAppend :
        /\ Added(e) /\ raced' = raced \cup Contended /\ hurt \subseteq hurt'
        /\ \/ worker' = [ws EXCEPT ![w] = y]
           \/ worker' = [ws EXCEPT ![w] = Idle] /\ e.id \in hurt'
  BY <1>1, <1>2, <1>3 DEF AddImported, AddEntry, Saves, Mark, Added, Stored
<1>8. worker'[w] = y \/ (worker'[w] = Idle /\ e.id \in hurt')
  BY <1>7, AppendMoves DEF TypeInv, Moves
<1>9. ASSUME NEW c \in Cert, Clean(c)'
      PROVE  /\ ListHolds(c)' /\ (c # e.id => Kept(c))
             /\ c = e.id => worker'[w] = y /\ StoringHolds(w, c)'
  <2>1. ListHolds(c) /\ c \notin hurt'
    BY <1>7, <1>9, CleanBefore DEF StoreHolds
  <2>2. c = e.id => /\ DraftHolds("add", e, c) /\ e.source = "imported"
                    /\ x.serves = e.expires \/ e.terms = SelfSigned
    BY <1>1, <1>2, <1>4, <1>5, <1>7, <1>9, WritingBefore
  <2>3. /\ ListHolds(c)' /\ (Configured(c)' <=> Configured(c) \/ c = e.id)
        /\ Configured(c)' => Element(certs', c) = IF c = e.id THEN e ELSE Element(certs, c)
    BY <1>5, <1>7, <2>1, <2>2, AddedOnce DEF TypeInv, DraftHolds
  <2>4. c # e.id => Kept(c)
    BY <1>4, <2>3 DEF Kept, EntryKept, SameIssue
  <2>5. ASSUME c = e.id
        PROVE  worker'[w] = y /\ StoringHolds(w, c)'
    <3>1. worker'[w] = y
      BY <1>8, <2>1, <2>5
    <3>2. Configured(c)' /\ Element(certs', c) = e
      BY <2>3, <2>5
    <3>3. DraftHolds("load", e, c)'
      BY <1>4, <2>2, <2>5, <3>2 DEF DraftHolds, PairOf, SameIssue
    <3> QED
      BY <1>6, <2>2, <2>5, <3>1, <3>2, <3>3 DEF StoringHolds, At
  <2> QED
    BY <2>3, <2>4, <2>5
<1>10. y # Idle
  BY <1>6 DEF Idle
<1>11. worker'[w] = Idle \/ worker'[w] = y
  BY <1>8
<1> QED
  BY <1>1, <1>2, <1>4, <1>5, <1>6, <1>7, <1>9, <1>10, <1>11, WritingStore

LEMMA UpdateImportedStore ==
  ASSUME TypeInv, SafeInv, StoreInv, NEW w \in Worker, UpdateImported(w), UNCHANGED installation
  PROVE  StoreEffect(w)
<1>1. PICK x : x = worker[w]
  OBVIOUS
<1>2. PICK e : e = x.entry
  OBVIOUS
<1>3. PICK y : y = [x EXCEPT !.pc = "load"]
  OBVIOUS
<1>4. x.pc = "update" /\ UNCHANGED <<disk, loaded, unused, issuer>>
  BY <1>1 DEF UpdateImported, At, tableVars, caVars
<1>5. Writing(w) /\ x \in WritingState /\ e \in Entry
  BY <1>1, <1>2, <1>4, WritingOn DEF Writing
<1>6. /\ y.pc = "load" /\ y.entry = e /\ y.serves = x.serves
  BY <1>2, <1>3, <1>5 DEF WritingState
<1>7. /\ Updated(e) /\ raced' = raced \cup Contended /\ hurt \subseteq hurt'
      /\ Goto(w, y) \/ (Goto(w, Idle) /\ e.id \in hurt')
  BY <1>1, <1>2, <1>3 DEF UpdateImported, UpdateEntry, Saves, Mark, Updated, Stored
<1>8. worker'[w] = y \/ (worker'[w] = Idle /\ e.id \in hurt')
  BY <1>7, GotoMoves DEF TypeInv, Moves
<1>9. ASSUME NEW c \in Cert, Clean(c)'
      PROVE  /\ ListHolds(c)' /\ (c # e.id => Kept(c))
             /\ c = e.id => worker'[w] = y /\ StoringHolds(w, c)'
  <2>1. ListHolds(c) /\ c \notin hurt' /\ Clean(c)
    BY <1>7, <1>9, CleanBefore DEF StoreHolds
  <2>2. c = e.id => /\ DraftHolds("update", e, c) /\ e.source = "imported"
                    /\ x.serves = e.expires \/ e.terms = SelfSigned
    BY <1>1, <1>2, <1>4, <1>5, <1>7, <1>9, WritingBefore
  <2>3. c = e.id => Configured(c)
    BY <1>1, <1>2, <1>4, <2>1 DEF SafeInv, WorkerHolds
  <2>4. /\ ListHolds(c)' /\ (Configured(c)' <=> Configured(c))
        /\ Configured(c) => Element(certs', c) = IF c = e.id THEN e ELSE Element(certs, c)
    BY <1>5, <1>7, <2>1, <2>2, UpdatedOnce DEF TypeInv, DraftHolds
  <2>5. c # e.id => Kept(c)
    BY <1>4, <2>4 DEF Kept, EntryKept, SameIssue
  <2>6. ASSUME c = e.id
        PROVE  worker'[w] = y /\ StoringHolds(w, c)'
    <3>1. worker'[w] = y
      BY <1>8, <2>1, <2>6
    <3>2. Configured(c)' /\ Element(certs', c) = e
      BY <2>3, <2>4, <2>6
    <3>3. DraftHolds("load", e, c)'
      BY <1>4, <2>2, <2>6, <3>2 DEF DraftHolds, PairOf, SameIssue
    <3> QED
      BY <1>6, <2>2, <2>6, <3>1, <3>2, <3>3 DEF StoringHolds, At
  <2> QED
    BY <2>4, <2>5, <2>6
<1>10. y # Idle
  BY <1>6 DEF Idle
<1>11. worker'[w] = Idle \/ worker'[w] = y
  BY <1>8
<1> QED
  BY <1>1, <1>2, <1>4, <1>5, <1>6, <1>7, <1>9, <1>10, <1>11, WritingStore

(* What is served of a certificate is not nothing. *)
LEMMA ServedIsSome ==
  ASSUME NEW t \in Chosen, NEW p \in MaybeIssue
  PROVE  Served(t, p) # None /\ Served(t, p).issue = p
<1>1. None \notin [terms : Terms \cup {SelfSigned}, issue : Issue \cup {None}]
  BY CertificateAssumption
<1> QED
  BY <1>1 DEF Served, Chosen, MaybeIssue

LEMMA LoadImportedStore ==
  ASSUME TypeInv, StoreInv, NEW w \in Worker, LoadImported(w), UNCHANGED installation
  PROVE  StoreEffect(w)
<1>1. PICK x : x = worker[w]
  OBVIOUS
<1>2. PICK e : e = x.entry
  OBVIOUS
<1>3. PICK p : p = Served(e.terms, x.serves)
  OBVIOUS
<1>4. /\ x.pc = "load" /\ loaded' = [loaded EXCEPT ![e.id] = p] /\ Goto(w, Idle)
      /\ raced' = raced \cup Contended /\ hurt \subseteq hurt'
      /\ UNCHANGED <<configVars, disk, unused, issuer>>
  BY <1>1, <1>2, <1>3 DEF LoadImported, At, Mark, caVars
<1>5. Writing(w) /\ e \in Entry /\ e.id \in Cert
  BY <1>1, <1>2, <1>4, WritingOn DEF Writing
<1>6. p # None /\ p.issue = x.serves
  <2>1. e.terms \in Chosen /\ x.serves \in MaybeIssue
    BY <1>1, <1>2, <1>4, WritingOn
  <2> QED
    BY <1>3, <2>1, ServedIsSome
<1>7. worker'[w] = Idle
  BY <1>4, GotoMoves DEF TypeInv, Moves
<1>8. loaded'[e.id] = p /\ \A d \in Cert : d # e.id => loaded'[d] = loaded[d]
  BY <1>4, <1>5 DEF TypeInv, TablesOK, Table
<1>9. ASSUME NEW c \in Cert, Clean(c)'
      PROVE  /\ ListHolds(c)' /\ (c # e.id => Kept(c))
             /\ c = e.id => Backed(c)' /\ Shown(c)'
  <2>1. EntryKept(c) /\ ListHolds(c)'
    BY <1>4, <1>9, CleanBefore, AlikeLists DEF StoreHolds
  <2>2. c # e.id => Kept(c)
    BY <1>4, <1>8, <2>1 DEF Kept
  <2>3. ASSUME c = e.id
        PROVE  Backed(c)' /\ Shown(c)'
    <3>1. /\ DraftHolds("load", e, c) /\ e.source = "imported"
          /\ x.serves = e.expires \/ e.terms = SelfSigned
          /\ e.terms = Element(certs, c).terms
      BY <1>1, <1>2, <1>4, <1>5, <1>9, <2>3, WritingBefore
    <3>2. PICK g : g = Element(certs, c)
      OBVIOUS
    <3>3. Element(certs', c) = g /\ g.source = "imported" /\ g.expires = e.expires
          /\ g.terms = e.terms /\ e.expires # None /\ disk[c] = PairOf(e)
      BY <1>4, <3>1, <3>2 DEF configVars, DraftHolds, SameIssue
    <3>4. Backed(c)'
      BY <1>4, <3>3 DEF Backed, PairOf
    <3>5. Shown(c)'
      BY <1>6, <1>8, <2>3, <3>1, <3>3 DEF Shown
    <3> QED
      BY <3>4, <3>5
  <2> QED
    BY <2>1, <2>2, <2>3
<1> QED
  BY <1>1, <1>2, <1>4, <1>5, <1>7, <1>9, WritingStore

-----------------------------------------------------------------------------
(* An edit, and the Reload it ends with *)

LEMMA StoreEditStore ==
  ASSUME TypeInv, StoreInv, NEW w \in Worker, StoreEdit(w), UNCHANGED installation
  PROVE  StoreEffect(w)
<1>1. PICK x : x = worker[w]
  OBVIOUS
<1>2. PICK e : e = x.entry
  OBVIOUS
<1>3. PICK y : y = [pc |-> "reload", on |-> Cert]
  OBVIOUS
<1>4. /\ x.pc = "edit" /\ Updated(e) /\ raced' = raced \cup Contended /\ hurt \subseteq hurt'
      /\ Goto(w, y) \/ (Goto(w, Idle) /\ e.id \in hurt')
      /\ UNCHANGED <<disk, loaded, unused, issuer>>
  BY <1>1, <1>2, <1>3
  DEF StoreEdit, At, UpdateEntry, Saves, Mark, Updated, Stored, tableVars, caVars
<1>5. e \in Entry /\ x.on = Cert
  BY <1>1, <1>2, <1>4, WorkerShapes DEF TypeInv, WorkersOK, EditState
<1>6. worker'[w] = y \/ (worker'[w] = Idle /\ e.id \in hurt')
  BY <1>4, GotoMoves DEF TypeInv, Moves
<1>7. worker'[w].pc \in {"reload", "idle"}
  BY <1>3, <1>6 DEF Idle
<1>8. Follows(w)' /\ Registered(w)'
  BY <1>7, FollowsNothing DEF Resting
<1>9. ASSUME NEW c \in Cert, Clean(c)'
      PROVE  StoreStep(w, c)
  <2>1. StoreHolds(c) /\ EditHolds(w, c) /\ c \notin hurt'
    BY <1>4, <1>9, CleanBefore DEF StoreHolds, LocalsHold
  <2>2. c = e.id /\ Configured(c) => SameIssue(e, Element(certs, c))
    BY <1>1, <1>2, <1>4, <2>1 DEF EditHolds, At
  <2>3. /\ ListHolds(c)' /\ (Configured(c)' <=> Configured(c))
        /\ Configured(c) => SameIssue(Element(certs', c), Element(certs, c))
        /\ c # e.id => EntryKept(c)
    BY <1>4, <1>5, <1>9, <2>2, SoftUpdate
  <2>4. ~HalfWay(w, c) /\ ~Reloading(w)
    BY <1>1, <1>4 DEF HalfWay, Reloading, Writing, At
  <2>5. FilesStep(w, c)
    <3>1. CASE c # e.id
      BY <1>4, <2>3, <2>4, <3>1 DEF FilesStep, Kept
    <3>2. CASE c = e.id
      <4>1. Reloading(w)'
        BY <1>3, <1>6, <2>1, <3>2 DEF Reloading
      <4>2. Backed(c)
        BY <1>1, <1>4, <1>5, <1>9, <2>4, NotBetween
      <4>3. Backed(c)'
        BY <1>4, <2>3, <4>2 DEF Backed, PairOf, SameIssue
      <4> QED
        BY <1>1, <1>5, <4>1, <4>3 DEF FilesStep
    <3> QED
      BY <3>1, <3>2
  <2>6. LocalsHold(w, c)' /\ ~(Writing(w)')
    BY <1>7, NothingHeld DEF Resting
  <2>7. c \in unused' => ~Configured(c)'
    BY <1>4, <2>1, <2>3 DEF StoreHolds, UnusedHolds
  <2> QED
    BY <1>4, <2>3, <2>5, <2>6, <2>7 DEF StoreStep
<1>10. worker[w] # Idle
  BY <1>1, <1>4 DEF Idle
<1> QED
  BY <1>4, <1>8, <1>9, <1>10 DEF StoreEffect

(* Files that fit are loaded. *)
LEMMA LoadsFiles ==
  ASSUME TablesOK, NEW S \in SUBSET Entry, NEW c \in Cert, c \in IdSet(S), NEW e,
         e.expires # None, disk[c] = PairOf(e)
  PROVE  Loadable(S)[c] # None /\ Loadable(S)[c].issue = e.expires
<1>1. Fits(disk[c]) /\ disk[c].crt = e.expires
  BY DEF Fits, PairOf
<1>2. PICK t : t = (CHOOSE f \in S : f.id = c).terms
  OBVIOUS
<1>3. t \in Chosen
  <2>1. (CHOOSE f \in S : f.id = c) \in S
    BY DEF IdSet
  <2> QED
    BY <1>2, <2>1 DEF Entry, Chosen
<1>4. Loadable(S)[c] = Served(t, disk[c].crt)
  BY <1>1, <1>2 DEF Loadable
<1>5. disk[c].crt \in MaybeIssue
  BY DEF TablesOK, File, MaybeIssue
<1> QED
  BY <1>1, <1>3, <1>4, <1>5, ServedIsSome

LEMMA ReloadStore ==
  ASSUME TypeInv, StoreInv, NEW w \in Worker, Reload(w), UNCHANGED installation
  PROVE  StoreEffect(w)
<1>1. PICK T : T = Loadable(Elements(certs))
  OBVIOUS
<1>2. PICK y : y = [pc |-> "swap", on |-> Cert, table |-> T]
  OBVIOUS
<1>3. /\ worker[w].pc = "reload" /\ Goto(w, y)
      /\ raced' = raced \cup Contended /\ hurt \subseteq hurt'
      /\ UNCHANGED <<configVars, disk, loaded, unused, issuer>>
  BY <1>1, <1>2 DEF Reload, At, Mark, tableVars, caVars
<1>4. worker'[w] = y /\ y.pc = "swap" /\ y.table = T
  BY <1>2, <1>3, GotoMoves DEF TypeInv, Moves
<1>5. Follows(w)' /\ Registered(w)'
  BY <1>4, FollowsNothing
<1>6. ASSUME NEW c \in Cert, Clean(c)'
      PROVE  LocalsHold(w, c)'
  <2>1. worker[w].on = Cert /\ ~HalfWay(w, c)
    BY <1>3, WorkerShapes DEF TypeInv, WorkersOK, ReloadState, HalfWay, Writing, At
  <2>2. Backed(c)
    BY <1>3, <1>6, <2>1, NotBetween
  <2>3. SwapHolds(w, c)'
    <3>1. Configured(c)' = Configured(c) /\ Element(certs', c) = Element(certs, c)
      BY <1>3 DEF Configured, configVars
    <3> SUFFICES ASSUME Configured(c), Element(certs, c).source # "file_sync"
                 PROVE  T[c] # None /\ T[c].issue = Element(certs, c).expires
      BY <1>4, <3>1 DEF SwapHolds
    <3>2. disk[c] = PairOf(Element(certs, c)) /\ Element(certs, c).expires # None
      BY <2>2 DEF Backed
    <3>3. c \in IdSet(Elements(certs)) /\ Elements(certs) \in SUBSET Entry
      BY ElementIn DEF TypeInv, Configured, IdsOf
    <3> QED
      BY <1>1, <3>2, <3>3, LoadsFiles DEF TypeInv
  <2> QED
    BY <1>4, <2>3
    DEF LocalsHold, StoringHolds, EditHolds, TodoHolds, RenewalHolds, UnloadHolds, SyncedHolds, At,
        Renews, Writing
<1>7. Reloading(w)' /\ ~(Writing(w)') /\ worker[w] # Idle
  BY <1>3, <1>4 DEF Reloading, Writing, Idle
<1>8. \A i \in Issuer : issuer'[i] = issuer[i]
  BY <1>3
<1> QED
  BY <1>3, <1>5, <1>6, <1>7, <1>8, PlainStore

LEMMA SwapStore ==
  ASSUME TypeInv, StoreInv, NEW w \in Worker, SwapLoaded(w), UNCHANGED installation
  PROVE  StoreEffect(w)
<1>1. PICK x : x = worker[w]
  OBVIOUS
<1>2. /\ x.pc = "swap" /\ loaded' = x.table /\ Goto(w, Idle)
      /\ raced' = raced \cup Contended /\ hurt \subseteq hurt'
      /\ UNCHANGED <<configVars, disk, unused, issuer>>
  BY <1>1 DEF SwapLoaded, At, Mark, caVars
<1>3. worker'[w] = Idle /\ worker'[w].pc = "idle" /\ x # Idle
  BY <1>2, GotoMoves DEF TypeInv, Moves, Idle
<1>4. Follows(w)' /\ Registered(w)'
  BY <1>3, FollowsNothing DEF Resting
<1>5. ASSUME NEW c \in Cert, Clean(c)'
      PROVE  StoreStep(w, c)
  <2>1. StoreHolds(c) /\ SwapHolds(w, c)
    BY <1>2, <1>5, CleanBefore DEF StoreHolds, LocalsHold
  <2>2. EntryKept(c) /\ ListHolds(c)'
    BY <1>2, <2>1, AlikeLists DEF StoreHolds
  <2>3. c \in x.on /\ ~HalfWay(w, c)
    BY <1>1, <1>2, WorkerShapes DEF TypeInv, WorkersOK, SwapState, HalfWay, Writing, At
  <2>4. Backed(c)
    BY <1>1, <1>2, <1>5, <2>3, NotBetween
  <2>5. Backed(c)'
    BY <1>2, <2>4 DEF Backed, PairOf, Configured, configVars
  <2>6. Shown(c)'
    BY <1>1, <1>2, <2>1 DEF Shown, SwapHolds, At, Configured, configVars
  <2>7. FilesStep(w, c)
    BY <1>1, <2>3, <2>5, <2>6 DEF FilesStep
  <2>8. LocalsHold(w, c)' /\ ~(Writing(w)')
    BY <1>3, NothingHeld DEF Resting
  <2>9. c \in unused' => ~Configured(c)'
    BY <1>2, <2>1, <2>2 DEF StoreHolds, UnusedHolds, EntryKept
  <2> QED
    BY <1>2, <2>2, <2>7, <2>8, <2>9 DEF StoreStep
<1> QED
  BY <1>1, <1>2, <1>3, <1>4, <1>5 DEF StoreEffect

-----------------------------------------------------------------------------
(* The renewals of a maintenance pass *)

(* The worker goes on with what is left to do of a copied list. *)
LEMMA BackStore ==
  ASSUME TypeInv, StoreInv, NEW w \in Worker, raced' = raced \cup Contended,
         hurt \subseteq hurt', UNCHANGED <<configVars, disk, loaded, unused, issuer>>,
         worker[w].pc \in {"drop", "renewDue"}, NEW S \in SUBSET Entry, Goto(w, Renewing(S)),
         \A c \in Cert : Clean(c)' => Copied(S, c)
  PROVE  StoreEffect(w)
<1>1. PICK x : x = Renewing(S)
  OBVIOUS
<1>2. worker'[w] = x
  BY <1>1, GotoMoves DEF TypeInv, Moves
<1>3. x \in IdleState \cup RenewDueState
  BY <1>1, RenewingIn
<1>4. x.pc = "renewDue" => x.todo = S /\ x.on = IdSet(S)
  BY <1>1, RenewingFields
<1>5. Follows(w)' /\ Registered(w)'
  BY <1>2, <1>3, <1>4, BackRegistered
<1>6. ASSUME NEW c \in Cert, Clean(c)'
      PROVE  LocalsHold(w, c)' /\ ~(Writing(w)')
  <2>1. Copied(S, c)'
    <3>1. Configured(c)' = Configured(c) /\ Element(certs', c) = Element(certs, c)
      BY DEF Configured, configVars
    <3> QED
      BY <1>6, <3>1 DEF Copied
  <2> QED
    BY <1>2, <1>3, <1>4, <2>1, BackHeld
<1>7. worker[w] # Idle /\ ~Reloading(w)
  BY DEF Idle, Reloading
<1>8. \A i \in Issuer : issuer'[i] = issuer[i]
  OBVIOUS
<1> QED
  BY <1>5, <1>6, <1>7, <1>8, PlainStore

LEMMA ListRenewalsStore ==
  ASSUME TypeInv, StoreInv, NEW w \in Worker, ListRenewals(w), UNCHANGED installation
  PROVE  StoreEffect(w)
<1>1. PICK S : S = {e \in Elements(certs) : e.source = "acme" /\ e.autoRenew}
  OBVIOUS
<1>2. /\ worker[w].pc = "drop" /\ Goto(w, Renewing(S))
      /\ raced' = raced \cup Contended /\ hurt \subseteq hurt'
      /\ UNCHANGED <<configVars, disk, loaded, unused, issuer>>
  BY <1>1 DEF ListRenewals, At, Mark, tableVars, caVars
<1>3. S \in SUBSET Entry
  BY <1>1, ElementIn DEF TypeInv
<1>4. ASSUME NEW c \in Cert, Clean(c)'
      PROVE  Copied(S, c)
  <2>1. Single(certs, c) /\ certs \in SliceOf(Entry)
    BY <1>2, <1>4, CleanBefore DEF StoreHolds, ListHolds, TypeInv, ListsOK
  <2> SUFFICES ASSUME NEW e \in S, e.id = c
               PROVE  e.source = "acme" /\ SameIssue(e, Element(certs, c))
    BY DEF Copied
  <2>2. PICK k \in 1 .. certs.len : e = certs.cells[k]
    BY <1>1 DEF Elements
  <2>3. Element(certs, c) = e
    BY <2>1, <2>2, OnlyElement
  <2> QED
    BY <1>1, <2>3 DEF SameIssue
<1> QED
  BY <1>2, <1>3, <1>4, BackStore

LEMMA RenewDueStore ==
  ASSUME TypeInv, StoreInv, NEW w \in Worker, RenewDue(w), UNCHANGED installation
  PROVE  StoreEffect(w)
<1>1. PICK e \in worker[w].todo :
        LET back == Renewing(worker[w].todo \ {e}) IN
        \/ /\ Configured(e.id) /\ Element(certs, e.id).source = "acme"
           /\ BeginRenewal(w, e.id, back)
        \/ Goto(w, back) /\ UNCHANGED configVars
  BY DEF RenewDue
<1>2. PICK S : S = worker[w].todo \ {e}
  OBVIOUS
<1>3. /\ worker[w].pc = "renewDue" /\ Mark({})
      /\ raced' = raced \cup Contended /\ hurt \subseteq hurt'
      /\ UNCHANGED <<disk, loaded, unused, issuer>>
  BY DEF RenewDue, At, Mark, tableVars, caVars
<1>4. S \in SUBSET Entry
  BY <1>2, <1>3, WorkerShapes DEF TypeInv, WorkersOK, RenewDueState
<1>5. ASSUME NEW c \in Cert, Clean(c)'
      PROVE  Copied(S, c)
  <2>1. TodoHolds(w, c)
    BY <1>3, <1>5, CleanBefore DEF StoreHolds, LocalsHold
  <2> QED
    BY <1>2, <1>3, <2>1 DEF TodoHolds, At, Copied
<1>6. PICK back : back = Renewing(S)
  OBVIOUS
<1>7. /\ back.pc \in {"idle", "renewDue"}
      /\ back.pc = "renewDue" => back.todo = S /\ back.on = IdSet(S)
  BY <1>6, RenewingFields
<1>8. CASE /\ Configured(e.id) /\ Element(certs, e.id).source = "acme"
           /\ BeginRenewal(w, e.id, back)
  <2>1. e.id \in IdsOf(certs)
    BY <1>8 DEF Configured
  <2> QED
    BY <1>3, <1>5, <1>7, <1>8, <2>1, BeginRenewalStore
<1>9. CASE Goto(w, back) /\ UNCHANGED configVars
  BY <1>3, <1>4, <1>5, <1>6, <1>9, BackStore
<1> QED
  BY <1>1, <1>2, <1>6, <1>8, <1>9

LEMMA FillRenewAtStore ==
  ASSUME TypeInv, StoreInv, NEW w \in Worker, FillRenewAt(w), UNCHANGED installation
  PROVE  StoreEffect(w)
<1>1. PICK x : x = worker[w]
  OBVIOUS
<1>2. PICK e \in x.todo :
        LET filled == [e EXCEPT !.renewAt = e.expires]
            goOn == Goto(w, [x EXCEPT !.todo = (@ \ {e}) \cup {filled}])
        IN UpdateEntry(filled, goOn, goOn)
  BY <1>1 DEF FillRenewAt
<1>3. PICK f : f = [e EXCEPT !.renewAt = e.expires]
  OBVIOUS
<1>4. PICK y : y = [x EXCEPT !.todo = (@ \ {e}) \cup {f}]
  OBVIOUS
<1>5. /\ x.pc = "renewDue" /\ UNCHANGED <<disk, loaded, unused, issuer>>
  BY <1>1 DEF FillRenewAt, At, tableVars, caVars
<1>6. Updated(f) /\ raced' = raced \cup Contended /\ hurt \subseteq hurt' /\ Goto(w, y)
  BY <1>2, <1>3, <1>4 DEF UpdateEntry, Saves, Mark, Updated, Stored
<1>7. x \in RenewDueState /\ e \in Entry
  BY <1>1, <1>2, <1>5, WorkerShapes DEF TypeInv, WorkersOK, RenewDueState
<1>8. f \in Entry /\ f.id = e.id /\ f.source = e.source /\ SameIssue(f, e)
  BY <1>3, <1>7 DEF Entry, SameIssue
<1>9. y \in RenewDueState /\ y.pc = "renewDue" /\ y.on = x.on
      /\ y.todo = (x.todo \ {e}) \cup {f}
  BY <1>4, <1>7, <1>8 DEF RenewDueState
<1>10. worker'[w] = y
  BY <1>6, GotoMoves DEF TypeInv, Moves
<1>11. ASSUME OneAtATime'
       PROVE  Follows(w)' /\ Registered(w)'
  <2>1. Registered(w)
    BY <1>6, <1>11, OnceBefore
  <2>2. IdSet(x.todo) \subseteq x.on
    BY <1>1, <1>5, <2>1 DEF Registered, At
  <2>3. IdSet(y.todo) \subseteq y.on
    BY <1>2, <1>8, <1>9, <2>2 DEF IdSet
  <2> QED
    BY <1>9, <1>10, <2>3, BackRegistered
<1>12. ASSUME NEW c \in Cert, Clean(c)'
       PROVE  StoreStep(w, c)
  <2>1. StoreHolds(c) /\ TodoHolds(w, c)
    BY <1>6, <1>12, CleanBefore DEF StoreHolds, LocalsHold
  <2>2. Copied(x.todo, c)
    BY <1>1, <1>5, <2>1 DEF TodoHolds, At
  <2>3. f.id = c /\ Configured(c) => /\ f.source = "acme" /\ SameIssue(f, Element(certs, c))
                                     /\ Element(certs, c).source = "acme"
    BY <1>2, <1>8, <2>2 DEF Copied, SameIssue
  <2>4. /\ ListHolds(c)' /\ (Configured(c)' <=> Configured(c)) /\ EntryKept(c)
        /\ Configured(c) => /\ SameIssue(Element(certs', c), Element(certs, c))
                            /\ Element(certs', c) = IF c = f.id THEN f ELSE Element(certs, c)
    BY <1>6, <1>8, <1>12, <2>3, SoftUpdate
  <2>5. FilesStep(w, c)
    BY <1>1, <1>5, <2>4 DEF FilesStep, Kept, HalfWay, Writing, Reloading, At
  <2>6. Copied(y.todo, c)'
    <3>1. Copied(x.todo, c)'
      BY <2>2, <2>4, CopyKept
    <3> QED
      BY <1>9, <2>3, <2>4, <3>1 DEF Copied, SameIssue
  <2>7. LocalsHold(w, c)' /\ ~(Writing(w)')
    BY <1>9, <1>10, <2>6, BackHeld
  <2>8. c \in unused' => ~Configured(c)'
    BY <1>5, <2>1, <2>4 DEF StoreHolds, UnusedHolds
  <2> QED
    BY <1>5, <2>4, <2>5, <2>7, <2>8 DEF StoreStep
<1>13. worker[w] # Idle
  BY <1>1, <1>5 DEF Idle
<1> QED
  BY <1>5, <1>11, <1>12, <1>13 DEF StoreEffect

-----------------------------------------------------------------------------
(* Deletion *)

LEMMA NoPointerIsNone == None \notin Pointer
<1>1. None \notin [kept : {FALSE}, at : Nat] \cup [kept : {TRUE}, element : Entry]
  BY CertificateAssumption
<1> QED
  BY <1>1 DEF Pointer, IndexPointer, ElementPointer

LEMMA BeginDeletionStore ==
  ASSUME TypeInv, StoreInv, NEW w \in Worker, DeleteCertificate(w), UNCHANGED installation
  PROVE  StoreEffect(w)
<1>1. PICK c \in IdsOf(certs) :
        Goto(w, [pc |-> "check", on |-> {c}, id |-> c, ref |-> PointerTo(IndexOf(certs, c)),
                 kept |-> Element(certs, c).source = "file_sync"])
  BY DEF DeleteCertificate
<1>2. PICK y : y = [pc |-> "check", on |-> {c}, id |-> c, ref |-> PointerTo(IndexOf(certs, c)),
                    kept |-> Element(certs, c).source = "file_sync"]
  OBVIOUS
<1>3. /\ Begins(w) /\ raced' = raced \cup Contended /\ hurt \subseteq hurt'
      /\ UNCHANGED <<configVars, disk, loaded, unused, issuer>>
  BY DEF DeleteCertificate, Arrives, Mark, tableVars, caVars
<1>4. Goto(w, y) /\ y.pc = "check" /\ y.id = c /\ y.ref = PointerTo(IndexOf(certs, c))
  BY <1>1, <1>2
<1>5. worker'[w] = y /\ worker[w] = Idle
  BY <1>3, <1>4, GotoMoves, IdleWorker DEF TypeInv, Moves
<1>6. PointsTo(y.ref, c)'
  <2>1. PICK i : i = IndexOf(certs, c)
    OBVIOUS
  <2>2. i \in 1 .. certs.len /\ certs.cells[i].id = c
    BY <2>1, IndexOfFirst DEF TypeInv, ListsOK
  <2> QED
    BY <1>3, <1>4, <2>1, <2>2 DEF PointsTo, PointerTo, configVars
<1>7. Follows(w)' /\ Registered(w)'
  BY <1>4, <1>5, <1>6 DEF Follows, Registered, At, Renews, PointsTo
<1>8. \A d \in Cert : LocalsHold(w, d)' /\ ~(Writing(w)')
  BY <1>4, <1>5, NothingHeld DEF Resting
<1>9. worker[w].pc = "idle" /\ ~Reloading(w) /\ worker'[w] # Idle
  BY <1>4, <1>5 DEF Idle, Reloading
<1>10. \A i \in Issuer : issuer'[i] = issuer[i]
  BY <1>3
<1> QED
  BY <1>3, <1>7, <1>8, <1>9, <1>10, PlainStore

LEMMA RemoveFilesStore ==
  ASSUME TypeInv, StoreInv, NEW w \in Worker, RemoveFiles(w), UNCHANGED installation
  PROVE  StoreEffect(w)
<1>1. PICK x : x = worker[w]
  OBVIOUS
<1>2. PICK c : c = x.id
  OBVIOUS
<1>3. PICK f : f = Deref(certs, x.ref).id
  OBVIOUS
<1>4. PICK y : y = [pc |-> "delete", on |-> {c}, id |-> c]
  OBVIOUS
<1>5. /\ x.pc = "check" /\ raced' = raced \cup Contended /\ hurt \subseteq hurt'
      /\ UNCHANGED <<configVars, loaded, unused, issuer>>
  BY <1>1 DEF RemoveFiles, At, Mark, tableVars, caVars
<1>6. \/ Goto(w, Idle) /\ UNCHANGED disk
      \/ /\ Goto(w, y)
         /\ disk' = IF x.kept THEN disk ELSE [disk EXCEPT ![f] = [crt |-> None, key |-> None]]
  BY <1>1, <1>2, <1>3, <1>4 DEF RemoveFiles
<1>7. x \in CheckState /\ c \in x.on /\ x.ref # None
  <2>1. x \in CheckState
    BY <1>1, <1>5, WorkerShapes DEF TypeInv, WorkersOK
  <2> QED
    BY <1>2, <2>1, NoPointerIsNone DEF CheckState
<1>8. worker[w] # Idle /\ ~Reloading(w) /\ \A d \in Cert : ~HalfWay(w, d)
  BY <1>1, <1>5 DEF Idle, Reloading, HalfWay, Writing, At
<1>9. worker'[w] = Idle \/ worker'[w] = y
  BY <1>6, GotoMoves DEF TypeInv, Moves
<1>10. worker'[w].pc \in {"idle", "delete"}
  BY <1>4, <1>9 DEF Idle
<1>11. Follows(w)' /\ Registered(w)'
  BY <1>10, FollowsNothing DEF Resting
<1>12. ASSUME NEW d \in Cert, Clean(d)'
       PROVE  StoreStep(w, d)
  <2>1. StoreHolds(d) /\ Follows(w)
    BY <1>5, <1>12, CleanBefore
  <2>2. f = c
    BY <1>1, <1>2, <1>3, <1>5, <1>7, <2>1 DEF Follows, PointsTo, Deref
  <2>3. EntryKept(d) /\ ListHolds(d)'
    BY <1>5, <2>1, AlikeLists DEF StoreHolds
  <2>4. FilesStep(w, d)
    <3>1. CASE disk'[d] = disk[d]
      BY <1>5, <1>8, <2>3, <3>1 DEF FilesStep, Kept
    <3>2. CASE disk'[d] # disk[d]
      <4>1. Goto(w, y) /\ disk' = [disk EXCEPT ![f] = [crt |-> None, key |-> None]]
        BY <1>6, <3>2
      <4>. d = c
        BY <2>2, <3>2, <4>1 DEF TypeInv, TablesOK
      <4>2. worker'[w] = y
        BY <4>1, GotoMoves DEF TypeInv, Moves
      <4>3. HalfWay(w, d)'
        BY <1>4, <4>1, <4>2 DEF HalfWay, At
      <4> QED
        BY <1>1, <1>7, <4>1, <4>3 DEF FilesStep
    <3> QED
      BY <3>1, <3>2
  <2>5. LocalsHold(w, d)' /\ ~(Writing(w)')
    BY <1>10, NothingHeld DEF Resting
  <2>6. d \in unused' => ~Configured(d)'
    BY <1>5, <2>1, <2>3 DEF StoreHolds, UnusedHolds, EntryKept
  <2> QED
    BY <1>5, <2>3, <2>4, <2>5, <2>6 DEF StoreStep
<1> QED
  BY <1>5, <1>8, <1>11, <1>12 DEF StoreEffect

(* The entry is gone, or the certificate bears the mark. *)
LEMMA DeletingStore ==
  ASSUME TypeInv, StoreInv, NEW w \in Worker, worker[w].pc \in {"delete", "dropEntry"},
         raced' = raced \cup Contended, hurt \subseteq hurt', NEW c, c = worker[w].id,
         c \in worker[w].on, Deleted(c), UNCHANGED <<disk, loaded, unused, issuer>>,
         NEW y, worker'[w] = y,
         (y.pc = "unload" /\ y.id = c) \/ (y.pc = "idle" /\ c \in hurt')
  PROVE  StoreEffect(w)
<1>1. Follows(w)' /\ Registered(w)' /\ ~(Writing(w)')
  <2>1. Follows(w)' /\ Registered(w)'
    BY FollowsNothing DEF Resting
  <2> QED
    BY <2>1 DEF Writing
<1>2. ASSUME NEW d \in Cert, Clean(d)'
      PROVE  StoreStep(w, d)
  <2>1. StoreHolds(d) /\ ListHolds(d) /\ d \notin hurt'
    BY <1>2, CleanBefore DEF StoreHolds
  <2>2. /\ ListHolds(d)' /\ (Configured(d)' <=> Configured(d) /\ d # c)
        /\ Configured(d)' => Element(certs', d) = Element(certs, d)
    BY <2>1, DeletedOnce DEF TypeInv
  <2>3. FilesStep(w, d)
    <3>1. CASE d = c
      <4>1. Backed(d)' /\ Shown(d)'
        BY <2>2, <3>1 DEF Backed, Shown
      <4> QED
        BY <3>1, <4>1 DEF FilesStep
    <3>2. CASE d # c
      <4>1. Kept(d)
        BY <2>2, <3>2 DEF Kept, EntryKept, SameIssue
      <4>2. ~HalfWay(w, d) /\ ~Reloading(w)
        BY <3>2 DEF HalfWay, Writing, Reloading, At
      <4> QED
        BY <4>1, <4>2 DEF FilesStep
    <3> QED
      BY <3>1, <3>2
  <2>4. LocalsHold(w, d)'
    <3>1. CASE y.pc = "idle"
      BY <3>1, NothingHeld DEF Resting
    <3>2. CASE y.pc = "unload"
      <4>1. UnloadHolds(w, d)'
        BY <2>1, <2>2, <3>2 DEF UnloadHolds
      <4> QED
        BY <3>2, <4>1
        DEF LocalsHold, StoringHolds, EditHolds, SwapHolds, TodoHolds, RenewalHolds, SyncedHolds,
            At, Renews, Writing
    <3> QED
      BY <3>1, <3>2
  <2>5. d \in unused' => ~Configured(d)'
    BY <2>1, <2>2 DEF StoreHolds, UnusedHolds
  <2> QED
    BY <1>1, <2>2, <2>3, <2>4, <2>5 DEF StoreStep
<1>3. worker[w] # Idle
  BY DEF Idle
<1> QED
  BY <1>1, <1>2, <1>3 DEF StoreEffect

LEMMA DeleteConfiguredStore ==
  ASSUME TypeInv, StoreInv, NEW w \in Worker, DeleteConfigured(w), UNCHANGED installation
  PROVE  StoreEffect(w)
<1>1. PICK c : c = worker[w].id
  OBVIOUS
<1>2. PICK y : y = [pc |-> "unload", on |-> worker[w].on, id |-> c, back |-> Idle]
  OBVIOUS
<1>3. /\ worker[w].pc = "delete" /\ Deleted(c)
      /\ raced' = raced \cup Contended /\ hurt \subseteq hurt'
      /\ Goto(w, y) \/ (Goto(w, Idle) /\ c \in hurt')
      /\ UNCHANGED <<disk, loaded, unused, issuer>>
  BY <1>1, <1>2
  DEF DeleteConfigured, At, DeleteEntry, Saves, Mark, Deleted, Stored, tableVars, caVars
<1>4. c \in worker[w].on
  BY <1>1, <1>3, WorkerShapes DEF TypeInv, WorkersOK, DeleteState
<1>5. worker'[w] = y \/ (worker'[w] = Idle /\ c \in hurt')
  BY <1>3, GotoMoves DEF TypeInv, Moves
<1>6. y.pc = "unload" /\ y.id = c /\ Idle.pc = "idle"
  BY <1>2 DEF Idle
<1> QED
  BY <1>1, <1>3, <1>4, <1>5, <1>6, DeletingStore

LEMMA DropEntryStore ==
  ASSUME TypeInv, StoreInv, NEW w \in Worker, DropEntry(w), UNCHANGED installation
  PROVE  StoreEffect(w)
<1>1. PICK c : c = worker[w].id
  OBVIOUS
<1>2. PICK y : y = [worker[w] EXCEPT !.pc = "unload"]
  OBVIOUS
<1>3. /\ worker[w].pc = "dropEntry" /\ Deleted(c) /\ Goto(w, y)
      /\ raced' = raced \cup Contended /\ hurt \subseteq hurt'
      /\ UNCHANGED <<disk, loaded, unused, issuer>>
  BY <1>1, <1>2
  DEF DropEntry, At, DeleteEntry, Saves, Mark, Deleted, Stored, tableVars, caVars
<1>4. c \in worker[w].on /\ y.pc = "unload" /\ y.id = c
  BY <1>1, <1>2, <1>3, WorkerShapes DEF TypeInv, WorkersOK, DeletedState
<1>5. worker'[w] = y
  BY <1>3, GotoMoves DEF TypeInv, Moves
<1> QED
  BY <1>1, <1>3, <1>4, <1>5, DeletingStore

LEMMA UnloadStore ==
  ASSUME TypeInv, StoreInv, NEW w \in Worker, Unload(w), UNCHANGED installation
  PROVE  StoreEffect(w)
<1>1. PICK x : x = worker[w]
  OBVIOUS
<1>2. /\ x.pc = "unload" /\ loaded' = [loaded EXCEPT ![x.id] = None] /\ Goto(w, x.back)
      /\ raced' = raced \cup Contended /\ hurt \subseteq hurt'
      /\ UNCHANGED <<configVars, disk, unused, issuer>>
  BY <1>1 DEF Unload, At, Mark, caVars
<1>3. x.id \in x.on /\ x.id \in Cert /\ x.back.pc \in {"idle", "drop"}
  BY <1>1, <1>2, WorkerShapes DEF TypeInv, WorkersOK, DeletedState, IdleState, DropState
<1>4. worker'[w].pc \in {"idle", "drop"}
  BY <1>2, <1>3, GotoMoves DEF TypeInv, Moves
<1>5. Follows(w)' /\ Registered(w)'
  BY <1>4, FollowsNothing DEF Resting
<1>6. ASSUME NEW d \in Cert, Clean(d)'
      PROVE  StoreStep(w, d)
  <2>1. StoreHolds(d) /\ UnloadHolds(w, d)
    BY <1>2, <1>6, CleanBefore DEF StoreHolds, LocalsHold
  <2>2. EntryKept(d) /\ ListHolds(d)'
    BY <1>2, <2>1, AlikeLists DEF StoreHolds
  <2>3. FilesStep(w, d)
    <3>1. CASE d = x.id
      <4>1. Backed(d)' /\ Shown(d)'
        BY <1>1, <1>2, <2>1, <2>2, <3>1 DEF Backed, Shown, UnloadHolds, At, EntryKept
      <4> QED
        BY <1>1, <1>3, <3>1, <4>1 DEF FilesStep
    <3>2. CASE d # x.id
      <4>1. loaded'[d] = loaded[d]
        BY <1>2, <1>3, <3>2 DEF TypeInv, TablesOK, Table
      <4>2. ~HalfWay(w, d) /\ ~Reloading(w)
        BY <1>1, <1>2 DEF HalfWay, Writing, Reloading, At
      <4> QED
        BY <1>2, <2>2, <4>1, <4>2 DEF FilesStep, Kept
    <3> QED
      BY <3>1, <3>2
  <2>4. LocalsHold(w, d)' /\ ~(Writing(w)')
    BY <1>4, NothingHeld DEF Resting
  <2>5. d \in unused' => ~Configured(d)'
    BY <1>2, <2>1, <2>2 DEF StoreHolds, UnusedHolds, EntryKept
  <2> QED
    BY <1>2, <2>2, <2>3, <2>4, <2>5 DEF StoreStep
<1>7. worker[w] # Idle
  BY <1>1, <1>2 DEF Idle
<1> QED
  BY <1>2, <1>5, <1>6, <1>7 DEF StoreEffect

-----------------------------------------------------------------------------
(* The synchronisation with the external list *)

LEMMA BeginMaintenanceStore ==
  ASSUME TypeInv, StoreInv, NEW w \in Worker, BeginMaintenance(w), UNCHANGED installation
  PROVE  StoreEffect(w)
<1>1. PICK y : /\ Goto(w, y)
               /\ \/ y = [pc |-> "drop", on |-> {}]
                  \/ /\ y = [pc |-> "sync", on |-> external, wanted |-> external]
                     /\ external # Unreadable
  BY DEF BeginMaintenance
<1>2. /\ Begins(w) /\ raced' = raced \cup Contended /\ hurt \subseteq hurt'
      /\ UNCHANGED <<configVars, disk, loaded, unused, issuer>>
  BY DEF BeginMaintenance, Mark, tableVars, caVars
<1>3. worker'[w] = y /\ worker[w] = Idle
  BY <1>1, <1>2, GotoMoves, IdleWorker DEF TypeInv, Moves
<1>4. y.pc \in {"drop", "sync"} /\ (y.pc = "sync" => y.on \subseteq SyncCert)
  <2>1. external # Unreadable => external \subseteq SyncCert
    BY DEF TypeInv, OutsideOK
  <2> QED
    BY <1>1, <2>1
<1>5. Follows(w)' /\ Registered(w)'
  BY <1>3, <1>4 DEF Follows, Registered, At, Renews
<1>6. \A c \in Cert : LocalsHold(w, c)' /\ ~(Writing(w)')
  BY <1>3, <1>4, NothingHeld DEF Resting
<1>7. worker[w].pc = "idle" /\ ~Reloading(w) /\ worker'[w] # Idle
  BY <1>3, <1>4 DEF Idle, Reloading
<1>8. \A i \in Issuer : issuer'[i] = issuer[i]
  BY <1>2
<1> QED
  BY <1>2, <1>5, <1>6, <1>7, <1>8, PlainStore

LEMMA SyncFileStore ==
  ASSUME TypeInv, StoreInv, NEW w \in Worker, SyncFile(w), UNCHANGED installation
  PROVE  StoreEffect(w)
<1>1. PICK x : x = worker[w]
  OBVIOUS
<1>c. PICK c \in x.on :
        LET rest == [x EXCEPT !.on = @ \ {c}] IN
        Goto(w, IF ~NeedsReload(c) THEN rest
                ELSE [pc |-> "synced", on |-> x.on, id |-> c, back |-> rest,
                      ref |-> IF Configured(c) THEN PointerTo(IndexOf(certs, c)) ELSE None,
                      serves |-> IF Fits(disk[c]) THEN disk[c].crt ELSE None])
  BY <1>1 DEF SyncFile
<1>2. PICK rest, y :
        /\ rest = [x EXCEPT !.on = @ \ {c}]
        /\ y = [pc |-> "synced", on |-> x.on, id |-> c, back |-> rest,
                ref |-> IF Configured(c) THEN PointerTo(IndexOf(certs, c)) ELSE None,
                serves |-> IF Fits(disk[c]) THEN disk[c].crt ELSE None]
        /\ Goto(w, rest) \/ Goto(w, y)
  BY <1>c
<1>3. /\ x.pc = "sync" /\ raced' = raced \cup Contended /\ hurt \subseteq hurt'
      /\ UNCHANGED <<configVars, disk, loaded, unused, issuer>>
  BY <1>1 DEF SyncFile, At, Mark, tableVars, caVars
<1>4. x \in SyncState /\ c \in Cert
  <2>1. x \in SyncState
    BY <1>1, <1>3, WorkerShapes DEF TypeInv, WorkersOK
  <2> QED
    BY <2>1 DEF SyncState
<1>5. rest.pc = "sync" /\ rest.on = x.on \ {c}
  BY <1>2, <1>3, <1>4 DEF SyncState
<1>6. /\ y.pc = "synced" /\ y.id = c /\ y.back = rest
      /\ y.ref = IF Configured(c) THEN PointerTo(IndexOf(certs, c)) ELSE None
  BY <1>2
<1>7. worker'[w] = rest \/ worker'[w] = y
  BY <1>2, GotoMoves DEF TypeInv, Moves
<1>8. Configured(c) => /\ y.ref # None /\ PointsTo(y.ref, c)'
                       /\ Deref(certs', y.ref) = Element(certs, c)
  <2> SUFFICES ASSUME Configured(c)
               PROVE  /\ y.ref # None /\ PointsTo(y.ref, c)'
                      /\ Deref(certs', y.ref) = Element(certs, c)
    OBVIOUS
  <2>1. PICK i : i = IndexOf(certs, c)
    OBVIOUS
  <2>2. i \in 1 .. certs.len /\ certs.cells[i].id = c
    BY <2>1, IndexOfFirst DEF TypeInv, ListsOK, Configured
  <2>3. i \in Nat \ {0} /\ PointerTo(i) \in Pointer
    <3>1. certs.len \in Nat
      BY SliceFacts DEF TypeInv, ListsOK
    <3>2. i \in Nat \ {0}
      BY <2>2, <3>1
    <3> QED
      BY <3>2 DEF PointerTo, Pointer, IndexPointer
  <2>4. y.ref = PointerTo(i) /\ y.ref # None
    BY <1>6, <2>1, <2>3, NoPointerIsNone
  <2>5. certs' = certs
    BY <1>3 DEF configVars
  <2> QED
    BY <2>1, <2>2, <2>4, <2>5 DEF PointsTo, PointerTo, Deref, Element
<1>9. OneAtATime' => Follows(w)' /\ Registered(w)'
  <2> SUFFICES ASSUME OneAtATime' PROVE Follows(w)' /\ Registered(w)'
    OBVIOUS
  <2>1. Registered(w)
    BY <1>3, OnceBefore
  <2>2. x.on \subseteq SyncCert
    BY <1>1, <1>3, <2>1 DEF Registered, At
  <2>3. CASE worker'[w] = rest
    BY <1>5, <2>2, <2>3 DEF Follows, Registered, At, Renews
  <2>4. CASE worker'[w] = y
    <3>1. Registered(w)'
      BY <1>5, <1>6, <2>2, <2>4 DEF Registered, At, Renews
    <3>2. Follows(w)'
      BY <1>6, <1>8, <2>4 DEF Follows, PointsTo
    <3> QED
      BY <3>1, <3>2
  <2> QED
    BY <1>7, <2>3, <2>4
<1>10. \A d \in Cert : LocalsHold(w, d)' /\ ~(Writing(w)')
  <2> SUFFICES ASSUME NEW d \in Cert PROVE LocalsHold(w, d)' /\ ~(Writing(w)')
    OBVIOUS
  <2>1. CASE worker'[w] = rest
    BY <1>5, <2>1, NothingHeld DEF Resting
  <2>2. CASE worker'[w] = y
    <3>1. Configured(c)' = Configured(c) /\ Element(certs', c) = Element(certs, c)
      BY <1>3 DEF Configured, configVars
    <3>2. SyncedHolds(w, d)'
      BY <1>6, <1>8, <2>2, <3>1 DEF SyncedHolds, SameIssue
    <3> QED
      BY <1>6, <2>2, <3>2
      DEF LocalsHold, StoringHolds, EditHolds, SwapHolds, TodoHolds, RenewalHolds, UnloadHolds, At,
          Renews, Writing
  <2> QED
    BY <1>7, <2>1, <2>2
<1>11. worker[w].pc = "sync" /\ ~Reloading(w) /\ worker[w] # Idle
  BY <1>1, <1>3 DEF Idle, Reloading
<1>12. \A i \in Issuer : issuer'[i] = issuer[i]
  BY <1>3
<1> QED
  BY <1>3, <1>9, <1>10, <1>11, <1>12, PlainStore

(* An entry of the external list is never one of the others. *)
LEMMA StoreSyncedStore ==
  ASSUME TypeInv, StoreInv, NEW w \in Worker, StoreSynced(w), UNCHANGED installation
  PROVE  StoreEffect(w)
<1>1. PICK a : a = worker[w]
  OBVIOUS
<1>2. PICK e : e = SyncedEntry(a)
  OBVIOUS
<1>3. PICK on : on = [a EXCEPT !.pc = "loadSynced"]
  OBVIOUS
<1>4. a.pc = "synced" /\ UNCHANGED <<disk, loaded, unused, issuer>>
  BY <1>1 DEF StoreSynced, At, tableVars, caVars
<1>5. /\ a \in SyncedState /\ a.id \in Cert /\ a.id \in a.on /\ a.back \in SyncState
      /\ e \in Entry /\ (a.serves # None \/ a.ref = None => e.id = a.id)
  BY <1>1, <1>2, <1>4, SyncedOn
<1>6. on.pc = "loadSynced" /\ on.id = a.id /\ on.back = a.back /\ a.back.pc = "sync"
  BY <1>3, <1>5 DEF SyncedState, SyncState
<1>7. /\ raced' = raced \cup Contended /\ hurt \subseteq hurt'
      /\ \/ /\ a.ref = None /\ Added(e)
            /\ \E ws \in AfterAppend : \/ worker' = [ws EXCEPT ![w] = on]
                                       \/ worker' = [ws EXCEPT ![w] = a.back]
         \/ /\ a.ref # None /\ Updated(e)
            /\ Goto(w, on) \/ Goto(w, a.back)
  <2>1. CASE a.ref = None
    BY <1>1, <1>2, <1>3, <2>1 DEF StoreSynced, AddEntry, Saves, Mark, Added, Stored
  <2>2. CASE a.ref # None
    BY <1>1, <1>2, <1>3, <2>2 DEF StoreSynced, UpdateEntry, Saves, Mark, Updated, Stored
  <2> QED
    BY <2>1, <2>2
<1>8. worker'[w] = on \/ worker'[w] = a.back
  BY <1>7, AppendMoves, GotoMoves DEF TypeInv, Moves
<1>9. OneAtATime' => /\ Follows(w) /\ a.id \in SyncCert
                     /\ Follows(w)' /\ Registered(w)'
  <2> SUFFICES ASSUME OneAtATime'
               PROVE  Follows(w) /\ a.id \in SyncCert /\ Follows(w)' /\ Registered(w)'
    OBVIOUS
  <2>1. Follows(w) /\ Registered(w)
    BY <1>7, OnceBefore
  <2>2. a.id \in SyncCert /\ a.back.on \subseteq SyncCert
    BY <1>1, <1>4, <2>1 DEF Registered
  <2> QED
    BY <1>6, <1>8, <2>1, <2>2 DEF Follows, Registered, At, Renews
<1>10. e.id # a.id \/ e.source = "file_sync" \/ /\ a.ref # None
                                                /\ e.source = Deref(certs, a.ref).source
  <2>1. a.ref # None => Deref(certs, a.ref) \in Entry
    <3>1. a.ref \in Pointer \cup {None} /\ Leads(a.ref)
      BY <1>1, <1>4, <1>5, SyncedOn DEF SyncedState
    <3> QED
      BY <3>1, DerefIn DEF TypeInv
  <2> QED
    BY <1>2, <2>1 DEF SyncedEntry, NewEntry, Entry
<1>11. ASSUME NEW d \in Cert, Clean(d)'
       PROVE  StoreStep(w, d)
  <2>1. /\ StoreHolds(d) /\ ListHolds(d) /\ SyncedHolds(w, d) /\ d \notin hurt'
        /\ a.id \in SyncCert /\ Follows(w)
    BY <1>7, <1>9, <1>11, CleanBefore DEF StoreHolds, LocalsHold
  <2>2. e.id = a.id
    <3>1. CASE a.serves # None \/ a.ref = None
      BY <1>5, <3>1
    <3>2. CASE a.serves = None /\ a.ref # None
      <4>1. PointsTo(a.ref, a.id)
        BY <1>1, <1>4, <2>1, <3>2 DEF Follows
      <4>2. Deref(certs, a.ref).id = a.id /\ Deref(certs, a.ref) \in Entry
        <5>1. a.ref \in Pointer \cup {None} /\ Leads(a.ref)
          BY <1>1, <1>4, <1>5, SyncedOn DEF SyncedState
        <5>2. Deref(certs, a.ref) \in Entry
          BY <3>2, <5>1, DerefIn DEF TypeInv
        <5> QED
          BY <4>1, <5>2 DEF PointsTo, Deref
      <4> QED
        BY <1>2, <3>2, <4>2 DEF SyncedEntry, Entry
    <3> QED
      BY <3>1, <3>2
  <2>3. d = a.id /\ (Configured(d) \/ a.ref = None) => e.source = "file_sync"
    BY <1>1, <1>4, <1>10, <2>1, <2>2 DEF SyncedHolds, At, ListHolds, SameIssue
  <2>4. /\ ListHolds(d)'
        /\ Configured(d)' <=> Configured(d) \/ (a.ref = None /\ d = a.id)
        /\ Configured(d)' => Element(certs', d) = IF d = a.id THEN e ELSE Element(certs, d)
    <3>1. CASE a.ref = None /\ Added(e)
      <4>1. d = e.id => ~Configured(d)
        BY <1>1, <1>4, <2>1, <2>2, <3>1 DEF SyncedHolds, At
      <4> QED
        BY <1>5, <2>1, <2>2, <2>3, <3>1, <4>1, AddedOnce DEF TypeInv
    <3>2. CASE a.ref # None /\ Updated(e)
      BY <1>5, <2>1, <2>2, <2>3, <3>2, UpdatedOnce DEF TypeInv
    <3> QED
      BY <1>7, <3>1, <3>2
  <2>5. FilesStep(w, d)
    <3>1. CASE d = a.id
      <4>1. Configured(d)' => Element(certs', d).source = "file_sync"
        BY <2>3, <2>4, <3>1
      <4>2. Backed(d)' /\ Shown(d)'
        BY <4>1 DEF Backed, Shown
      <4> QED
        BY <1>1, <1>5, <3>1, <4>2 DEF FilesStep
    <3>2. CASE d # a.id
      <4>1. Kept(d)
        BY <1>4, <2>4, <3>2 DEF Kept, EntryKept, SameIssue
      <4>2. ~HalfWay(w, d) /\ ~Reloading(w)
        BY <1>1, <1>4 DEF HalfWay, Writing, Reloading, At
      <4> QED
        BY <4>1, <4>2 DEF FilesStep
    <3> QED
      BY <3>1, <3>2
  <2>6. LocalsHold(w, d)' /\ ~(Writing(w)')
    BY <1>6, <1>8, NothingHeld DEF Resting
  <2>7. d \in unused' => ~Configured(d)'
    BY <1>4, <2>1, <2>4, FreshId DEF StoreHolds, UnusedHolds
  <2> QED
    BY <1>4, <2>4, <2>5, <2>6, <2>7 DEF StoreStep
<1>12. worker[w] # Idle
  BY <1>1, <1>4 DEF Idle
<1> QED
  BY <1>4, <1>9, <1>11, <1>12 DEF StoreEffect

LEMMA LoadSyncedStore ==
  ASSUME TypeInv, StoreInv, NEW w \in Worker, LoadSynced(w), UNCHANGED installation
  PROVE  StoreEffect(w)
<1>1. PICK x : x = worker[w]
  OBVIOUS
<1>2. /\ x.pc = "loadSynced" /\ Goto(w, x.back)
      /\ loaded' = [loaded EXCEPT ![x.id] = Served(SyncTerms, x.serves)]
      /\ raced' = raced \cup Contended /\ hurt \subseteq hurt'
      /\ UNCHANGED <<configVars, disk, unused, issuer>>
  BY <1>1 DEF LoadSynced, At, Mark, caVars
<1>3. x.id \in x.on /\ x.id \in Cert /\ x.back.pc = "sync"
  BY <1>1, <1>2, SyncedOn DEF SyncState
<1>4. worker'[w] = x.back
  BY <1>2, GotoMoves DEF TypeInv, Moves
<1>5. OneAtATime' => x.id \in SyncCert /\ Follows(w)' /\ Registered(w)'
  <2> SUFFICES ASSUME OneAtATime' PROVE x.id \in SyncCert /\ Follows(w)' /\ Registered(w)'
    OBVIOUS
  <2>1. Registered(w)
    BY <1>2, OnceBefore
  <2>2. x.id \in SyncCert /\ x.back.on \subseteq SyncCert
    BY <1>1, <1>2, <2>1 DEF Registered
  <2> QED
    BY <1>3, <1>4, <2>2 DEF Follows, Registered, At, Renews
<1>6. ASSUME NEW d \in Cert, Clean(d)'
      PROVE  StoreStep(w, d)
  <2>1. StoreHolds(d) /\ ListHolds(d) /\ x.id \in SyncCert
    BY <1>2, <1>5, <1>6, CleanBefore DEF StoreHolds
  <2>2. EntryKept(d) /\ ListHolds(d)'
    BY <1>2, <2>1, AlikeLists
  <2>3. FilesStep(w, d)
    <3>1. CASE d = x.id
      <4>1. Configured(d)' => Element(certs', d).source = "file_sync"
        BY <2>1, <2>2, <3>1 DEF ListHolds
      <4>2. Backed(d)' /\ Shown(d)'
        BY <4>1 DEF Backed, Shown
      <4> QED
        BY <1>1, <1>3, <3>1, <4>2 DEF FilesStep
    <3>2. CASE d # x.id
      <4>1. loaded'[d] = loaded[d]
        BY <1>2, <1>3, <3>2 DEF TypeInv, TablesOK, Table
      <4>2. ~HalfWay(w, d) /\ ~Reloading(w)
        BY <1>1, <1>2 DEF HalfWay, Writing, Reloading, At
      <4> QED
        BY <1>2, <2>2, <4>1, <4>2 DEF FilesStep, Kept
    <3> QED
      BY <3>1, <3>2
  <2>4. LocalsHold(w, d)' /\ ~(Writing(w)')
    BY <1>3, <1>4, NothingHeld DEF Resting
  <2>5. d \in unused' => ~Configured(d)'
    BY <1>2, <2>1, <2>2 DEF StoreHolds, UnusedHolds, EntryKept
  <2> QED
    BY <1>2, <2>2, <2>3, <2>4, <2>5 DEF StoreStep
<1>7. worker[w] # Idle
  BY <1>1, <1>2 DEF Idle
<1> QED
  BY <1>2, <1>5, <1>6, <1>7 DEF StoreEffect

LEMMA ListRemovedStore ==
  ASSUME TypeInv, StoreInv, NEW w \in Worker, ListRemoved(w), UNCHANGED installation
  PROVE  StoreEffect(w)
<1>1. PICK y : Goto(w, y) /\ y.pc = "drop"
  BY DEF ListRemoved
<1>2. /\ worker[w].pc = "sync" /\ raced' = raced \cup Contended /\ hurt \subseteq hurt'
      /\ UNCHANGED <<configVars, disk, loaded, unused, issuer>>
  BY DEF ListRemoved, At, Mark, tableVars, caVars
<1>3. worker'[w].pc = "drop"
  BY <1>1, GotoMoves DEF TypeInv, Moves
<1>4. Follows(w)' /\ Registered(w)' /\ \A c \in Cert : LocalsHold(w, c)' /\ ~(Writing(w)')
  BY <1>3, FollowsNothing, NothingHeld DEF Resting
<1>5. worker[w] # Idle /\ ~Reloading(w)
  BY <1>2 DEF Idle, Reloading
<1>6. \A i \in Issuer : issuer'[i] = issuer[i]
  BY <1>2
<1> QED
  BY <1>2, <1>4, <1>5, <1>6, PlainStore

LEMMA ClearBindingStore ==
  ASSUME TypeInv, StoreInv, NEW w \in Worker, ClearBinding(w), UNCHANGED installation
  PROVE  StoreEffect(w)
<1>1. PICK y : Goto(w, y) /\ y.pc = "dropEntry"
  BY DEF ClearBinding
<1>2. /\ worker[w].pc = "drop" /\ raced' = raced \cup Contended /\ hurt \subseteq hurt'
      /\ UNCHANGED <<configVars, disk, loaded, unused, issuer>>
  BY DEF ClearBinding, At, Mark, tableVars, caVars
<1>3. worker'[w].pc = "dropEntry"
  BY <1>1, GotoMoves DEF TypeInv, Moves
<1>4. Follows(w)' /\ Registered(w)' /\ \A c \in Cert : LocalsHold(w, c)' /\ ~(Writing(w)')
  BY <1>3, FollowsNothing, NothingHeld DEF Resting
<1>5. worker[w] # Idle /\ ~Reloading(w)
  BY <1>2 DEF Idle, Reloading
<1>6. \A i \in Issuer : issuer'[i] = issuer[i]
  BY <1>2
<1> QED
  BY <1>2, <1>4, <1>5, <1>6, PlainStore

LEMMA WorkerStores ==
  ASSUME TypeInv, SafeInv, StoreInv, NEW w \in Worker,
         Request(w) \/ BeginMaintenance(w) \/ WorkerStep(w), UNCHANGED installation
  PROVE  StoreEffect(w)
<1>1. CASE Request(w)
  BY <1>1, ImportStore, GenerateStore, CreateStore, UpdateStore, RenewStore, BeginDeletionStore
  DEF Request
<1>2. CASE WriteCrt(w) \/ WriteKey(w) \/ AddImported(w) \/ UpdateImported(w) \/ LoadImported(w)
  BY <1>2, WriteCrtStore, WriteKeyStore, AddImportedStore, UpdateImportedStore,
     LoadImportedStore
<1>3. CASE StoreEdit(w) \/ Reload(w) \/ SwapLoaded(w)
  BY <1>3, StoreEditStore, ReloadStore, SwapStore
<1>4. CASE StoreRenewing(w) \/ IssueRenewal(w) \/ RefuseRenewal(w) \/ StoreRefused(w)
  BY <1>4, StoreRenewingStore, IssueRenewalStore, RefuseRenewalStore, StoreRefusedStore
<1>5. CASE RemoveFiles(w) \/ DeleteConfigured(w) \/ Unload(w)
  BY <1>5, RemoveFilesStore, DeleteConfiguredStore, UnloadStore
<1>6. CASE BeginMaintenance(w) \/ SyncFile(w) \/ StoreSynced(w) \/ LoadSynced(w)
  BY <1>6, BeginMaintenanceStore, SyncFileStore, StoreSyncedStore, LoadSyncedStore
<1>7. CASE ListRemoved(w) \/ ClearBinding(w) \/ DropEntry(w)
  BY <1>7, ListRemovedStore, ClearBindingStore, DropEntryStore
<1>8. CASE ListRenewals(w) \/ FillRenewAt(w) \/ RenewDue(w)
  BY <1>8, ListRenewalsStore, FillRenewAtStore, RenewDueStore
<1> QED
  BY <1>1, <1>2, <1>3, <1>4, <1>5, <1>6, <1>7, <1>8 DEF WorkerStep

-----------------------------------------------------------------------------
(* The steps of an issuer: workers keep what they hold of the certificates *)
(* it does not work on                                                     *)

LEMMA AlikeLocals ==
  ASSUME NEW x \in WorkerState, NEW y, Alike(x, y)
  PROVE  /\ y.pc = x.pc /\ y.on = x.on
         /\ x.pc \notin {"renew", "issue", "refused", "check", "synced", "loadSynced"} => y = x
         /\ x.pc \in {"renew", "issue", "refused"} => y.entry = x.entry /\ y.back = x.back
         /\ x.pc \in {"check", "synced", "loadSynced"} => y.id = x.id
         /\ x.pc \in {"synced", "loadSynced"} => y.back = x.back
         /\ x.pc \in {"synced", "loadSynced"} /\ x.ref = None => y = x
<1>1. CASE y = x
  BY <1>1
<1>2. ASSUME NEW p \in ElementPointer, y = [x EXCEPT !.ref = p],
             x.pc \in {"renew", "issue", "refused"}
      PROVE  y.pc = x.pc /\ y.on = x.on /\ y.entry = x.entry /\ y.back = x.back
  BY <1>2, WorkerShapes DEF RenewState
<1>3. ASSUME NEW p \in ElementPointer, y = [x EXCEPT !.ref = p], x.pc = "check"
      PROVE  y.pc = x.pc /\ y.on = x.on /\ y.id = x.id
  BY <1>3, WorkerShapes DEF CheckState
<1>4. ASSUME NEW p \in ElementPointer, y = [x EXCEPT !.ref = p],
             x.pc \in {"synced", "loadSynced"}
      PROVE  y.pc = x.pc /\ y.on = x.on /\ y.id = x.id /\ y.back = x.back
  BY <1>4, WorkerShapes DEF SyncedState
<1> QED
  BY <1>1, <1>2, <1>3, <1>4 DEF Alike

LEMMA LocalsKept ==
  ASSUME NEW v \in Worker, NEW c \in Cert, LocalsHold(v, c), NEW x \in WorkerState, NEW y,
         x = worker[v], y = worker'[v], Alike(x, y), disk'[c] = disk[c],
         Configured(c)' <=> Configured(c),
         Configured(c) => Element(certs', c) = Element(certs, c),
         x.pc \in {"renew", "issue"} /\ x.entry.id = c =>
           Deref(certs', y.ref) = Deref(certs, x.ref),
         x.pc = "synced" /\ x.id = c /\ x.ref # None =>
           Configured(c) /\ y.ref # None /\ Deref(certs', y.ref) = Deref(certs, x.ref)
  PROVE  LocalsHold(v, c)'
<1>1. /\ y.pc = x.pc
      /\ x.pc \notin {"renew", "issue", "refused", "check", "synced", "loadSynced"} => y = x
      /\ x.pc \in {"renew", "issue", "refused"} => y.entry = x.entry /\ y.back = x.back
      /\ x.pc = "synced" => y.id = x.id
      /\ x.pc = "synced" /\ x.ref = None => y.ref = None
  BY AlikeLocals
<1>2. StoringHolds(v, c)'
  BY <1>1 DEF LocalsHold, StoringHolds, Writing, At, DraftHolds, PairOf, SameIssue
<1>3. EditHolds(v, c)' /\ SwapHolds(v, c)' /\ UnloadHolds(v, c)'
  BY <1>1 DEF LocalsHold, EditHolds, SwapHolds, UnloadHolds, At, SameIssue
<1>4. TodoHolds(v, c)'
  BY <1>1 DEF LocalsHold, TodoHolds, Copied, Renews, At, SameIssue
<1>5. RenewalHolds(v, c)'
  BY <1>1 DEF LocalsHold, RenewalHolds, Renews, At, SameIssue
<1>6. SyncedHolds(v, c)'
  BY <1>1 DEF LocalsHold, SyncedHolds, At, SameIssue
<1> QED
  BY <1>2, <1>3, <1>4, <1>5, <1>6 DEF LocalsHold

(* Whatever becomes of the array, a pointer leads to the same entry. *)
LEMMA PointersFollow ==
  ASSUME TypeInv, NEW e \in Entry,
         (Updated(e) /\ UNCHANGED worker) \/ (Added(e) /\ worker' \in AfterAppend),
         NEW v \in Worker, NEW x, x = worker[v], NEW y, y = worker'[v], Holds(x), x.ref # None,
         NEW d, PointsTo(x.ref, d)
  PROVE  /\ PointsTo(y.ref, d)' /\ y.ref # None
         /\ d # e.id => Deref(certs', y.ref) = Deref(certs, x.ref)
<1>1. CASE Updated(e) /\ UNCHANGED worker
  BY <1>1, UpdatedPointers DEF TypeInv
<1>2. CASE Added(e) /\ worker' \in AfterAppend
  <2>1. x \in WorkerState /\ Leads(x.ref) /\ x.ref \in Pointer
    <3>1. x \in WorkerState /\ Leads(x.ref)
      BY DEF TypeInv, WorkersOK
    <3>2. x \in RenewState \/ x \in CheckState \/ x \in SyncedState
      BY <3>1, WorkerShapes DEF Holds
    <3> QED
      BY <3>1, <3>2 DEF RenewState, CheckState, SyncedState
  <2>2. CASE worker' = worker
    <3>1. CASE x.ref.kept
      BY <2>2, <3>1 DEF PointsTo, Deref
    <3>2. CASE ~x.ref.kept
      <4>1. PICK k : k = x.ref.at
        OBVIOUS
      <4>2. k \in 1 .. certs.len /\ certs.cells[k].id = d
        BY <3>2, <4>1 DEF PointsTo
      <4>3. certs' = Appended(certs, e)
        BY <1>2 DEF Added
      <4>4. k \in 1 .. certs'.len /\ certs'.cells[k] = certs.cells[k]
        <5>1. certs.len \in Nat
          BY SliceFacts DEF TypeInv, ListsOK
        <5>2. /\ certs'.len = certs.len + 1
              /\ \A m \in 1 .. certs.len : certs'.cells[m] = certs.cells[m]
          BY <4>3, AppendedIn DEF TypeInv, ListsOK
        <5> QED
          BY <4>2, <5>1, <5>2
      <4> QED
        BY <2>2, <3>2, <4>1, <4>2, <4>4 DEF PointsTo, Deref
    <3> QED
      BY <3>1, <3>2
  <2>3. CASE worker' # worker
    <3>1. PICK p : p = [kept |-> TRUE, element |-> Deref(certs, x.ref)]
      OBVIOUS
    <3>2. y.ref = p
      <4>1. "ref" \in DOMAIN x
        BY <2>1, WorkerShapes DEF Holds, RenewState, CheckState, SyncedState
      <4>2. y = IF "ref" \in DOMAIN worker[v] /\ worker[v].ref # None
               THEN [worker[v] EXCEPT !.ref = [kept |-> TRUE, element |-> Deref(certs, @)]]
               ELSE worker[v]
        BY <1>2, <2>3 DEF AfterAppend
      <4>3. y = [x EXCEPT !.ref = p]
        BY <3>1, <4>1, <4>2
      <4>4. x \in RenewState \/ x \in CheckState \/ x \in SyncedState
        BY <2>1, WorkerShapes DEF Holds
      <4> QED
        BY <4>3, <4>4 DEF RenewState, CheckState, SyncedState
    <3>3. Deref(certs, x.ref) \in Entry
      BY <2>1, DerefIn DEF TypeInv
    <3>4. p \in Pointer
      BY <3>1, <3>3 DEF Pointer, ElementPointer
    <3>5. p # None
      BY <3>4, NoPointerIsNone
    <3>6. p.kept /\ p.element = Deref(certs, x.ref) /\ p.element.id = d
      BY <3>1 DEF PointsTo, Deref
    <3> QED
      BY <3>2, <3>5, <3>6 DEF PointsTo, Deref
  <2> QED
    BY <2>2, <2>3
<1> QED
  BY <1>1, <1>2

-----------------------------------------------------------------------------
(* What a step of an issuer does to the four places *)

(* What an issuer does to the list, if it does anything to it. *)
ListMoves(e) ==
  \/ UNCHANGED <<certs, saved, worker>>
  \/ Updated(e) /\ UNCHANGED worker
  \/ Added(e) /\ worker' \in AfterAppend

LEMMA MovedPointers ==
  ASSUME TypeInv, NEW e \in Entry, ListMoves(e), NEW v \in Worker, NEW x, x = worker[v],
         NEW y, y = worker'[v], Holds(x), x.ref # None, NEW d, PointsTo(x.ref, d)
  PROVE  /\ PointsTo(y.ref, d)' /\ y.ref # None
         /\ d # e.id => Deref(certs', y.ref) = Deref(certs, x.ref)
<1>1. CASE UNCHANGED <<certs, saved, worker>>
  BY <1>1 DEF PointsTo
<1>2. CASE ~UNCHANGED <<certs, saved, worker>>
  BY <1>2, PointersFollow DEF ListMoves
<1> QED
  BY <1>1, <1>2

LEMMA MovedWorkers ==
  ASSUME TypeInv, NEW e, ListMoves(e)
  PROVE  \A v \in Worker : Alike(worker[v], worker'[v])
<1>1. CASE worker' = worker
  BY <1>1 DEF Alike
<1>2. CASE worker' \in AfterAppend
  BY <1>2, AfterAppendAlike DEF TypeInv
<1> QED
  BY <1>1, <1>2 DEF ListMoves

LEMMA MovedElsewhere ==
  ASSUME TypeInv, NEW e \in Entry, ListMoves(e), NEW c \in Cert, c # e.id, c \notin hurt',
         ListHolds(c)
  PROVE  /\ ListHolds(c)' /\ (Configured(c)' <=> Configured(c))
         /\ Configured(c) => Element(certs', c) = Element(certs, c)
<1>1. CASE UNCHANGED <<certs, saved, worker>>
  <2>1. UNCHANGED configVars
    BY <1>1 DEF configVars
  <2>2. ListHolds(c)'
    BY <2>1, StaysOnce
  <2> QED
    BY <1>1, <2>2 DEF Configured
<1>2. CASE Updated(e)
  BY <1>2, UpdatedOnce DEF TypeInv
<1>3. CASE Added(e)
  <2>1. /\ ListHolds(c)' /\ (Configured(c)' <=> Configured(c) \/ c = e.id)
        /\ Configured(c)' => Element(certs', c) = IF c = e.id THEN e ELSE Element(certs, c)
    BY <1>3, AddedOnce DEF TypeInv
  <2> QED
    BY <2>1
<1> QED
  BY <1>1, <1>2, <1>3 DEF ListMoves

LEMMA MovedFollow ==
  ASSUME TypeInv, NEW e \in Entry, ListMoves(e), NEW v \in Worker, Follows(v), Registered(v)
  PROVE  Follows(v)' /\ Registered(v)'
<1>1. PICK x \in WorkerState : x = worker[v]
  BY DEF TypeInv, WorkersOK
<1>2. PICK y : y = worker'[v]
  OBVIOUS
<1>3. Alike(x, y)
  BY <1>1, <1>2, MovedWorkers
<1>4. /\ y.pc = x.pc /\ y.on = x.on
      /\ x.pc \notin {"renew", "issue", "refused", "check", "synced", "loadSynced"} => y = x
      /\ x.pc \in {"renew", "issue", "refused"} => y.entry = x.entry /\ y.back = x.back
      /\ x.pc \in {"check", "synced", "loadSynced"} => y.id = x.id
      /\ x.pc \in {"synced", "loadSynced"} => y.back = x.back
      /\ x.pc \in {"synced", "loadSynced"} /\ x.ref = None => y = x
  BY <1>1, <1>3, AlikeLocals
<1>5. Registered(v)'
  BY <1>1, <1>2, <1>4 DEF Registered, At, Renews
<1>6. ASSUME y.pc \in {"renew", "issue"}
      PROVE  PointsTo(y.ref, y.entry.id)'
  <2>1. x.ref # None /\ PointsTo(x.ref, x.entry.id)
    <3>1. x.ref \in Pointer
      BY <1>1, <1>4, <1>6, WorkerShapes DEF RenewState
    <3> QED
      BY <1>1, <1>4, <1>6, <3>1, NoPointerIsNone DEF Follows
  <2> QED
    BY <1>1, <1>2, <1>4, <1>6, <2>1, MovedPointers DEF Holds
<1>7. ASSUME y.pc \in {"check", "synced"}, y.ref # None
      PROVE  PointsTo(y.ref, y.id)'
  <2>1. x.ref # None
    <3>1. x.pc = "check" => x.ref \in Pointer
      BY <1>1, WorkerShapes DEF CheckState
    <3> QED
      BY <1>4, <1>7, <3>1, NoPointerIsNone
  <2>2. PointsTo(x.ref, x.id)
    BY <1>1, <1>4, <1>7, <2>1 DEF Follows
  <2> QED
    BY <1>1, <1>2, <1>4, <1>7, <2>1, <2>2, MovedPointers DEF Holds
<1>8. Follows(v)'
  BY <1>2, <1>6, <1>7 DEF Follows
<1> QED
  BY <1>5, <1>8

LEMMA MovedLocals ==
  ASSUME TypeInv, SafeInv, NEW e \in Entry, ListMoves(e), NEW v \in Worker, Follows(v),
         NEW c \in Cert, c # e.id, c \notin hurt', Clean(c), ListHolds(c), disk'[c] = disk[c],
         LocalsHold(v, c)
  PROVE  LocalsHold(v, c)'
<1>1. PICK x \in WorkerState : x = worker[v]
  BY DEF TypeInv, WorkersOK
<1>2. PICK y : y = worker'[v]
  OBVIOUS
<1>3. Alike(x, y)
  BY <1>1, <1>2, MovedWorkers
<1>4. /\ Configured(c)' <=> Configured(c)
      /\ Configured(c) => Element(certs', c) = Element(certs, c)
  BY MovedElsewhere
<1>5. ASSUME x.pc \in {"renew", "issue"}, x.entry.id = c
      PROVE  Deref(certs', y.ref) = Deref(certs, x.ref)
  <2>1. x.ref # None /\ PointsTo(x.ref, c)
    <3>1. x.ref \in Pointer
      BY <1>1, <1>5, WorkerShapes DEF RenewState
    <3> QED
      BY <1>1, <1>5, <3>1, NoPointerIsNone DEF Follows
  <2>2. Holds(x)
    BY <1>5 DEF Holds
  <2> QED
    BY <1>1, <1>2, <2>1, <2>2, MovedPointers
<1>6. ASSUME x.pc = "synced", x.id = c, x.ref # None
      PROVE  Configured(c) /\ y.ref # None /\ Deref(certs', y.ref) = Deref(certs, x.ref)
  <2>1. PointsTo(x.ref, c)
    BY <1>1, <1>6 DEF Follows
  <2>2. Configured(c)
    BY <1>1, <1>6 DEF SafeInv, WorkerHolds
  <2>3. x.ref # None /\ Holds(x)
    BY <1>6 DEF Holds
  <2>4. y.ref # None /\ Deref(certs', y.ref) = Deref(certs, x.ref)
    BY <1>1, <1>2, <2>1, <2>3, MovedPointers
  <2> QED
    BY <2>2, <2>4
<1> QED
  BY <1>1, <1>2, <1>3, <1>4, <1>5, <1>6, LocalsKept

(* A step of i, which works on the certificate t and goes on with y. *)
LEMMA IssuerStoreSafe ==
  ASSUME TypeInv, TypeInv', SafeInv, StoreInv, NEW i \in Issuer, issuer[i].pc # "idle",
         NEW e \in Entry, e = issuer[i].entry, NEW t \in Cert, t = e.id, ListMoves(e),
         raced' = raced \cup Contended, hurt \subseteq hurt', UNCHANGED <<installation, unused>>,
         NEW y, issuer'[i] = y, y = Idle \/ y.entry.id = t,
         \A j \in Issuer \ {i} : issuer'[j] = issuer[j],
         \A c \in Cert : c # t => disk'[c] = disk[c] /\ loaded'[c] = loaded[c],
         Clean(t)' => /\ ListHolds(t)' /\ IssueHolds(i, t)'
                      /\ \/ Kept(t) /\ (Issuing(i) => Issuing(i)')
                         \/ Issuing(i)'
                         \/ Backed(t)' /\ Shown(t)'
  PROVE  StoreInv'
<1>1. unused' \subseteq installation'.fresh
  BY DEF StoreInv
<1>2. ASSUME OneAtATime', NEW v \in Worker
      PROVE  Follows(v) /\ Registered(v) /\ Follows(v)' /\ Registered(v)'
  BY <1>2, OnceBefore, MovedFollow
<1>3. ASSUME NEW v \in Worker
      PROVE  /\ worker'[v].pc = worker[v].pc /\ worker'[v].on = worker[v].on
             /\ Reloading(v)' <=> Reloading(v)
             /\ Writing(v)' => worker'[v] = worker[v]
             /\ \A c \in Cert : HalfWay(v, c)' <=> HalfWay(v, c)
  <2>1. PICK x \in WorkerState : x = worker[v]
    BY DEF TypeInv, WorkersOK
  <2>2. PICK z : z = worker'[v]
    OBVIOUS
  <2>3. Alike(x, z)
    BY <2>1, <2>2, MovedWorkers
  <2>4. /\ z.pc = x.pc /\ z.on = x.on
        /\ x.pc \notin {"renew", "issue", "refused", "check", "synced", "loadSynced"} => z = x
    BY <2>1, <2>3, AlikeLocals
  <2> QED
    BY <2>1, <2>2, <2>4 DEF HalfWay, Writing, Reloading, At
<1>4. t \in issuer[i].on /\ issuer[i] # Idle
  BY IssuerShapes DEF TypeInv, Idle
<1>5. ASSUME NEW j \in Issuer, issuer[j] # Idle
      PROVE  issuer[j].entry.id \in issuer[j].on
  <2>1. issuer[j] \in IssuerState /\ issuer[j] \notin IdleState
    BY <1>5, IdleIsIdle DEF TypeInv, IssuersOK
  <2> QED
    BY <2>1 DEF IssuerState, IssuingState, ReportState
<1>6. ASSUME NEW c \in Cert, Clean(c)'
      PROVE  StoreHolds(c)'
  <2>1. /\ StoreHolds(c) /\ c \notin hurt' /\ Clean(c) /\ c \notin Contended /\ OneAtATime'
        /\ \A v \in Worker : Follows(v)
    BY <1>6, CleanBefore
  <2>2. CASE c # t
    <3>1. /\ ListHolds(c)' /\ (Configured(c)' <=> Configured(c))
          /\ Configured(c) => Element(certs', c) = Element(certs, c)
      BY <2>1, <2>2, MovedElsewhere DEF StoreHolds
    <3>2. Kept(c)
      BY <2>2, <3>1 DEF Kept, EntryKept, SameIssue
    <3>3. \A j \in Issuer : IssuesFor(j, c)' => j # i /\ issuer'[j] = issuer[j] /\ IssuesFor(j, c)
      BY <2>2 DEF IssuesFor
    <3>4. \A j \in Issuer : IssuesFor(j, c) => j # i
      BY <2>2 DEF IssuesFor
    <3>5. UnusedHolds(c)'
      <4>1. UnusedHolds(c)
        BY <2>1 DEF StoreHolds
      <4> QED
        BY <1>3, <3>1, <3>3, <4>1 DEF UnusedHolds, Writing
    <3>6. \A v \in Worker : LocalsHold(v, c)'
      BY <2>1, <2>2, MovedLocals DEF StoreHolds
    <3>7. ASSUME NEW j \in Issuer
          PROVE  IssueHolds(j, c)'
      <4>1. CASE IssuesFor(j, c)'
        <5>1. issuer'[j] = issuer[j] /\ IssueHolds(j, c)
          BY <2>1, <3>3, <4>1 DEF StoreHolds
        <5> QED
          BY <3>2, <5>1, IssueKept DEF Kept
      <4>2. CASE ~(IssuesFor(j, c)')
        BY <4>2 DEF IssueHolds
      <4> QED
        BY <4>1, <4>2
    <3>8. FilesHold(c)'
      <4>1. Between(c) => Between(c)'
        <5>1. \A j \in Issuer : Issuing(j) /\ IssuesFor(j, c) => Issuing(j)' /\ IssuesFor(j, c)'
          BY <3>4 DEF Issuing, IssuesFor
        <5> QED
          BY <1>3, <5>1 DEF Between
      <4>2. FilesHold(c)
        BY <2>1 DEF StoreHolds
      <4> QED
        BY <1>3, <3>2, <4>1, <4>2, FilesKept DEF FilesHold
    <3> QED
      BY <3>1, <3>5, <3>6, <3>7, <3>8 DEF StoreHolds
  <2>3. CASE c = t
    <3>1. /\ ListHolds(c)' /\ IssueHolds(i, c)'
          /\ \/ Kept(c) /\ (Issuing(i) => Issuing(i)')
             \/ Issuing(i)'
             \/ Backed(c)' /\ Shown(c)'
      BY <1>6, <2>3
    <3>2. \A j \in Issuer : IssuesFor(j, c) => j = i
      BY <1>4, <1>5, <2>1, <2>3, ContendedFacts DEF IssuesFor
    <3>3. \A j \in Issuer : j # i => ~(IssuesFor(j, c)')
      BY <3>2 DEF IssuesFor
    <3>4. c \notin unused
      BY <1>4, <2>1, <2>3 DEF StoreHolds, UnusedHolds, IssuesFor
    <3>5. ASSUME NEW v \in Worker
          PROVE  LocalsHold(v, c)'
      <4>1. c \notin worker[v].on
        BY <1>4, <2>1, <2>3, ContendedFacts
      <4>2. worker'[v] \in WorkerState /\ Registered(v)' /\ c \notin worker'[v].on
        BY <1>2, <1>3, <2>1, <4>1 DEF TypeInv, WorkersOK
      <4> QED
        BY <4>2, LocalsElsewhere
    <3>6. \A j \in Issuer : IssueHolds(j, c)'
      BY <3>1, <3>3 DEF IssueHolds
    <3>7. Issuing(i)' => IssuesFor(i, c)'
      BY <2>3 DEF Issuing, IssuesFor, Idle
    <3>8. FilesHold(c)'
      <4>1. CASE Kept(c) /\ (Issuing(i) => Issuing(i)')
        <5>1. Between(c) => Between(c)'
          BY <1>3, <3>2, <3>7, <4>1 DEF Between
        <5>2. FilesHold(c)
          BY <2>1 DEF StoreHolds
        <5> QED
          BY <1>3, <4>1, <5>1, <5>2, FilesKept DEF FilesHold
      <4>2. CASE Issuing(i)'
        BY <3>7, <4>2 DEF FilesHold, Between
      <4>3. CASE Backed(c)' /\ Shown(c)'
        BY <4>3 DEF FilesHold
      <4> QED
        BY <3>1, <4>1, <4>2, <4>3
    <3> QED
      BY <3>1, <3>4, <3>5, <3>6, <3>8 DEF StoreHolds, UnusedHolds
  <2> QED
    BY <2>2, <2>3
<1> QED
  BY <1>1, <1>2, <1>6 DEF StoreInv

(* Continue, said of the function issuer. *)
LEMMA GoesTo ==
  ASSUME IssuersOK, NEW i \in Issuer, NEW y, Continue(i, y)
  PROVE  issuer'[i] = y /\ \A j \in Issuer \ {i} : issuer'[j] = issuer[j]
<1>1. issuer = [j \in Issuer |-> issuer[j]]
  BY DEF IssuersOK
<1> QED
  BY <1>1 DEF Continue

(* A step that leaves list, files and TLS table alone. *)
LEMMA IssuerPlainStore ==
  ASSUME TypeInv, TypeInv', SafeInv, StoreInv, NEW i \in Issuer, issuer[i].pc # "idle",
         UNCHANGED <<configVars, disk, loaded, worker, installation, unused>>,
         raced' = raced \cup Contended, hurt \subseteq hurt', NEW y, issuer'[i] = y,
         y = Idle \/ y.entry.id = issuer[i].entry.id,
         \A j \in Issuer \ {i} : issuer'[j] = issuer[j], Issuing(i) => Issuing(i)',
         \A t \in Cert : Clean(t)' /\ t = issuer[i].entry.id /\ IssueHolds(i, t) =>
                           IssueHolds(i, t)'
  PROVE  StoreInv'
<1>1. PICK e \in Entry : e = issuer[i].entry
  BY IssuerShapes DEF TypeInv
<1>2. PICK t \in Cert : t = e.id
  BY DEF Entry
<1>3. ListMoves(e)
  BY DEF ListMoves, configVars
<1>4. ASSUME Clean(t)'
      PROVE  ListHolds(t)' /\ IssueHolds(i, t)' /\ Kept(t)
  <2>1. StoreHolds(t)
    BY <1>4, CleanBefore
  <2>2. EntryKept(t) /\ ListHolds(t)'
    BY <2>1, AlikeLists DEF StoreHolds
  <2> QED
    BY <1>1, <1>2, <1>4, <2>1, <2>2 DEF StoreHolds, Kept
<1> QED
  BY <1>1, <1>2, <1>3, <1>4, IssuerStoreSafe

LEMMA PresentStore ==
  ASSUME TypeInv, TypeInv', SafeInv, StoreInv, NEW i \in Issuer, PresentChallenge(i),
         UNCHANGED installation
  PROVE  StoreInv'
<1>1. PICK d : Continue(i, [issuer[i] EXCEPT !.awaits = @ \cup {d}])
  BY Zenon DEF PresentChallenge
<1>2. PICK y : y = [issuer[i] EXCEPT !.awaits = @ \cup {d}]
  OBVIOUS
<1>3. /\ issuer[i].pc = "obtain" /\ Continue(i, y)
      /\ raced' = raced \cup Contended /\ hurt \subseteq hurt'
      /\ UNCHANGED <<configVars, disk, loaded, worker, unused>>
  BY <1>1, <1>2 DEF PresentChallenge, IssuerAt, Mark, caVars
<1>4. y.pc = "obtain" /\ y.entry = issuer[i].entry /\ ~Issuing(i)
  BY <1>2, <1>3, IssuerShapes DEF TypeInv, IssuingState, Issuing
<1>5. issuer'[i] = y /\ \A j \in Issuer \ {i} : issuer'[j] = issuer[j]
  BY <1>3, GoesTo DEF TypeInv
<1>6. ASSUME NEW t \in Cert, IssueHolds(i, t)
      PROVE  IssueHolds(i, t)'
  <2>1. Configured(t)' = Configured(t) /\ Element(certs', t) = Element(certs, t)
    BY <1>3 DEF Configured, configVars
  <2> QED
    BY <1>3, <1>4, <1>5, <1>6, <2>1 DEF IssueHolds, IssuesFor, IssuerAt, Issuing, Idle
<1>7. issuer[i].pc # "idle" /\ (y = Idle \/ y.entry.id = issuer[i].entry.id)
  BY <1>3, <1>4
<1> QED
  BY <1>3, <1>4, <1>5, <1>6, <1>7, IssuerPlainStore

LEMMA ObtainStore ==
  ASSUME TypeInv, TypeInv', SafeInv, StoreInv, NEW i \in Issuer, Obtain(i),
         UNCHANGED installation
  PROVE  StoreInv'
<1>1. PICK y : /\ Continue(i, y)
               /\ y = [issuer[i] EXCEPT !.pc = "writeCrt", !.entry.expires = issued + 1,
                                        !.entry.renewAt = issued + 1, !.entry.status = "valid"]
  BY Zenon DEF Obtain
<1>2. /\ issuer[i].pc = "obtain"
      /\ raced' = raced \cup Contended /\ hurt \subseteq hurt'
      /\ UNCHANGED <<configVars, disk, loaded, worker, unused>>
  BY DEF Obtain, IssuerAt, Mark
<1>3. issuer[i] \in IssuingState /\ issuer[i].entry \in Entry /\ issued + 1 # None
  BY <1>2, IssuerShapes, NextIssue, IssueIsSome DEF TypeInv, Obtain
<1>4. /\ y.pc = "writeCrt" /\ y.entry.id = issuer[i].entry.id
      /\ y.entry.source = issuer[i].entry.source /\ y.entry.expires = issued + 1
  BY <1>1, <1>3 DEF IssuingState, Entry
<1>5. issuer'[i] = y /\ \A j \in Issuer \ {i} : issuer'[j] = issuer[j]
  <2>1. issuer = [j \in Issuer |-> issuer[j]]
    BY DEF TypeInv, IssuersOK
  <2> QED
    BY <1>1, <2>1 DEF Continue
<1>6. ~Issuing(i)
  BY <1>2 DEF Issuing
<1>7. ASSUME NEW t \in Cert, IssueHolds(i, t)
      PROVE  IssueHolds(i, t)'
  <2>1. Configured(t)' = Configured(t) /\ Element(certs', t) = Element(certs, t)
    BY <1>2 DEF Configured, configVars
  <2> QED
    BY <1>2, <1>3, <1>4, <1>5, <1>7, <2>1
    DEF IssueHolds, IssuesFor, IssuerAt, Issuing, Idle, DraftHolds
<1>8. issuer[i].pc # "idle" /\ (y = Idle \/ y.entry.id = issuer[i].entry.id)
  BY <1>2, <1>4
<1> QED
  BY <1>2, <1>5, <1>6, <1>7, <1>8, IssuerPlainStore

LEMMA ObtainFailsStore ==
  ASSUME TypeInv, TypeInv', SafeInv, StoreInv, NEW i \in Issuer, ObtainFails(i),
         UNCHANGED installation
  PROVE  StoreInv'
<1>1. PICK y : /\ Continue(i, y)
               /\ y = [issuer[i] EXCEPT !.pc = "failed", !.entry.status = "error"]
  BY Zenon DEF ObtainFails
<1>2. /\ issuer[i].pc = "obtain"
      /\ raced' = raced \cup Contended /\ hurt \subseteq hurt'
      /\ UNCHANGED <<configVars, disk, loaded, worker, unused>>
  BY DEF ObtainFails, IssuerAt, Mark, caVars
<1>3. issuer[i] \in IssuingState /\ issuer[i].entry \in Entry
  BY <1>2, IssuerShapes DEF TypeInv
<1>4. /\ y.pc = "failed" /\ y.entry.id = issuer[i].entry.id
      /\ y.entry.source = issuer[i].entry.source /\ y.entry.expires = issuer[i].entry.expires
  BY <1>1, <1>3 DEF IssuingState, Entry
<1>5. issuer'[i] = y /\ \A j \in Issuer \ {i} : issuer'[j] = issuer[j]
  <2>1. issuer = [j \in Issuer |-> issuer[j]]
    BY DEF TypeInv, IssuersOK
  <2> QED
    BY <1>1, <2>1 DEF Continue
<1>6. ~Issuing(i)
  BY <1>2 DEF Issuing
<1>7. ASSUME NEW t \in Cert, IssueHolds(i, t)
      PROVE  IssueHolds(i, t)'
  <2>1. Configured(t)' = Configured(t) /\ Element(certs', t) = Element(certs, t)
    BY <1>2 DEF Configured, configVars
  <2> QED
    BY <1>2, <1>4, <1>5, <1>7, <2>1 DEF IssueHolds, IssuesFor, IssuerAt, Issuing, Idle
<1>8. issuer[i].pc # "idle" /\ (y = Idle \/ y.entry.id = issuer[i].entry.id)
  BY <1>2, <1>4
<1> QED
  BY <1>2, <1>5, <1>6, <1>7, <1>8, IssuerPlainStore

LEMMA FindStore ==
  ASSUME TypeInv, TypeInv', SafeInv, StoreInv, NEW i \in Issuer, FindConfigured(i),
         UNCHANGED installation
  PROVE  StoreInv'
<1>1. PICK pc : pc = IF Configured(issuer[i].entry.id) THEN "update" ELSE "add"
  OBVIOUS
<1>2. PICK y : y = [issuer[i] EXCEPT !.pc = pc]
  OBVIOUS
<1>3. /\ issuer[i].pc = "find" /\ Continue(i, y)
      /\ raced' = raced \cup Contended /\ hurt \subseteq hurt'
      /\ UNCHANGED <<configVars, disk, loaded, worker, unused>>
  BY <1>1, <1>2 DEF FindConfigured, IssuerAt, Mark, tableVars, caVars
<1>4. issuer[i] \in IssuingState
  BY <1>3, IssuerShapes DEF TypeInv
<1>5. /\ y.pc = pc /\ y.entry = issuer[i].entry /\ pc \in {"update", "add"}
      /\ pc = "add" => ~Configured(issuer[i].entry.id)
  BY <1>1, <1>2, <1>4 DEF IssuingState
<1>6. issuer'[i] = y /\ \A j \in Issuer \ {i} : issuer'[j] = issuer[j]
  <2>1. issuer = [j \in Issuer |-> issuer[j]]
    BY DEF TypeInv, IssuersOK
  <2> QED
    BY <1>3, <2>1 DEF Continue
<1>7. Issuing(i)'
  BY <1>5, <1>6 DEF Issuing
<1>8. ASSUME NEW t \in Cert, IssueHolds(i, t)
      PROVE  IssueHolds(i, t)'
  <2>1. Configured(t)' = Configured(t) /\ Element(certs', t) = Element(certs, t)
        /\ disk'[t] = disk[t]
    BY <1>3 DEF Configured, configVars
  <2> QED
    BY <1>3, <1>5, <1>6, <1>8, <2>1
    DEF IssueHolds, IssuesFor, IssuerAt, Issuing, Idle, DraftHolds
<1>9. issuer[i].pc # "idle" /\ (y = Idle \/ y.entry.id = issuer[i].entry.id)
  BY <1>3, <1>5
<1> QED
  BY <1>3, <1>6, <1>7, <1>8, <1>9, IssuerPlainStore

LEMMA FinishStore ==
  ASSUME TypeInv, TypeInv', SafeInv, StoreInv, NEW i \in Issuer, Finish(i),
         UNCHANGED installation
  PROVE  StoreInv'
<1>1. /\ issuer[i].pc = "report" /\ Continue(i, Idle)
      /\ raced' = raced \cup Contended /\ hurt \subseteq hurt'
      /\ UNCHANGED <<configVars, disk, loaded, worker, unused>>
  BY DEF Finish, IssuerAt, Mark, caVars
<1>2. issuer'[i] = Idle /\ \A j \in Issuer \ {i} : issuer'[j] = issuer[j]
  <2>1. issuer = [j \in Issuer |-> issuer[j]]
    BY DEF TypeInv, IssuersOK
  <2> QED
    BY <1>1, <2>1 DEF Continue
<1>3. ~Issuing(i) /\ issuer[i].pc # "idle"
  BY <1>1 DEF Issuing
<1>4. \A t \in Cert : IssueHolds(i, t)'
  BY <1>2 DEF IssueHolds, IssuesFor
<1> QED
  BY <1>1, <1>2, <1>3, <1>4, IssuerPlainStore

-----------------------------------------------------------------------------
(* An issuer stores what was issued *)

LEMMA WrittenIssue ==
  ASSUME TablesOK, NEW c \in Cert, NEW part \in {"crt", "key"}, NEW p, NEW i, NEW y, NEW z,
         WriteFile(c, part, p, Continue(i, y), Continue(i, z))
  PROVE  /\ raced' = raced \cup Contended /\ hurt \subseteq hurt'
         /\ \A d \in Cert : d # c => disk'[d] = disk[d]
         /\ \/ /\ Continue(i, y) /\ disk'[c].crt = (IF part = "crt" THEN p ELSE disk[c].crt)
               /\ part = "key" => disk'[c] = [crt |-> disk[c].crt, key |-> p]
            \/ Continue(i, z) /\ c \in hurt'
<1>1. disk \in [Cert -> File] /\ disk[c] \in File
  BY DEF TablesOK
<1>2. disk[c] = [crt |-> disk[c].crt, key |-> disk[c].key]
  BY <1>1 DEF File
<1>3. CASE disk' = [disk EXCEPT ![c][part] = p] /\ Continue(i, y) /\ Mark({})
  <2>0. PICK f : f = [disk[c] EXCEPT ![part] = p]
    OBVIOUS
  <2>1. disk' = [disk EXCEPT ![c] = f]
    BY <1>3, <2>0
  <2>2. /\ f.crt = (IF part = "crt" THEN p ELSE disk[c].crt)
        /\ part = "key" => f = [crt |-> disk[c].crt, key |-> p]
    BY <1>2, <2>0
  <2>3. disk'[c] = f /\ \A d \in Cert : d # c => disk'[d] = disk[d]
    BY <1>1, <2>1
  <2>4. raced' = raced \cup Contended /\ hurt \subseteq hurt'
    BY <1>3 DEF Mark
  <2>5. /\ disk'[c].crt = (IF part = "crt" THEN p ELSE disk[c].crt)
        /\ part = "key" => disk'[c] = [crt |-> disk[c].crt, key |-> p]
    BY <2>2, <2>3
  <2> QED
    BY <1>3, <2>3, <2>4, <2>5, Zenon
<1>4. ASSUME NEW left, disk' = [disk EXCEPT ![c][part] = left], Continue(i, z), Mark({c})
      PROVE  /\ \A d \in Cert : d # c => disk'[d] = disk[d]
             /\ raced' = raced \cup Contended /\ hurt \subseteq hurt' /\ c \in hurt'
  BY <1>1, <1>4 DEF Mark
<1> QED
  BY <1>3, <1>4 DEF WriteFile

(* What is known of a clean certificate an issuer works on. *)
LEMMA IssueBefore ==
  ASSUME TypeInv, StoreInv, NEW i \in Issuer, NEW x, x = issuer[i], x.pc \notin {"idle", "report"},
         raced' = raced \cup Contended, hurt \subseteq hurt', NEW t \in Cert, t = x.entry.id,
         Clean(t)'
  PROVE  /\ ListHolds(t) /\ t \notin hurt' /\ Clean(t) /\ x.entry.source = "acme" /\ t \notin SyncCert
         /\ Configured(t) => Element(certs, t).source = "acme"
         /\ x.pc \in {"obtain", "failed"} /\ Configured(t) =>
              x.entry.expires = Element(certs, t).expires
         /\ Issuing(i) => DraftHolds(x.pc, x.entry, t)
<1>1. StoreHolds(t) /\ t \notin hurt' /\ Clean(t)
  BY CleanBefore
<1>2. IssuesFor(i, t) /\ ~IssuerAt(i, "report")
  BY DEF IssuesFor, IssuerAt, Idle
<1> QED
  BY <1>1, <1>2 DEF StoreHolds, IssueHolds

LEMMA StoreFailureStore ==
  ASSUME TypeInv, TypeInv', SafeInv, StoreInv, NEW i \in Issuer, StoreFailure(i),
         UNCHANGED installation
  PROVE  StoreInv'
<1>1. PICK x : x = issuer[i]
  OBVIOUS
<1>2. PICK e : e = x.entry
  OBVIOUS
<1>3. /\ x.pc = "failed" /\ Report(i, "error") /\ Updated(e)
      /\ raced' = raced \cup Contended /\ hurt \subseteq hurt'
      /\ UNCHANGED <<disk, loaded, unused, worker>>
  BY <1>1, <1>2
  DEF StoreFailure, IssuerAt, UpdateEntry, Saves, Mark, Updated, Stored, tableVars, caVars
<1>4. e \in Entry /\ e.id \in Cert /\ x.pc # "idle" /\ ~Issuing(i)
  BY <1>1, <1>2, <1>3, IssuerShapes DEF TypeInv, Issuing
<1>5. PICK y \in ReportState : /\ Continue(i, y) /\ issuer'[i] = y /\ y.pc = "report"
                               /\ y.entry = e
  BY <1>1, <1>2, <1>3, ReportIn DEF TypeInv
<1>6. \A j \in Issuer \ {i} : issuer'[j] = issuer[j]
  BY <1>5, GoesTo DEF TypeInv
<1>7. PICK t \in Cert : t = e.id
  BY <1>4
<1>8. ASSUME Clean(t)'
      PROVE  ListHolds(t)' /\ IssueHolds(i, t)' /\ Kept(t)
  <2>1. /\ e.source = "acme"
        /\ Configured(t) => /\ Element(certs, t).source = "acme"
                            /\ e.expires = Element(certs, t).expires
    BY <1>1, <1>2, <1>3, <1>7, <1>8, IssueBefore
  <2>2. t = e.id /\ Configured(t) => /\ SameIssue(e, Element(certs, t))
                                     /\ Element(certs, t).source = "acme"
    BY <2>1 DEF SameIssue
  <2>3. ListHolds(t)' /\ EntryKept(t)
    BY <1>3, <1>4, <1>8, <2>2, SoftUpdate
  <2>4. IssueHolds(i, t)'
    BY <1>5 DEF IssueHolds, IssuerAt
  <2> QED
    BY <1>3, <2>3, <2>4 DEF Kept
<1>9. ListMoves(e)
  BY <1>3 DEF ListMoves
<1> QED
  BY <1>1, <1>2, <1>3, <1>4, <1>5, <1>6, <1>7, <1>8, <1>9, IssuerStoreSafe

(* A step that stores: it goes on with the same entry, or the certificate  *)
(* bears the mark.                                                         *)
LEMMA IssuingStore ==
  ASSUME TypeInv, TypeInv', SafeInv, StoreInv, NEW i \in Issuer, NEW x, x = issuer[i], Issuing(i),
         NEW e, e = x.entry, ListMoves(e), raced' = raced \cup Contended, hurt \subseteq hurt',
         UNCHANGED <<installation, loaded, unused>>, NEW y,
         y.pc \in {"writeKey", "find", "load"}, y.entry = e, NEW z, z.entry = e,
         Continue(i, y) \/ (Continue(i, z) /\ e.id \in hurt'),
         \A c \in Cert : c # e.id => disk'[c] = disk[c],
         \A t \in Cert : Clean(t)' /\ t = e.id /\ Continue(i, y) =>
                           ListHolds(t)' /\ IssueHolds(i, t)'
  PROVE  StoreInv'
<1>1. x.pc # "idle" /\ e \in Entry
  BY IssuerShapes DEF TypeInv, Issuing
<1>2. PICK t \in Cert : t = e.id
  BY <1>1 DEF Entry
<1>3. PICK u : u = issuer'[i]
  OBVIOUS
<1>4. /\ \A j \in Issuer \ {i} : issuer'[j] = issuer[j]
      /\ u.entry = e /\ ((Continue(i, y) /\ u = y) \/ e.id \in hurt')
  BY <1>3, GoesTo DEF TypeInv
<1>5. ASSUME Clean(t)'
      PROVE  ListHolds(t)' /\ IssueHolds(i, t)' /\ Issuing(i)'
  <2>1. Continue(i, y) /\ u = y
    BY <1>2, <1>4, <1>5 DEF Clean
  <2> QED
    BY <1>2, <1>3, <1>5, <2>1 DEF Issuing
<1> QED
  BY <1>1, <1>2, <1>3, <1>4, <1>5, IssuerStoreSafe

LEMMA RefuseIssuedStore ==
  ASSUME TypeInv, TypeInv', SafeInv, StoreInv, NEW i \in Issuer, RefuseIssued(i),
         UNCHANGED installation
  PROVE  StoreInv'
<1>1. PICK x : x = issuer[i]
  OBVIOUS
<1>2. PICK e : e = x.entry
  OBVIOUS
<1>3. PICK z : z = [pc |-> "report", on |-> x.on, entry |-> e, verdict |-> "error"]
  OBVIOUS
<1>4. /\ x.pc = "writeCrt" /\ Continue(i, z) /\ e.id \in hurt'
      /\ raced' = raced \cup Contended /\ hurt \subseteq hurt'
      /\ UNCHANGED <<installation, certs, saved, disk, loaded, unused, worker>>
  BY <1>1, <1>2, <1>3 DEF RefuseIssued, IssuerAt, Report, Mark, configVars, tableVars, caVars
<1>5. x.pc # "idle" /\ e \in Entry /\ z.entry = e
  BY <1>1, <1>2, <1>3, <1>4, IssuerShapes DEF TypeInv
<1>6. PICK t \in Cert : t = e.id
  BY <1>5 DEF Entry
<1>7. issuer'[i] = z /\ \A j \in Issuer \ {i} : issuer'[j] = issuer[j]
  BY <1>4, GoesTo DEF TypeInv
<1>8. ListMoves(e)
  BY <1>4 DEF ListMoves
<1>9. ~Clean(t)'
  BY <1>4, <1>6 DEF Clean
<1> QED
  BY <1>1, <1>2, <1>4, <1>5, <1>6, <1>7, <1>8, <1>9, IssuerStoreSafe

LEMMA WriteIssuedCrtStore ==
  ASSUME TypeInv, TypeInv', SafeInv, StoreInv, NEW i \in Issuer, WriteIssuedCrt(i),
         UNCHANGED installation
  PROVE  StoreInv'
<1>1. PICK x : x = issuer[i]
  OBVIOUS
<1>2. PICK e : e = x.entry
  OBVIOUS
<1>3. PICK y : y = [x EXCEPT !.pc = "writeKey"]
  OBVIOUS
<1>4. PICK z : z = [pc |-> "report", on |-> x.on, entry |-> e, verdict |-> "error"]
  OBVIOUS
<1>5. /\ x.pc = "writeCrt" /\ UNCHANGED <<certs, saved, loaded, unused, worker>>
      /\ WriteFile(e.id, "crt", e.expires, Continue(i, y), Continue(i, z))
  BY <1>1, <1>2, <1>3, <1>4
  DEF WriteIssuedCrt, IssuerAt, Report, tableVars, caVars, configVars
<1>6. x \in IssuingState /\ e \in Entry /\ e.id \in Cert
  BY <1>1, <1>2, <1>5, IssuerShapes DEF TypeInv
<1>7. y.pc = "writeKey" /\ y.entry = e /\ z.entry = e /\ Issuing(i)
  BY <1>1, <1>2, <1>3, <1>4, <1>5, <1>6 DEF IssuingState, Issuing
<1>8. /\ raced' = raced \cup Contended /\ hurt \subseteq hurt'
      /\ \A d \in Cert : d # e.id => disk'[d] = disk[d]
      /\ \/ Continue(i, y) /\ disk'[e.id].crt = e.expires
         \/ Continue(i, z) /\ e.id \in hurt'
  BY <1>5, <1>6, WrittenIssue DEF TypeInv
<1>9. ASSUME NEW t \in Cert, Clean(t)', t = e.id, Continue(i, y)
      PROVE  ListHolds(t)' /\ IssueHolds(i, t)'
  <2>1. /\ ListHolds(t) /\ e.source = "acme" /\ t \notin SyncCert /\ t \notin hurt'
        /\ Configured(t) => Element(certs, t).source = "acme"
        /\ DraftHolds("writeCrt", e, t)
    BY <1>1, <1>2, <1>5, <1>7, <1>8, <1>9, IssueBefore
  <2>2. ListHolds(t)' /\ EntryKept(t)
    BY <1>5, <2>1, AlikeLists DEF configVars
  <2>3. issuer'[i] = y /\ disk'[t].crt = e.expires
    BY <1>8, <1>9, <2>1, GoesTo DEF TypeInv
  <2>4. DraftHolds("writeKey", e, t)'
    BY <2>1, <2>3 DEF DraftHolds
  <2>5. IssueHolds(i, t)'
    BY <1>5, <1>7, <2>1, <2>3, <2>4 DEF IssueHolds, IssuerAt, Issuing, Configured
  <2> QED
    BY <2>2, <2>5
<1>10. ListMoves(e)
  BY <1>5 DEF ListMoves
<1>11. Continue(i, y) \/ (Continue(i, z) /\ e.id \in hurt')
  BY <1>8
<1> QED
  BY <1>1, <1>2, <1>5, <1>7, <1>8, <1>9, <1>10, <1>11, IssuingStore

LEMMA WriteIssuedKeyStore ==
  ASSUME TypeInv, TypeInv', SafeInv, StoreInv, NEW i \in Issuer, WriteIssuedKey(i),
         UNCHANGED installation
  PROVE  StoreInv'
<1>1. PICK x : x = issuer[i]
  OBVIOUS
<1>2. PICK e : e = x.entry
  OBVIOUS
<1>3. PICK y : y = [x EXCEPT !.pc = "find"]
  OBVIOUS
<1>4. PICK z : z = [pc |-> "report", on |-> x.on, entry |-> e, verdict |-> "error"]
  OBVIOUS
<1>5. /\ x.pc = "writeKey" /\ UNCHANGED <<certs, saved, loaded, unused, worker>>
      /\ WriteFile(e.id, "key", e.expires, Continue(i, y), Continue(i, z))
  BY <1>1, <1>2, <1>3, <1>4
  DEF WriteIssuedKey, IssuerAt, Report, tableVars, caVars, configVars
<1>6. x \in IssuingState /\ e \in Entry /\ e.id \in Cert
  BY <1>1, <1>2, <1>5, IssuerShapes DEF TypeInv
<1>7. y.pc = "find" /\ y.entry = e /\ z.entry = e /\ Issuing(i)
  BY <1>1, <1>2, <1>3, <1>4, <1>5, <1>6 DEF IssuingState, Issuing
<1>8. /\ raced' = raced \cup Contended /\ hurt \subseteq hurt'
      /\ \A d \in Cert : d # e.id => disk'[d] = disk[d]
      /\ \/ Continue(i, y) /\ disk'[e.id] = [crt |-> disk[e.id].crt, key |-> e.expires]
         \/ Continue(i, z) /\ e.id \in hurt'
  BY <1>5, <1>6, WrittenIssue DEF TypeInv
<1>9. ASSUME NEW t \in Cert, Clean(t)', t = e.id, Continue(i, y)
      PROVE  ListHolds(t)' /\ IssueHolds(i, t)'
  <2>1. /\ ListHolds(t) /\ e.source = "acme" /\ t \notin SyncCert /\ t \notin hurt'
        /\ Configured(t) => Element(certs, t).source = "acme"
        /\ DraftHolds("writeKey", e, t)
    BY <1>1, <1>2, <1>5, <1>7, <1>8, <1>9, IssueBefore
  <2>2. ListHolds(t)' /\ EntryKept(t)
    BY <1>5, <2>1, AlikeLists DEF configVars
  <2>3. issuer'[i] = y /\ disk'[t] = [crt |-> disk[t].crt, key |-> e.expires]
    BY <1>8, <1>9, <2>1, GoesTo DEF TypeInv
  <2>4. disk'[t] = PairOf(e)
    BY <2>1, <2>3 DEF DraftHolds, PairOf
  <2>5. DraftHolds("find", e, t)'
    BY <2>1, <2>4 DEF DraftHolds, PairOf
  <2>6. IssueHolds(i, t)'
    BY <1>5, <1>7, <2>1, <2>3, <2>5 DEF IssueHolds, IssuerAt, Issuing, Configured
  <2> QED
    BY <2>2, <2>6
<1>10. ListMoves(e)
  BY <1>5 DEF ListMoves
<1>11. Continue(i, y) \/ (Continue(i, z) /\ e.id \in hurt')
  BY <1>8
<1> QED
  BY <1>1, <1>2, <1>5, <1>7, <1>8, <1>9, <1>10, <1>11, IssuingStore

LEMMA AddIssuedStore ==
  ASSUME TypeInv, TypeInv', SafeInv, StoreInv, NEW i \in Issuer, AddIssued(i),
         UNCHANGED installation
  PROVE  StoreInv'
<1>1. PICK x : x = issuer[i]
  OBVIOUS
<1>2. PICK e : e = x.entry
  OBVIOUS
<1>3. PICK y : y = [x EXCEPT !.pc = "load"]
  OBVIOUS
<1>4. PICK z : z = [pc |-> "report", on |-> x.on, entry |-> e, verdict |-> "error"]
  OBVIOUS
<1>5. /\ x.pc = "add" /\ worker' \in AfterAppend /\ UNCHANGED <<disk, loaded, unused>>
      /\ AddEntry(e, Continue(i, y), Continue(i, z))
  BY <1>1, <1>2, <1>3, <1>4 DEF AddIssued, IssuerAt, Report, tableVars, caVars
<1>6. x \in IssuingState /\ e \in Entry /\ e.id \in Cert
  BY <1>1, <1>2, <1>5, IssuerShapes DEF TypeInv
<1>7. y.pc = "load" /\ y.entry = e /\ z.entry = e /\ Issuing(i)
  BY <1>1, <1>2, <1>3, <1>4, <1>5, <1>6 DEF IssuingState, Issuing
<1>8. /\ Added(e) /\ raced' = raced \cup Contended /\ hurt \subseteq hurt'
      /\ Continue(i, y) \/ (Continue(i, z) /\ e.id \in hurt')
  BY <1>5 DEF AddEntry, Saves, Mark, Added, Stored
<1>9. ASSUME NEW t \in Cert, Clean(t)', t = e.id, Continue(i, y)
      PROVE  ListHolds(t)' /\ IssueHolds(i, t)'
  <2>1. /\ ListHolds(t) /\ e.source = "acme" /\ t \notin SyncCert /\ t \notin hurt'
        /\ DraftHolds("add", e, t)
    BY <1>1, <1>2, <1>5, <1>7, <1>8, <1>9, IssueBefore
  <2>2. ~Configured(t)
    BY <2>1 DEF DraftHolds
  <2>3. /\ ListHolds(t)' /\ (Configured(t)' <=> Configured(t) \/ t = e.id)
        /\ Configured(t)' => Element(certs', t) = IF t = e.id THEN e ELSE Element(certs, t)
    BY <1>6, <1>8, <2>1, <2>2, AddedOnce DEF TypeInv
  <2>4. Configured(t)' /\ Element(certs', t) = e
    BY <1>9, <2>3
  <2>5. issuer'[i] = y
    BY <1>9, GoesTo DEF TypeInv
  <2>6. DraftHolds("load", e, t)'
    BY <1>5, <2>1, <2>4 DEF DraftHolds, PairOf, SameIssue
  <2>7. IssueHolds(i, t)'
    BY <1>7, <2>1, <2>4, <2>5, <2>6 DEF IssueHolds, IssuerAt, Issuing
  <2> QED
    BY <2>3, <2>7
<1>10. ListMoves(e)
  BY <1>5, <1>8 DEF ListMoves
<1> QED
  BY <1>1, <1>2, <1>5, <1>7, <1>8, <1>9, <1>10, IssuingStore

LEMMA UpdateIssuedStore ==
  ASSUME TypeInv, TypeInv', SafeInv, StoreInv, NEW i \in Issuer, UpdateIssued(i),
         UNCHANGED installation
  PROVE  StoreInv'
<1>1. PICK x : x = issuer[i]
  OBVIOUS
<1>2. PICK e : e = x.entry
  OBVIOUS
<1>3. PICK y : y = [x EXCEPT !.pc = "load"]
  OBVIOUS
<1>4. PICK z : z = [pc |-> "report", on |-> x.on, entry |-> e, verdict |-> "error"]
  OBVIOUS
<1>5. /\ x.pc = "update" /\ UNCHANGED <<disk, loaded, unused, worker>>
      /\ UpdateEntry(e, Continue(i, y), Continue(i, z))
  BY <1>1, <1>2, <1>3, <1>4 DEF UpdateIssued, IssuerAt, Report, tableVars, caVars
<1>6. x \in IssuingState /\ e \in Entry /\ e.id \in Cert
  BY <1>1, <1>2, <1>5, IssuerShapes DEF TypeInv
<1>7. y.pc = "load" /\ y.entry = e /\ z.entry = e /\ Issuing(i)
  BY <1>1, <1>2, <1>3, <1>4, <1>5, <1>6 DEF IssuingState, Issuing
<1>8. /\ Updated(e) /\ raced' = raced \cup Contended /\ hurt \subseteq hurt'
      /\ Continue(i, y) \/ (Continue(i, z) /\ e.id \in hurt')
  BY <1>5 DEF UpdateEntry, Saves, Mark, Updated, Stored
<1>9. ASSUME NEW t \in Cert, Clean(t)', t = e.id, Continue(i, y)
      PROVE  ListHolds(t)' /\ IssueHolds(i, t)'
  <2>1. /\ ListHolds(t) /\ e.source = "acme" /\ t \notin SyncCert /\ t \notin hurt' /\ Clean(t)
        /\ DraftHolds("update", e, t)
    BY <1>1, <1>2, <1>5, <1>7, <1>8, <1>9, IssueBefore
  <2>2. Configured(t)
    BY <1>1, <1>2, <1>5, <1>9, <2>1 DEF SafeInv, IssuerHolds
  <2>3. /\ ListHolds(t)' /\ (Configured(t)' <=> Configured(t))
        /\ Configured(t) => Element(certs', t) = IF t = e.id THEN e ELSE Element(certs, t)
    BY <1>6, <1>8, <2>1, UpdatedOnce DEF TypeInv
  <2>4. Configured(t)' /\ Element(certs', t) = e
    BY <1>9, <2>2, <2>3
  <2>5. issuer'[i] = y
    BY <1>9, GoesTo DEF TypeInv
  <2>6. DraftHolds("load", e, t)'
    BY <1>5, <2>1, <2>4 DEF DraftHolds, PairOf, SameIssue
  <2>7. IssueHolds(i, t)'
    BY <1>7, <2>1, <2>4, <2>5, <2>6 DEF IssueHolds, IssuerAt, Issuing
  <2> QED
    BY <2>3, <2>7
<1>10. ListMoves(e)
  BY <1>5, <1>8 DEF ListMoves
<1> QED
  BY <1>1, <1>2, <1>5, <1>7, <1>8, <1>9, <1>10, IssuingStore

LEMMA LoadIssuedStore ==
  ASSUME TypeInv, TypeInv', SafeInv, StoreInv, NEW i \in Issuer, LoadIssued(i),
         UNCHANGED installation
  PROVE  StoreInv'
<1>1. PICK x : x = issuer[i]
  OBVIOUS
<1>2. PICK e : e = x.entry
  OBVIOUS
<1>3. PICK p : p = Served(e.terms, e.expires)
  OBVIOUS
<1>4. /\ x.pc = "load" /\ loaded' = [loaded EXCEPT ![e.id] = p] /\ Report(i, "success")
      /\ raced' = raced \cup Contended /\ hurt \subseteq hurt'
      /\ UNCHANGED <<certs, saved, disk, unused, worker>>
  BY <1>1, <1>2, <1>3 DEF LoadIssued, IssuerAt, Mark, caVars, configVars
<1>5. e \in Entry /\ Issuing(i) /\ x.pc # "idle"
  BY <1>1, <1>2, <1>4, IssuerShapes DEF TypeInv, Issuing
<1>6. PICK y \in ReportState : /\ Continue(i, y) /\ issuer'[i] = y /\ y.pc = "report"
                               /\ y.entry = e
  BY <1>1, <1>2, <1>4, <1>5, ReportIn DEF TypeInv
<1>7. \A j \in Issuer \ {i} : issuer'[j] = issuer[j]
  BY <1>6, GoesTo DEF TypeInv
<1>8. PICK t \in Cert : t = e.id
  BY <1>5 DEF Entry
<1>9. p # None /\ p.issue = e.expires
  <2>1. e.terms \in Chosen /\ e.expires \in MaybeIssue
    BY <1>5 DEF Entry, Chosen, MaybeIssue
  <2> QED
    BY <1>3, <2>1, ServedIsSome
<1>10. loaded'[t] = p /\ \A c \in Cert : c # t => disk'[c] = disk[c] /\ loaded'[c] = loaded[c]
  BY <1>4, <1>8 DEF TypeInv, TablesOK, Table
<1>11. ASSUME Clean(t)'
       PROVE  ListHolds(t)' /\ IssueHolds(i, t)' /\ Backed(t)' /\ Shown(t)'
  <2>1. ListHolds(t) /\ DraftHolds("load", e, t)
    BY <1>1, <1>2, <1>4, <1>5, <1>8, <1>11, IssueBefore
  <2>2. ListHolds(t)' /\ EntryKept(t)
    BY <1>4, <2>1, AlikeLists DEF configVars
  <2>3. IssueHolds(i, t)'
    BY <1>6 DEF IssueHolds, IssuerAt
  <2>4. PICK g : g = Element(certs, t)
    OBVIOUS
  <2>5. Element(certs', t) = g /\ g.expires = e.expires /\ e.expires # None /\ disk[t] = PairOf(e)
    BY <1>4, <2>1, <2>4 DEF DraftHolds, SameIssue
  <2>6. Backed(t)'
    BY <1>4, <2>5 DEF Backed, PairOf
  <2>7. Shown(t)'
    BY <1>9, <1>10, <2>5 DEF Shown
  <2> QED
    BY <2>2, <2>3, <2>6, <2>7
<1>12. ListMoves(e)
  BY <1>4 DEF ListMoves
<1> QED
  BY <1>1, <1>2, <1>4, <1>5, <1>6, <1>7, <1>8, <1>10, <1>11, <1>12, IssuerStoreSafe

LEMMA IssuerStores ==
  ASSUME TypeInv, TypeInv', SafeInv, StoreInv, NEW i \in Issuer, IssuerStep(i),
         UNCHANGED installation
  PROVE  StoreInv'
  BY PresentStore, ObtainStore, ObtainFailsStore, StoreFailureStore, RefuseIssuedStore,
     WriteIssuedCrtStore, WriteIssuedKeyStore, FindStore, AddIssuedStore, UpdateIssuedStore, LoadIssuedStore,
     FinishStore
  DEF IssuerStep

-----------------------------------------------------------------------------
(* The steps outside, and the beginning *)

(* Where nobody works, nobody is half way. *)
LEMMA Undisturbed ==
  ASSUME TypeInv, NEW c \in Cert, c \notin Busy, FilesHold(c)
  PROVE  Backed(c) /\ Shown(c)
<1>0. /\ \A w \in Worker : c \notin worker[w].on
      /\ \A i \in Issuer : c \notin issuer[i].on
  BY DEF Busy
<1>1. ASSUME NEW w \in Worker
      PROVE  ~HalfWay(w, c) /\ ~Reloading(w)
  <2>1. c \notin worker[w].on
    BY <1>0
  <2>2. PICK x \in WorkerState : x = worker[w]
    BY DEF TypeInv, WorkersOK
  <2>3. x.pc \in {"reload", "swap"} => x.on = Cert
    BY <2>2, WorkerShapes DEF ReloadState, SwapState
  <2>4. x.pc \in {"writeCrt", "writeKey", "add", "update", "load"} => x.entry.id \in x.on
    BY <2>2, WorkerShapes DEF WritingState
  <2>5. x.pc = "delete" => x.id \in x.on
    BY <2>2, WorkerShapes DEF DeleteState
  <2> QED
    BY <2>1, <2>2, <2>3, <2>4, <2>5 DEF HalfWay, Writing, Reloading, At
<1>2. ASSUME NEW i \in Issuer
      PROVE  ~(Issuing(i) /\ IssuesFor(i, c))
  <2> SUFFICES ASSUME Issuing(i), issuer[i].entry.id = c PROVE FALSE
    BY DEF IssuesFor
  <2>1. c \in issuer[i].on
    BY IssuerShapes DEF TypeInv, Issuing
  <2> QED
    BY <1>0, <2>1
<1> QED
  BY <1>1, <1>2 DEF FilesHold, Between

(* A step that changes at most the files of the tool. *)
LEMMA AsideStore ==
  ASSUME StoreInv, UNCHANGED <<installation, configVars, loaded, worker, issuer, unused>>,
         raced' = raced \cup Contended, hurt \subseteq hurt',
         \A c \in Cert \ SyncCert : disk'[c] = disk[c]
  PROVE  StoreInv'
<1>1. certs' = certs /\ saved' = saved /\ worker' = worker /\ issuer' = issuer
  BY DEF configVars
<1>2. unused' \subseteq installation'.fresh
  BY DEF StoreInv
<1>3. ASSUME OneAtATime', NEW w \in Worker
      PROVE  Follows(w)' /\ Registered(w)'
  <2>1. Follows(w) /\ Registered(w)
    BY <1>3, OnceBefore
  <2> QED
    BY <1>1, <2>1 DEF Follows, PointsTo, Registered, At, Renews
<1>4. ASSUME NEW c \in Cert, Clean(c)'
      PROVE  StoreHolds(c)'
  <2>1. /\ ListHolds(c) /\ FilesHold(c) /\ UnusedHolds(c)
        /\ \A w \in Worker : LocalsHold(w, c)
        /\ \A i \in Issuer : IssueHolds(i, c)
    BY <1>4, CleanBefore DEF StoreHolds
  <2>2. EntryKept(c) /\ ListHolds(c)'
    BY <2>1, AlikeLists
  <2>3. UnusedHolds(c)'
    BY <1>1, <2>1 DEF UnusedHolds, Configured, Writing, IssuesFor
  <2>4. \A w \in Worker : LocalsHold(w, c)'
    BY <1>1, <2>1, StoreUnchanged
  <2>5. \A i \in Issuer : IssueHolds(i, c)'
    BY <1>1, <2>1, <2>2, IssueKept
  <2>6. FilesHold(c)'
    <3>1. Between(c)' <=> Between(c)
      BY <1>1 DEF Between, HalfWay, Writing, At, Issuing, IssuesFor
    <3>2. Backed(c) => Backed(c)'
      <4>1. CASE c \in SyncCert
        BY <2>2, <4>1 DEF ListHolds, Backed
      <4>2. CASE c \notin SyncCert
        BY <1>1, <4>2 DEF Backed, PairOf, Configured
      <4> QED
        BY <4>1, <4>2
    <3>3. Shown(c) => Shown(c)'
      BY <1>1 DEF Shown, Configured
    <3>4. \A w \in Worker : Reloading(w)' <=> Reloading(w)
      BY <1>1 DEF Reloading
    <3> QED
      BY <2>1, <3>1, <3>2, <3>3, <3>4 DEF FilesHold
  <2> QED
    BY <2>2, <2>3, <2>4, <2>5, <2>6 DEF StoreHolds
<1> QED
  BY <1>2, <1>3, <1>4 DEF StoreInv

(* Nobody who is idle holds anything. *)
LEMMA AtRest ==
  ASSUME \A w \in Worker : worker[w] = Idle, \A i \in Issuer : issuer[i] = Idle
  PROVE  /\ \A w \in Worker : Follows(w) /\ Registered(w) /\ ~Writing(w)
         /\ \A c : /\ \A w \in Worker : LocalsHold(w, c)
                   /\ \A i \in Issuer : IssueHolds(i, c) /\ ~IssuesFor(i, c)
<1>1. \A w \in Worker : worker[w].pc = "idle"
  BY DEF Idle
<1>2. \A w \in Worker : Follows(w) /\ Registered(w) /\ ~Writing(w)
  BY <1>1 DEF Follows, Registered, Writing, At, Renews
<1>3. ASSUME NEW w \in Worker, NEW c
      PROVE  LocalsHold(w, c)
  BY <1>1 DEF LocalsHold, StoringHolds, EditHolds, SwapHolds, TodoHolds, RenewalHolds, UnloadHolds,
              SyncedHolds, At, Renews, Writing
<1>4. ASSUME NEW i \in Issuer, NEW c
      PROVE  IssueHolds(i, c) /\ ~IssuesFor(i, c)
  BY DEF IssueHolds, IssuesFor
<1> QED
  BY <1>2, <1>3, <1>4

(* What a restart finds in the file has its files, and is served. *)
LEMMA RestartStore ==
  ASSUME TypeInv, SafeInv, StoreInv, Restart, UNCHANGED installation
  PROVE  StoreInv'
<1>1. /\ certs' = Slice(saved) /\ saved' = saved
      /\ loaded' = Loadable(Elements(Slice(saved)))
      /\ \A w \in Worker : worker'[w] = Idle
      /\ \A i \in Issuer : issuer'[i] = Idle
      /\ UNCHANGED <<disk, unused>>
      /\ raced' = raced \cup Contended /\ hurt' = hurt \cup Busy
  BY DEF Restart, Mark, caVars
<1>2. unused' \subseteq installation'.fresh
  BY <1>1 DEF StoreInv
<1>3. /\ \A w \in Worker : Follows(w)' /\ Registered(w)' /\ ~(Writing(w)')
      /\ \A c : /\ \A w \in Worker : LocalsHold(w, c)'
                /\ \A i \in Issuer : IssueHolds(i, c)' /\ ~(IssuesFor(i, c)')
  <2>1. \A w \in Worker : worker'[w].pc = "idle"
    BY <1>1 DEF Idle
  <2>2. /\ \A w \in Worker : Follows(w)' /\ Registered(w)' /\ ~(Writing(w)')
        /\ \A c : \A w \in Worker : LocalsHold(w, c)'
    BY <2>1, FollowsNothing, NothingHeld DEF Resting
  <2>3. \A c : \A i \in Issuer : IssueHolds(i, c)' /\ ~(IssuesFor(i, c)')
    BY <1>1 DEF IssueHolds, IssuesFor
  <2> QED
    BY <2>2, <2>3
<1>4. Elements(Slice(saved)) \in SUBSET Entry
  <2>1. Slice(saved) \in SliceOf(Entry)
    BY SliceIn DEF TypeInv, ListsOK
  <2> QED
    BY <2>1, SliceFacts DEF Elements
<1>5. ASSUME NEW c \in Cert, Clean(c)'
      PROVE  ListHolds(c)' /\ Backed(c)' /\ Shown(c)' /\ (c \in unused' => ~Configured(c)')
  <2>1. /\ StoreHolds(c) /\ c \notin hurt /\ c \notin Busy
    BY <1>1, <1>5, CleanBefore
  <2>2. Configured(c)' <=> Configured(c)
    BY <1>1, <2>1 DEF SafeInv, ListsAgree, Configured
  <2>3. PICK g : g = Element(certs, c)
    OBVIOUS
  <2>4. PICK f : f = Element(certs', c)
    OBVIOUS
  <2>5. /\ Single(certs', c) /\ f = Element(Slice(saved), c)
        /\ Configured(c) => g.source = f.source /\ g.expires = f.expires
        /\ c \in SyncCert /\ Configured(c) => f.source = "file_sync"
    BY <1>1, <2>1, <2>3, <2>4 DEF StoreHolds, ListHolds, SameIssue
  <2>6. ListHolds(c)'
    BY <1>1, <2>2, <2>4, <2>5 DEF ListHolds, SameIssue
  <2>7. Backed(c)
    BY <2>1, Undisturbed DEF StoreHolds
  <2>8. Configured(c)' /\ f.source # "file_sync" => f.expires # None /\ disk[c] = PairOf(f)
    BY <2>2, <2>3, <2>5, <2>7 DEF Backed, PairOf
  <2>9. Backed(c)'
    BY <1>1, <2>4, <2>8 DEF Backed, PairOf
  <2>10. Shown(c)'
    <3>1. ASSUME Configured(c)', f.source # "file_sync"
          PROVE  loaded'[c] # None /\ loaded'[c].issue = f.expires
      <4>1. c \in IdSet(Elements(Slice(saved)))
        BY <1>1, <3>1 DEF Configured, IdsOf
      <4> QED
        BY <1>1, <1>4, <2>8, <3>1, <4>1, LoadsFiles DEF TypeInv
    <3> QED
      BY <2>4, <3>1 DEF Shown
  <2>11. c \in unused' => ~Configured(c)'
    BY <1>1, <2>1, <2>2 DEF StoreHolds, UnusedHolds
  <2> QED
    BY <2>6, <2>9, <2>10, <2>11
<1>6. ASSUME NEW c \in Cert, Clean(c)'
      PROVE  StoreHolds(c)'
  BY <1>3, <1>5, <1>6 DEF StoreHolds, FilesHold, UnusedHolds
<1> QED
  BY <1>2, <1>3, <1>6 DEF StoreInv

LEMMA OutsideStores ==
  ASSUME TypeInv, SafeInv, StoreInv, Outside, UNCHANGED installation
  PROVE  StoreInv'
<1>1. ASSUME NEW c \in Cert, Bind(c) \/ Release(c)
      PROVE  StoreInv'
  BY <1>1, AsideStore DEF Bind, Release, Mark, tableVars, caVars
<1>2. ASSUME NEW c \in SyncCert, ToolWritesCrt(c) \/ ToolWritesKey(c)
      PROVE  StoreInv'
  <2>1. PICK part, p : disk' = [disk EXCEPT ![c][part] = p]
    BY <1>2 DEF ToolWritesCrt, ToolWritesKey
  <2>2. \A d \in Cert \ SyncCert : disk'[d] = disk[d]
    BY <2>1 DEF TypeInv, TablesOK
  <2>3. /\ UNCHANGED <<configVars, loaded, worker, issuer, unused>>
        /\ raced' = raced \cup Contended /\ hurt \subseteq hurt'
    BY <1>2 DEF ToolWritesCrt, ToolWritesKey, Mark, tableVars, caVars
  <2> QED
    BY <2>2, <2>3, AsideStore
<1>3. CASE RenewalDateComes \/ ListChanges
  BY <1>3, AsideStore DEF RenewalDateComes, ListChanges, Mark, tableVars, caVars
<1> QED
  BY <1>1, <1>2, <1>3, RestartStore DEF Outside

LEMMA StoreInit == CertInit => StoreInv
<1> SUFFICES ASSUME CertInit PROVE StoreInv
  OBVIOUS
<1>1. TypeInv
  BY TypeInit
<1>2. PICK s : s = installation.stored
  OBVIOUS
<1>3. /\ s \in Seq(Entry) /\ unused = installation.fresh
      /\ \A i \in 1 .. Len(s) : s[i].expires \in Issue
      /\ \A i \in 1 .. Len(s) : s[i].id \notin unused
      /\ \A i \in 1 .. Len(s) : s[i].id \in SyncCert => s[i].source = "file_sync"
      /\ \A i, j \in 1 .. Len(s) : s[i].id = s[j].id => i = j
  <2>1. installation \in Installations /\ unused = installation.fresh
    BY DEF CertInit
  <2>2. installation \in Installation /\ Len(s) <= installation.maxIssued /\ MaxIssued \in Nat
    BY <1>2, <2>1, CertificateAssumption
  <2>3. s \in Seq(Entry) /\ installation.maxIssued \in 1 .. MaxIssued
    BY <1>2, <2>2 DEF Installation, Issue
  <2>4. Len(s) \in Nat
    BY <2>3
  <2>5. 1 .. Len(s) \subseteq Issue
    <3>1. PICK m : m = installation.maxIssued
      OBVIOUS
    <3>2. m \in 1 .. MaxIssued /\ Len(s) <= m /\ MaxIssued \in Nat
      BY <2>2, <2>3, <3>1
    <3> QED
      BY <2>4, <3>2 DEF Issue
  <2>6. \A i \in 1 .. Len(s) : /\ s[i].expires \in 1 .. Len(s) /\ s[i].id \notin unused
                               /\ s[i].id \in SyncCert => s[i].source = "file_sync"
    BY <1>2, <2>1, CertificateAssumption
  <2>7. \A i, j \in 1 .. Len(s) : s[i].id = s[j].id => i = j
    BY <1>2, <2>1, CertificateAssumption
  <2>8. ASSUME NEW i \in 1 .. Len(s)
        PROVE  /\ s[i].expires \in Issue /\ s[i].id \notin unused
               /\ s[i].id \in SyncCert => s[i].source = "file_sync"
    <3>1. s[i].expires \in 1 .. Len(s)
      BY <2>6
    <3> QED
      BY <2>5, <2>6, <3>1, Zenon
  <2> QED
    BY <2>1, <2>3, <2>7, <2>8, Zenon
<1>4. certs = Slice(s) /\ saved = s /\ loaded = Loadable(Elements(certs))
      /\ (\A w \in Worker : worker[w] = Idle) /\ (\A i \in Issuer : issuer[i] = Idle)
  BY <1>2 DEF CertInit
<1>5. certs.len = Len(s) /\ certs.cells = s /\ certs \in SliceOf(Entry)
  BY <1>1, <1>4 DEF Slice, TypeInv, ListsOK
<1>6. ASSUME NEW c \in Cert
      PROVE  ListHolds(c) /\ Backed(c) /\ Shown(c) /\ (c \in unused => ~Configured(c))
  <2>1. Single(certs, c)
    BY <1>3, <1>5 DEF Single
  <2>2. ASSUME Configured(c)
        PROVE  /\ Element(certs, c).expires \in Issue /\ c \notin unused
               /\ c \in SyncCert => Element(certs, c).source = "file_sync"
    <3>1. PICK i \in 1 .. Len(s) : Element(certs, c) = s[i] /\ s[i].id = c
      BY <1>5, <2>2, IndexOfFirst DEF Configured, Element
    <3> QED
      BY <1>3, <3>1
  <2>3. PICK e : e = Element(certs, c)
    OBVIOUS
  <2>4. Configured(c) => e.expires # None /\ disk[c] = PairOf(e)
    <3>1. Configured(c) => e.expires # None
      BY <2>2, <2>3, CertificateAssumption
    <3>2. Configured(c) => disk[c] = PairOf(e)
      BY <2>3 DEF CertInit, Configured, PairOf
    <3> QED
      BY <3>1, <3>2
  <2>5. ListHolds(c)
    BY <1>4, <2>1, <2>2 DEF ListHolds, SameIssue
  <2>6. Configured(c) => loaded[c] # None /\ loaded[c].issue = e.expires
    <3>1. Elements(certs) \in SUBSET Entry
      BY <1>1, ElementIn DEF TypeInv
    <3>2. Configured(c) => c \in IdSet(Elements(certs))
      BY DEF Configured, IdsOf
    <3> QED
      BY <1>1, <1>4, <2>4, <3>1, <3>2, LoadsFiles DEF TypeInv
  <2> QED
    BY <2>2, <2>3, <2>4, <2>5, <2>6 DEF Backed, Shown
<1>7. \A c \in Cert : StoreHolds(c)
  BY <1>4, <1>6, AtRest DEF StoreHolds, FilesHold, UnusedHolds
<1> QED
  BY <1>3, <1>4, <1>7, AtRest DEF StoreInv

-----------------------------------------------------------------------------
(* The invariant of the four places *)

LEMMA StepKeepsStores ==
  TypeInv /\ SafeInv /\ StoreInv /\ [CertNext]_certVars => StoreInv'
<1> SUFFICES ASSUME TypeInv, SafeInv, StoreInv, [CertNext]_certVars PROVE StoreInv'
  OBVIOUS
<1>1. TypeInv'
  BY StepKeepsTypes
<1>2. CASE UNCHANGED certVars
  <2>1. UNCHANGED <<certs, saved, disk, loaded, worker, issuer, unused, installation>>
    BY <1>2 DEF certVars
  <2>2. Raced' = Raced /\ hurt' = hurt
    BY <1>2 DEF certVars, Raced, Contended
  <2> QED
    BY <2>1, <2>2
    DEF StoreInv, OneAtATime, Follows, PointsTo, Registered, At, Renews, Clean, StoreHolds,
        ListHolds, FilesHold, UnusedHolds, LocalsHold, IssueHolds, Between, HalfWay, Writing,
        Issuing, IssuesFor, Backed, Shown, Reloading, Configured, StoringHolds, EditHolds,
        SwapHolds, TodoHolds, RenewalHolds, UnloadHolds, SyncedHolds, DraftHolds, IssuerAt,
        SameIssue, PairOf, Copied
<1>3. ASSUME NEW w \in Worker, Request(w) \/ BeginMaintenance(w) \/ WorkerStep(w),
             UNCHANGED installation
      PROVE  StoreInv'
  <2>1. WorkerEffect(w) /\ StoreEffect(w)
    BY <1>3, WorkerActs, WorkerStores
  <2> QED
    BY <1>1, <1>3, <2>1, WorkerStoreSafe DEF WorkerEffect
<1>4. ASSUME NEW i \in Issuer, IssuerStep(i), UNCHANGED installation
      PROVE  StoreInv'
  BY <1>1, <1>4, IssuerStores
<1>5. CASE CertNext
  BY <1>3, <1>4, <1>5, OutsideStores DEF CertNext
<1> QED
  BY <1>2, <1>5

LEMMA StoreInvariance == CertSpec => [](TypeInv /\ SafeInv /\ StoreInv)
<1>1. CertInit => TypeInv /\ SafeInv /\ StoreInv
  BY TypeInit, SafeInit, StoreInit
<1>2. TypeInv /\ SafeInv /\ StoreInv /\ [CertNext]_certVars => TypeInv' /\ SafeInv' /\ StoreInv'
  BY StepKeepsTypes, StepIsSafe, StepKeepsStores
<1> QED
  BY <1>1, <1>2, PTL DEF CertSpec

(* The entry in the list, the two files and the TLS table tell of one      *)
(* issue of a certificate nobody works on, so that a restart serves what   *)
(* is served: import, issue and edit write them one after the other under  *)
(* locks of their own (storeIssuedCertificate, replaceImportedCertificate, *)
(* Reload), and only two of them at once, or a step that failed, can leave *)
(* them apart.                                                             *)
THEOREM StoresStayInAgreement == CertSpec => []StoresAgree
<1>1. TypeInv /\ StoreInv => StoresAgree
  <2> SUFFICES ASSUME TypeInv, StoreInv, NEW c \in Cert, Settled(c), Configured(c),
                      Element(certs, c).source # "file_sync",
                      Element(certs, c).terms # SelfSigned
               PROVE  /\ disk[c] = PairOf(Element(certs, c))
                      /\ loaded[c] # None /\ loaded[c].issue = Element(certs, c).expires
    BY DEF StoresAgree, PairOf
  <2>1. FilesHold(c) /\ c \notin Busy
    BY DEF Settled, Clean, StoreInv, StoreHolds
  <2>2. Backed(c) /\ Shown(c)
    BY <2>1, Undisturbed
  <2> QED
    BY <2>2 DEF Backed, Shown
<1> QED
  BY <1>1, StoreInvariance, PTL

=============================================================================
