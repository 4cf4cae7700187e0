--------------------------- MODULE MediaSyncProofs ---------------------------
(***************************************************************************)
(* Media sync skips no change and forgets none.                            *)
(*                                                                         *)
(* The argument: of every entry of the server's whose USN a device has     *)
(* noted, the device has the server's version or a change of its own       *)
(* (Knows).  While a batch is downloaded it is known of each of its files  *)
(* how recording the batch will make that so (Fetched).  A device that     *)
(* sends knows all entries, and only one sends at a time, so that its own  *)
(* uploads may move its USN (KnowsAll); what it sends is what its rows     *)
(* say, or is noted as something else (Sending).  For the other devices    *)
(* an upload only adds entries with USNs they have not noted (Later).      *)
(***************************************************************************)
EXTENDS MediaSync, WellFoundedInduction, SequenceTheorems, TLAPS

-----------------------------------------------------------------------------
(* Tables by file name.                                                     *)

IsTable(g, T) == DOMAIN g \subseteq Files /\ g \in [DOMAIN g -> T]

LEMMA NoRowsTable == DOMAIN NoRows = {} /\ \A T : IsTable(NoRows, T)
BY DEF NoRows, IsTable

LEMMA RowsAreShas == Gone \in Shas /\ Contents \subseteq Shas
                     /\ Deleted \in Row /\ \A sha \in Shas : Clean(sha) \in Row /\ Dirty(sha) \in Row
BY DEF Shas, Row, Deleted, Clean, Dirty

LEMMA RecordCleanTable ==
  ASSUME NEW rows, NEW S, IsTable(rows, Row)
  PROVE  /\ IsTable(RecordClean(rows, S), Row) /\ DOMAIN RecordClean(rows, S) = DOMAIN rows
         /\ \A f \in DOMAIN rows : RecordClean(rows, S)[f].sha = rows[f].sha
         /\ \A f \in DOMAIN rows \ S : RecordClean(rows, S)[f] = rows[f]
<1>1. ASSUME NEW f \in DOMAIN rows
      PROVE  /\ RecordClean(rows, S)[f] \in Row /\ RecordClean(rows, S)[f].sha = rows[f].sha
             /\ f \notin S => RecordClean(rows, S)[f] = rows[f]
  <2>1. rows[f] \in Row
    BY DEF IsTable
  <2>2. [rows[f] EXCEPT !.dirty = FALSE] \in Row /\ [rows[f] EXCEPT !.dirty = FALSE].sha = rows[f].sha
    BY <2>1 DEF Row
  <2>3. QED
    BY <2>1, <2>2 DEF RecordClean
<1>2. DOMAIN RecordClean(rows, S) = DOMAIN rows
      /\ RecordClean(rows, S) = [f \in DOMAIN rows |-> RecordClean(rows, S)[f]]
  BY DEF RecordClean
<1>3. QED
  BY <1>1, <1>2 DEF IsTable

LEMMA RowsWithoutTable ==
  ASSUME NEW rows, NEW list, IsTable(rows, Row)
  PROVE  /\ IsTable(RowsWithout(rows, list), Row) /\ DOMAIN RowsWithout(rows, list) = DOMAIN rows
         /\ \A f \in DOMAIN rows : RowsWithout(rows, list)[f] \in {rows[f], Deleted}
         /\ \A f \in DOMAIN rows \ ToSet(list) : RowsWithout(rows, list)[f] = rows[f]
BY RowsAreShas DEF RowsWithout, IsTable

LEMMA RegisteredTable ==
  ASSUME NEW c \in Clients, folder \in [Clients -> [Files -> Shas]], IsTable(db[c], Row)
  PROVE  /\ IsTable(Registered(c), Row) /\ DOMAIN db[c] \subseteq DOMAIN Registered(c)
         /\ \A f \in DOMAIN Registered(c) :
              Registered(c)[f].dirty \/ (f \in DOMAIN db[c] /\ Registered(c)[f] = db[c][f])
<1> DEFINE differs == {f \in OnDisk(c) : ~(f \in Known(c) /\ db[c][f].sha = folder[c][f])}
           new == [f \in differs \cup (Known(c) \ OnDisk(c)) |->
                    IF f \in differs THEN Dirty(folder[c][f]) ELSE Deleted]
<1>1. CASE checked[c]
  BY <1>1 DEF Registered, IsTable
<1>2. CASE ~checked[c]
  <2>1. Registered(c) = Over(db[c], new)
    BY <1>2 DEF Registered
  <2>2. \A f \in DOMAIN new : new[f] \in Row /\ new[f].dirty
    BY RowsAreShas DEF OnDisk, Dirty, Deleted
  <2>3. DOMAIN new \subseteq Files
    BY DEF OnDisk, Known, IsTable
  <2>4. new = [f \in DOMAIN new |-> new[f]]
    OBVIOUS
  <2> HIDE DEF new
  <2>5. IsTable(new, Row)
    BY <2>2, <2>3, <2>4 DEF IsTable
  <2>6. /\ IsTable(Over(db[c], new), Row) /\ DOMAIN Over(db[c], new) = DOMAIN db[c] \cup DOMAIN new
        /\ \A f \in DOMAIN new : Over(db[c], new)[f] = new[f]
        /\ \A f \in DOMAIN db[c] \ DOMAIN new : Over(db[c], new)[f] = db[c][f]
    <3> DEFINE rows == db[c]
    <3>1. IsTable(rows, Row)
      OBVIOUS
    <3> HIDE DEF rows
    <3>2. /\ IsTable(Over(rows, new), Row) /\ DOMAIN Over(rows, new) = DOMAIN rows \cup DOMAIN new
          /\ \A f \in DOMAIN new : Over(rows, new)[f] = new[f]
          /\ \A f \in DOMAIN rows \ DOMAIN new : Over(rows, new)[f] = rows[f]
      BY <2>5, <3>1 DEF Over, IsTable
    <3>3. QED
      BY <3>2 DEF rows
  <2>7. QED
    BY <2>1, <2>2, <2>6
<1>3. QED
  BY <1>1, <1>2

-----------------------------------------------------------------------------
(* The invariants.                                                          *)

Tables(T) == UNION {[D -> T] : D \in SUBSET Files}
IsServer(sv) ==
  /\ sv \in [entries: Tables([sha: Shas, usn: Nat]), last_usn: Nat, count: Nat,
             folder: [Files -> Shas]]
  /\ \A f \in DOMAIN sv.entries : sv.entries[f].usn \in 1..sv.last_usn

\* A device's sync, when the server has given out the USNs up to top.
Downloads(top) == [pc: {"download"}, usn: 0..top, todo: Seq(Files), remove: SUBSET Files,
                   same: SUBSET Files, got: Tables(Shas)]
Uploads == {s \in [pc: {"upload"}, names: Seq(Files), data: Tables(Shas), unlike: SUBSET Files] :
              DOMAIN s.data = ToSet(s.names)}
Sessions(top) ==
  {NoSync, [pc |-> "sanity"]} \cup [pc: {"changes"}, usn: 0..top] \cup [pc: {"send"}, acted: BOOLEAN]
    \cup Downloads(top) \cup Uploads

TypeInv ==
  /\ folder \in [Clients -> [Files -> Shas]]
  /\ db \in [Clients -> Tables(Row)]
  /\ last_usn \in [Clients -> 0..server.last_usn]
  /\ checked \in [Clients -> BOOLEAN]
  /\ sess \in [Clients -> Sessions(server.last_usn)]
  /\ IsServer(server)
  /\ unlike \in SUBSET (Clients \X Files)
  /\ edits \in 0..MaxEdits /\ faults \in 0..MaxFaults

\* A device with these rows has the server's version of a file, or a change of its
\* own, or it has sent something else than registered (odd).
IsPending(rows, f) == f \in DOMAIN rows /\ rows[f].dirty
RowSha(rows, f) == IF f \in DOMAIN rows THEN rows[f].sha ELSE Gone
Held(e, rows, odd, f) == f \in odd \/ IsPending(rows, f) \/ RowSha(rows, f) = e[f].sha

\* What becomes of a file when the batch being downloaded is recorded.
Touched(s) == ToSet(s.todo) \cup DOMAIN s.got \cup s.remove \cup s.same
Fetched(e, rows, odd, s, f) ==
  \/ f \in ToSet(s.todo)
  \/ f \in DOMAIN s.got /\ s.got[f] = e[f].sha
  \/ f \in s.remove \ DOMAIN s.got /\ e[f].sha = Gone
  \/ f \in s.same \ (s.remove \cup DOMAIN s.got) /\ RowSha(rows, f) = e[f].sha
  \/ f \notin Touched(s) /\ Held(e, rows, odd, f)

\* What a device knows of the server's entries e, from its rows, the USN it has
\* noted and its sync.
Knows(e, rows, usn, odd) == \A f \in DOMAIN e : e[f].usn <= usn => Held(e, rows, odd, f)
KnowsAll(e, rows, odd) == \A f \in DOMAIN e : Held(e, rows, odd, f)
Downloading(e, rows, usn, odd, s) ==
  /\ \A f \in DOMAIN e : e[f].usn <= s.usn => Fetched(e, rows, odd, s, f)
  /\ \A f \in Touched(s) : f \in DOMAIN e /\ e[f].usn > usn
Sending(rows, s) ==
  \A f \in ToSet(s.names) : IsPending(rows, f) /\ (s.data[f] = rows[f].sha \/ f \in s.unlike)
Follows(e, rows, usn, odd, s) ==
  /\ Knows(e, rows, usn, odd)
  /\ s.pc = "changes" => s.usn = usn
  /\ s.pc = "download" => Downloading(e, rows, usn, odd, s)
  /\ s.pc \in {"send", "upload"} => KnowsAll(e, rows, odd)
  /\ s.pc = "upload" => Sending(rows, s)

Odd(c) == {f \in Files : <<c, f>> \in unlike}
Sends(c) == sess[c].pc \in {"send", "upload"}
SyncInv ==
  /\ \A f \in DOMAIN server.entries : server.entries[f].sha = server.folder[f]
  /\ \A c, d \in Clients : Sends(c) /\ Sends(d) => c = d
  /\ \A c \in Clients : Follows(server.entries, db[c], last_usn[c], Odd(c), sess[c])

\* The theorems are about devices whose users leave the files alone while they are
\* downloaded or sent, that send one at a time, and a server that does not die.
Undisturbed == Races \subseteq {"UnregisteredSent"} /\ "ServerCrash" \notin Faults

-----------------------------------------------------------------------------
(* Types.                                                                   *)

LEMMA InTables == ASSUME NEW T, NEW g PROVE g \in Tables(T) <=> IsTable(g, T)
<1>1. ASSUME g \in Tables(T) PROVE IsTable(g, T)
  <2>1. PICK D \in SUBSET Files : g \in [D -> T]
    BY <1>1 DEF Tables
  <2>2. QED
    BY <2>1 DEF IsTable
<1>2. ASSUME IsTable(g, T) PROVE g \in Tables(T)
  BY <1>2 DEF IsTable, Tables
<1>3. QED
  BY <1>1, <1>2

\* What the kinds of sessions hold.
LEMMA SessionFields ==
  ASSUME NEW top \in Nat, NEW s \in Sessions(top)
  PROVE  /\ s.pc \in {"idle", "changes", "download", "send", "upload", "sanity"}
         /\ s.pc = "changes" => s.usn \in 0..top
         /\ s.pc = "download" => s \in Downloads(top)
         /\ s.pc = "upload" => s \in Uploads
<1>1. CASE s = NoSync \/ s = [pc |-> "sanity"]
  BY <1>1 DEF NoSync
<1>2. CASE s \in [pc: {"changes"}, usn: 0..top]
  BY <1>2
<1>3. CASE s \in [pc: {"send"}, acted: BOOLEAN]
  BY <1>3
<1>4. CASE s \in Downloads(top)
  <2>1. s.pc = "download"
    BY <1>4 DEF Downloads
  <2>2. QED
    BY <1>4, <2>1
<1>5. CASE s \in Uploads
  <2>1. s.pc = "upload"
    BY <1>5 DEF Uploads
  <2>2. QED
    BY <1>5, <2>1
<1>6. QED
  BY <1>1, <1>2, <1>3, <1>4, <1>5 DEF Sessions

LEMMA SessionKinds ==
  ASSUME NEW top \in Nat
  PROVE  /\ NoSync \in Sessions(top) /\ [pc |-> "sanity"] \in Sessions(top)
         /\ \A usn \in 0..top : [pc |-> "changes", usn |-> usn] \in Sessions(top)
         /\ \A acted \in BOOLEAN : [pc |-> "send", acted |-> acted] \in Sessions(top)
         /\ Downloads(top) \subseteq Sessions(top) /\ Uploads \subseteq Sessions(top)
BY DEF Sessions

LEMMA SessionsGrow ==
  ASSUME NEW m \in Nat, NEW n \in Nat, m <= n
  PROVE  Sessions(m) \subseteq Sessions(n)
<1>1. 0..m \subseteq 0..n
  OBVIOUS
<1>2. [pc: {"changes"}, usn: 0..m] \subseteq [pc: {"changes"}, usn: 0..n]
  BY <1>1
<1>3. Downloads(m) \subseteq Downloads(n)
  BY <1>1 DEF Downloads
<1>4. QED
  BY <1>2, <1>3 DEF Sessions

-----------------------------------------------------------------------------
(* Uploading.                                                               *)


Stored(sv, f) == IF f \in DOMAIN sv.entries THEN sv.entries[f].sha ELSE Gone
Meets(sv) == \A f \in DOMAIN sv.entries : sv.entries[f].sha = sv.folder[f]

\* Entries e later than e0, which knew the USNs up to top: they are the same, or
\* have a new USN.
Later(e0, top, e) ==
  /\ DOMAIN e0 \subseteq DOMAIN e
  /\ \A f \in DOMAIN e : (f \in DOMAIN e0 /\ e[f] = e0[f]) \/ e[f].usn > top

\* A server after some changes to files of S have been registered.
After(sv, S, new) ==
  /\ IsServer(new) /\ sv.last_usn <= new.last_usn
  /\ Later(sv.entries, sv.last_usn, new.entries) /\ DOMAIN new.entries \subseteq DOMAIN sv.entries \cup S
  /\ Meets(sv) => Meets(new)
  /\ \A f \in Files \ S : Stored(new, f) = Stored(sv, f)

LEMMA ServerFields ==
  ASSUME NEW sv, IsServer(sv)
  PROVE  /\ IsTable(sv.entries, [sha: Shas, usn: Nat]) /\ sv.last_usn \in Nat /\ sv.count \in Nat
         /\ sv.folder \in [Files -> Shas]
         /\ \A f \in DOMAIN sv.entries :
              sv.entries[f].sha \in Shas /\ sv.entries[f].usn \in 1..sv.last_usn
<1>1. /\ sv.entries \in Tables([sha: Shas, usn: Nat]) /\ sv.last_usn \in Nat /\ sv.count \in Nat
      /\ sv.folder \in [Files -> Shas]
  BY DEF IsServer
<1>2. IsTable(sv.entries, [sha: Shas, usn: Nat])
  BY <1>1, InTables
<1>3. QED
  BY <1>1, <1>2 DEF IsTable, IsServer

LEMMA MaxOfZero == \A n \in Int : Max({0, n}) \in Nat
<1> SUFFICES ASSUME NEW n \in Int PROVE Max({0, n}) \in Nat
  OBVIOUS
<1>1. \E x \in {0, n} : \A y \in {0, n} : x >= y
  <2>1. CASE n >= 0
    BY <2>1
  <2>2. CASE ~(n >= 0)
    BY <2>2
  <2>3. QED
    BY <2>1, <2>2
<1>2. Max({0, n}) \in {0, n} /\ \A y \in {0, n} : Max({0, n}) >= y
  BY <1>1 DEF Max
<1>3. QED
  BY <1>2

LEMMA RegisterUploadIs ==
  ASSUME NEW sv, IsServer(sv), NEW f \in Files, NEW content \in Shas
  PROVE  After(sv, {f}, RegisterUpload(sv, f, content)) /\ Stored(RegisterUpload(sv, f, content), f) = content
<1> DEFINE new == RegisterUpload(sv, f, content)
           usn == sv.last_usn + 1
           entry == [sha |-> content, usn |-> usn]
           count == IF content = Gone THEN Max({0, sv.count - 1})
                    ELSE IF Stored(sv, f) = Gone THEN sv.count + 1 ELSE sv.count
<1>0. /\ IsTable(sv.entries, [sha: Shas, usn: Nat]) /\ sv.last_usn \in Nat /\ sv.count \in Nat
      /\ sv.folder \in [Files -> Shas]
      /\ \A g \in DOMAIN sv.entries :
           sv.entries[g].sha \in Shas /\ sv.entries[g].usn \in 1..sv.last_usn
  BY ServerFields
<1>1. CASE Stored(sv, f) = content
  <2>1. new = sv
    BY <1>1 DEF RegisterUpload, Stored
  <2> HIDE DEF new
  <2>2. QED
    BY <1>0, <1>1, <2>1 DEF After, Later, new
<1>2. CASE Stored(sv, f) # content
  <2>1. new = [entries |-> Over(sv.entries, [g \in {f} |-> entry]), last_usn |-> usn, count |-> count,
               folder |-> [sv.folder EXCEPT ![f] = content]]
    BY <1>2 DEF RegisterUpload, Stored
  <2> HIDE DEF new
  <2>2. /\ new.entries = Over(sv.entries, [g \in {f} |-> entry]) /\ new.last_usn = usn
        /\ new.count = count /\ new.folder = [sv.folder EXCEPT ![f] = content]
    BY <2>1
  <2>3. DOMAIN new.entries = DOMAIN sv.entries \cup {f} /\ new.entries[f] = entry
        /\ \A g \in DOMAIN sv.entries \ {f} : new.entries[g] = sv.entries[g]
    BY <2>2 DEF Over
  <2>4. entry \in [sha: Shas, usn: Nat] /\ entry.sha = content /\ entry.usn = usn
    BY <1>0
  <2> HIDE DEF entry
  <2>5. IsTable(new.entries, [sha: Shas, usn: Nat])
    BY <1>0, <2>2, <2>4 DEF Over, IsTable
  <2>6. count \in Nat
    <3>1. sv.count - 1 \in Int
      BY <1>0
    <3>2. QED
      BY <1>0, <3>1, MaxOfZero
  <2> HIDE DEF count
  <2>7. new.entries \in Tables([sha: Shas, usn: Nat])
    BY <2>5, InTables
  <2>8. new.folder \in [Files -> Shas]
    BY <1>0, <2>2
  <2>9. new \in [entries: Tables([sha: Shas, usn: Nat]), last_usn: Nat, count: Nat,
                 folder: [Files -> Shas]]
    <3>1. new = [entries |-> new.entries, last_usn |-> new.last_usn, count |-> new.count, folder |-> new.folder]
      BY <2>1, <2>2
    <3>2. new.last_usn \in Nat /\ new.count \in Nat
      BY <1>0, <2>2, <2>6
    <3>3. QED
      BY <3>1, <3>2, <2>7, <2>8
  <2>10. \A g \in DOMAIN new.entries : new.entries[g].usn \in 1..new.last_usn
    BY <1>0, <2>2, <2>3, <2>4
  <2>11. IsServer(new)
    BY <2>9, <2>10 DEF IsServer
  <2>12. Later(sv.entries, sv.last_usn, new.entries) /\ sv.last_usn <= new.last_usn
    BY <1>0, <2>2, <2>3, <2>4 DEF Later
  <2>13. ASSUME Meets(sv) PROVE Meets(new)
    <3>1. new.folder[f] = content /\ \A g \in Files \ {f} : new.folder[g] = sv.folder[g]
      BY <1>0, <2>2
    <3>2. DOMAIN sv.entries \subseteq Files
      BY <1>0 DEF IsTable
    <3>3. QED
      BY <2>13, <2>3, <2>4, <3>1, <3>2 DEF Meets
  <2>14. Stored(new, f) = content /\ \A g \in Files \ {f} : Stored(new, g) = Stored(sv, g)
    BY <2>3, <2>4 DEF Stored
  <2>15. QED
    BY <2>3, <2>11, <2>12, <2>13, <2>14 DEF After, new
<1>3. QED
  BY <1>1, <1>2

LEMMA AfterTwice ==
  ASSUME NEW sv, NEW S, NEW mid, NEW T, NEW new, IsServer(sv), After(sv, S, mid), After(mid, T, new)
  PROVE  After(sv, S \cup T, new)
<1>1. sv.last_usn \in Nat /\ mid.last_usn \in Nat /\ new.last_usn \in Nat
  BY DEF After, IsServer
<1>2. \A f \in DOMAIN new.entries : new.entries[f].usn \in Nat
  BY ServerFields DEF After
<1>3. Later(sv.entries, sv.last_usn, new.entries)
  BY <1>1, <1>2 DEF After, Later
<1>4. QED
  BY <1>1, <1>3 DEF After

IsUploading(g, sv, names, data, m) ==
  g = [n \in 0..m |-> IF n = 0 THEN sv ELSE RegisterUpload(g[n - 1], names[n], data[names[n]])]


Smaller == {p \in Nat \X Nat : p[1] < p[2]}

\* The order of the naturals has no infinite descent.
LEMMA SmallerIsWellFounded == IsWellFoundedOn(Smaller, Nat)
<1>1. Smaller = OpToRel(<, Nat)
  BY DEF Smaller, OpToRel
<1>2. QED
  BY <1>1, NatLessThanWellFounded

\* Induction: a set with 0 and the successor of each of its numbers has them all.
LEMMA SetInduction ==
  ASSUME NEW S, 0 \in S, \A n \in Nat : n \in S => n + 1 \in S
  PROVE  \A n \in Nat : n \in S
<1> DEFINE T == Nat \ S
<1>1. SUFFICES ASSUME T # {} PROVE FALSE
  OBVIOUS
<1>2. PICK n \in T : \A m \in T : ~ (<<m, n>> \in Smaller)
  BY <1>1, SmallerIsWellFounded, WFMin
<1>3. n - 1 \in Nat /\ n - 1 \in S
  <2>1. n \in Nat /\ n # 0
    OBVIOUS
  <2>2. n - 1 \in Nat /\ n - 1 < n
    BY <2>1
  <2>3. n - 1 \notin T
    BY <1>2, <2>1, <2>2 DEF Smaller
  <2>4. QED
    BY <2>2, <2>3
<1>4. QED
  BY <1>2, <1>3

-----------------------------------------------------------------------------

\* The servers after each of m changes exist, for every m.
LEMMA UploadingExists ==
  ASSUME NEW sv, NEW names, NEW data
  PROVE  \A m \in Nat : \E g : IsUploading(g, sv, names, data, m)
<1> DEFINE S == {m \in Nat : \E g : IsUploading(g, sv, names, data, m)}
<1>1. 0 \in S
  <2>1. IsUploading([n \in 0..0 |-> sv], sv, names, data, 0)
    BY DEF IsUploading
  <2>2. QED
    BY <2>1
<1>2. ASSUME NEW m \in Nat, m \in S PROVE m + 1 \in S
  <2>1. PICK g : IsUploading(g, sv, names, data, m)
    BY <1>2
  <2> DEFINE Then(x, n) == RegisterUpload(x, names[n], data[names[n]])
             h == [n \in 0..(m + 1) |-> IF n = m + 1 THEN Then(g[m], m + 1) ELSE g[n]]
  <2>2. \A n \in 0..m : g[n] = IF n = 0 THEN sv ELSE Then(g[n - 1], n)
    BY <2>1 DEF IsUploading
  <2> HIDE DEF Then
  <2>3. ASSUME NEW n \in 0..(m + 1)
        PROVE  h[n] = IF n = 0 THEN sv ELSE Then(h[n - 1], n)
    <3>1. CASE n = 0
      <4>1. h[0] = g[0] /\ 0 \in 0..m
        OBVIOUS
      <4>2. QED
        BY <2>2, <3>1, <4>1
    <3>2. CASE n \in 1..m
      <4>1. h[n] = g[n] /\ h[n - 1] = g[n - 1]
        BY <3>2
      <4>2. g[n] = Then(g[n - 1], n)
        BY <2>2, <3>2
      <4>3. QED
        BY <3>2, <4>1, <4>2
    <3>3. CASE n = m + 1
      <4>1. h[n] = Then(g[m], m + 1) /\ h[n - 1] = g[m] /\ n # 0
        BY <3>3
      <4> HIDE DEF h
      <4>2. QED
        BY <3>3, <4>1
    <3>4. QED
      BY <3>1, <3>2, <3>3
  <2>4. h = [n \in 0..(m + 1) |-> h[n]]
    OBVIOUS
  <2> HIDE DEF h
  <2>5. h = [n \in 0..(m + 1) |-> IF n = 0 THEN sv ELSE Then(h[n - 1], n)]
    BY <2>3, <2>4
  <2>6. IsUploading(h, sv, names, data, m + 1)
    BY <2>5 DEF IsUploading, Then
  <2>7. QED
    BY <2>6
<1> HIDE DEF S
<1>3. \A m \in Nat : m \in S
  BY <1>1, <1>2, SetInduction
<1>4. QED
  BY <1>3 DEF S

\* Uploading satisfies its recursive equation.
LEMMA UploadingDef ==
  ASSUME NEW names, NEW data, Len(names) \in Nat
  PROVE  /\ Uploading(names, data)[0] = server
         /\ \A n \in 1..Len(names) :
              Uploading(names, data)[n] = RegisterUpload(Uploading(names, data)[n - 1], names[n], data[names[n]])
<1>1. PICK g : IsUploading(g, server, names, data, Len(names))
  BY UploadingExists
<1>2. IsUploading(Uploading(names, data), server, names, data, Len(names))
  BY <1>1 DEF IsUploading, Uploading
<1> DEFINE r == Uploading(names, data)
<1> HIDE DEF r
<1>3. r = [n \in 0..Len(names) |-> IF n = 0 THEN server
                                  ELSE RegisterUpload(r[n - 1], names[n], data[names[n]])]
  BY <1>2 DEF IsUploading, r
<1>4. r[0] = server /\ \A n \in 1..Len(names) : r[n] = RegisterUpload(r[n - 1], names[n], data[names[n]])
  BY <1>3
<1>5. QED
  BY <1>4 DEF r

\* The server after n changes has their files as they were sent.
Names(names, n) == {names[i] : i \in 1..n}
LEMMA UploadingIs ==
  ASSUME IsServer(server), NEW s \in Uploads
  PROVE  \A n \in 0..Len(s.names) :
           /\ After(server, Names(s.names, n), Uploading(s.names, s.data)[n])
           /\ \A f \in Names(s.names, n) : Stored(Uploading(s.names, s.data)[n], f) = s.data[f]
<1> DEFINE names == s.names
           data == s.data
           r == Uploading(names, data)
           Good(n) == After(server, Names(names, n), r[n]) /\ \A f \in Names(names, n) : Stored(r[n], f) = data[f]
           S == {n \in Nat : n <= Len(names) => Good(n)}
<1>1. /\ names \in Seq(Files) /\ data \in Tables(Shas) /\ DOMAIN data = ToSet(names)
  BY DEF Uploads
<1>2. Len(names) \in Nat /\ DOMAIN names = 1..Len(names) /\ \A n \in 1..Len(names) : names[n] \in Files
  BY <1>1
<1>3. \A n \in 1..Len(names) : data[names[n]] \in Shas
  <2>1. data \in [DOMAIN data -> Shas]
    BY <1>1, InTables DEF IsTable
  <2>2. \A n \in 1..Len(names) : names[n] \in DOMAIN data
    BY <1>1, <1>2 DEF ToSet
  <2>3. QED
    BY <2>1, <2>2
<1>4. r[0] = server /\ \A n \in 1..Len(names) : r[n] = RegisterUpload(r[n - 1], names[n], data[names[n]])
  BY <1>2, UploadingDef
<1> HIDE DEF names, data, r
<1>5. 0 \in S
  <2>1. Names(names, 0) = {}
    BY DEF Names
  <2>2. server.last_usn \in Nat
    BY DEF IsServer
  <2>3. After(server, {}, server)
    BY <2>2 DEF After, Later
  <2>4. QED
    BY <1>4, <2>1, <2>3
<1>6. ASSUME NEW n \in Nat, n \in S PROVE n + 1 \in S
  <2>1. SUFFICES ASSUME n + 1 <= Len(names) PROVE Good(n + 1)
    OBVIOUS
  <2> DEFINE mid == r[n]
             new == r[n + 1]
             f == names[n + 1]
  <2>2. After(server, Names(names, n), mid) /\ \A g \in Names(names, n) : Stored(mid, g) = data[g]
    BY <1>2, <1>6, <2>1
  <2>3. f \in Files /\ data[f] \in Shas
    BY <1>2, <1>3, <2>1
  <2>4. new = RegisterUpload(mid, f, data[f])
    BY <1>2, <1>4, <2>1
  <2> HIDE DEF mid, new, f
  <2>5. IsServer(mid)
    BY <2>2 DEF After
  <2>6. After(mid, {f}, new) /\ Stored(new, f) = data[f]
    BY <2>3, <2>4, <2>5, RegisterUploadIs
  <2>7. Names(names, n + 1) = Names(names, n) \cup {f}
    BY DEF Names, f
  <2>8. After(server, Names(names, n) \cup {f}, new)
    BY <2>2, <2>6, AfterTwice
  <2>9. \A g \in Names(names, n) \ {f} : Stored(new, g) = Stored(mid, g)
    <3>1. Names(names, n) \subseteq Files
      BY <1>2, <2>1 DEF Names
    <3>2. QED
      BY <2>6, <3>1 DEF After
  <2>10. QED
    BY <2>2, <2>6, <2>7, <2>8, <2>9 DEF new
<1> HIDE DEF S
<1>7. \A n \in Nat : n \in S
  BY <1>5, <1>6, SetInduction
<1>8. QED
  BY <1>2, <1>7 DEF S, r, names, data

\* What an upload leaves on the server.
LEMMA ProcessedIs ==
  ASSUME IsServer(server), NEW s \in Uploads
  PROVE  /\ After(server, ToSet(s.names), Processed(s))
         /\ \A f \in ToSet(s.names) : Stored(Processed(s), f) = s.data[f]
<1>1. s.names \in Seq(Files)
  BY DEF Uploads
<1>2. Names(s.names, Len(s.names)) = ToSet(s.names) /\ Len(s.names) \in 0..Len(s.names)
  BY <1>1 DEF Names, ToSet
<1>3. QED
  BY <1>2, UploadingIs DEF Processed

-----------------------------------------------------------------------------
(* Lists of files.                                                          *)

LEMMA AscendingIs ==
  ASSUME NEW S, NEW key, NEW n \in Nat, NEW seq \in Ascending(S, key, n)
  PROVE  /\ seq \in Seq(S) /\ ToSet(seq) \subseteq S /\ Len(seq) \in Nat /\ DOMAIN seq = 1..Len(seq)
         /\ \A i, j \in DOMAIN seq : i < j => key[seq[i]] < key[seq[j]]
<1>1. PICK k \in 0..n : seq \in [1..k -> S]
  BY DEF Ascending
<1>2. seq \in Seq(S)
  BY <1>1
<1>3. QED
  BY <1>2 DEF Ascending, ToSet

LEMMA AllByIs ==
  ASSUME NEW S, NEW key, NEW n \in Nat, NEW seq \in AllBy(S, key, n)
  PROVE  seq \in Seq(S) /\ ToSet(seq) = S
<1>1. seq \in Ascending(S, key, n) /\ ToSet(seq) = S
  BY DEF AllBy
<1>2. QED
  BY <1>1, AscendingIs

\* A batch of changes: what is not in it, comes later.
LEMMA FirstByIs ==
  ASSUME NEW S, NEW key, NEW n \in Nat, NEW seq \in FirstBy(S, key, n)
  PROVE  /\ seq \in Seq(S) /\ ToSet(seq) \subseteq S
         /\ seq # <<>> => /\ Last(seq) \in ToSet(seq)
                          /\ \A f \in S \ ToSet(seq) : key[Last(seq)] < key[f]
         /\ seq = <<>> /\ n # 0 => S = {}
<1>1. seq \in Ascending(S, key, n)
  BY DEF FirstBy
<1>2. /\ seq \in Seq(S) /\ ToSet(seq) \subseteq S /\ Len(seq) \in Nat /\ DOMAIN seq = 1..Len(seq)
  BY <1>1, AscendingIs
<1>3. \A f \in S \ ToSet(seq) : Len(seq) = n /\ \A i \in DOMAIN seq : key[seq[i]] < key[f]
  BY DEF FirstBy
<1>4. ASSUME seq # <<>>
      PROVE  Last(seq) \in ToSet(seq) /\ \A f \in S \ ToSet(seq) : key[Last(seq)] < key[f]
  <2>1. Len(seq) \in DOMAIN seq /\ Last(seq) = seq[Len(seq)]
    BY <1>2, <1>4 DEF Last
  <2>2. QED
    BY <1>3, <2>1 DEF ToSet
<1>5. ASSUME seq = <<>>, n # 0 PROVE S = {}
  BY <1>3, <1>5 DEF ToSet
<1>6. QED
  BY <1>2, <1>4, <1>5

LEMMA MinOfTwo ==
  ASSUME NEW m \in Nat, NEW n \in Nat
  PROVE  Min({m, n}) \in Nat /\ Min({m, n}) <= m /\ Min({m, n}) <= n
<1>1. \E x \in {m, n} : \A y \in {m, n} : x <= y
  <2>1. CASE m <= n
    BY <2>1
  <2>2. CASE ~(m <= n)
    BY <2>2
  <2>3. QED
    BY <2>1, <2>2
<1>2. Min({m, n}) \in {m, n} /\ \A y \in {m, n} : Min({m, n}) <= y
  BY <1>1 DEF Min
<1>3. QED
  BY <1>2

\* A list in two parts.
LEMMA TwoParts ==
  ASSUME NEW S, NEW seq \in Seq(S), NEW n \in 0..Len(seq)
  PROVE  /\ SubSeq(seq, 1, n) \in Seq(S) /\ SubSeq(seq, n + 1, Len(seq)) \in Seq(S)
         /\ ToSet(seq) = ToSet(SubSeq(seq, 1, n)) \cup ToSet(SubSeq(seq, n + 1, Len(seq)))
<1> DEFINE a == SubSeq(seq, 1, n)
           b == SubSeq(seq, n + 1, Len(seq))
<1>1. a \in Seq(S) /\ Len(a) = n /\ \A i \in 1..n : a[i] = seq[i]
  OBVIOUS
<1>2. b \in Seq(S) /\ Len(b) = Len(seq) - n /\ \A i \in 1..(Len(seq) - n) : b[i] = seq[n + i]
  OBVIOUS
<1> HIDE DEF a, b
<1>3. ToSet(seq) \subseteq ToSet(a) \cup ToSet(b)
  <2> SUFFICES ASSUME NEW i \in 1..Len(seq) PROVE seq[i] \in ToSet(a) \cup ToSet(b)
    BY DEF ToSet
  <2>1. CASE i <= n
    BY <1>1, <2>1 DEF ToSet
  <2>2. CASE ~(i <= n)
    <3>1. i - n \in 1..(Len(seq) - n) /\ seq[i] = b[i - n]
      BY <1>2, <2>2
    <3>2. QED
      BY <1>2, <3>1 DEF ToSet
  <2>3. QED
    BY <2>1, <2>2
<1>4. ToSet(a) \subseteq ToSet(seq) /\ ToSet(b) \subseteq ToSet(seq)
  <2>1. \A i \in 1..(Len(seq) - n) : n + i \in 1..Len(seq)
    OBVIOUS
  <2>2. \A i \in 1..(Len(seq) - n) : b[i] \in ToSet(seq)
    BY <1>2, <2>1, SMTT(30) DEF ToSet
  <2>3. \A i \in 1..n : a[i] \in ToSet(seq)
    BY <1>1 DEF ToSet
  <2>4. ToSet(a) = {a[i] : i \in 1..n} /\ ToSet(b) = {b[i] : i \in 1..(Len(seq) - n)}
    <3>1. DOMAIN a = 1..n /\ DOMAIN b = 1..(Len(seq) - n)
      BY <1>1, <1>2
    <3>2. QED
      BY <3>1 DEF ToSet
  <2>5. QED
    BY <2>2, <2>3, <2>4
<1>5. QED
  BY <1>1, <1>2, <1>3, <1>4 DEF a, b

-----------------------------------------------------------------------------
(* Each action keeps the types.                                             *)

LEMMA RowsOf ==
  ASSUME TypeInv, NEW c \in Clients
  PROVE  /\ IsTable(db[c], Row) /\ DOMAIN db[c] \subseteq Files
         /\ \A f \in DOMAIN db[c] : db[c][f] \in Row /\ db[c][f].sha \in Shas /\ db[c][f].dirty \in BOOLEAN
<1>1. IsTable(db[c], Row)
  BY InTables DEF TypeInv
<1>2. DOMAIN db[c] \subseteq Files /\ \A f \in DOMAIN db[c] : db[c][f] \in Row
  BY <1>1 DEF IsTable
<1>3. QED
  BY <1>1, <1>2 DEF Row

LEMMA SessionOf ==
  ASSUME TypeInv, NEW c \in Clients
  PROVE  /\ server.last_usn \in Nat /\ last_usn[c] \in 0..server.last_usn /\ sess[c] \in Sessions(server.last_usn)
         /\ sess[c].pc \in {"idle", "changes", "download", "send", "upload", "sanity"}
         /\ sess[c].pc = "changes" => sess[c].usn \in 0..server.last_usn
         /\ sess[c].pc = "download" => sess[c] \in Downloads(server.last_usn)
         /\ sess[c].pc = "upload" => sess[c] \in Uploads
<1>1. /\ server.last_usn \in Nat /\ last_usn[c] \in 0..server.last_usn /\ sess[c] \in Sessions(server.last_usn)
  BY DEF TypeInv, IsServer
<1>2. QED
  BY <1>1, SessionFields

LEMMA SetRows ==
  ASSUME TypeInv, NEW c \in Clients, NEW rows, IsTable(rows, Row), db' = [db EXCEPT ![c] = rows]
  PROVE  db' \in [Clients -> Tables(Row)] /\ db'[c] = rows /\ \A d \in Clients \ {c} : db'[d] = db[d]
<1>1. rows \in Tables(Row)
  BY InTables
<1>2. QED
  BY <1>1 DEF TypeInv

LEMMA SetSession ==
  ASSUME TypeInv, NEW c \in Clients, NEW s, NEW top \in Nat, s \in Sessions(top), server.last_usn <= top, Goes(c, s)
  PROVE  sess' \in [Clients -> Sessions(top)] /\ sess'[c] = s /\ \A d \in Clients \ {c} : sess'[d] = sess[d]
<1>1. server.last_usn \in Nat
  BY DEF TypeInv, IsServer
<1>2. Sessions(server.last_usn) \subseteq Sessions(top)
  BY <1>1, SessionsGrow
<1>3. QED
  BY <1>2 DEF TypeInv, Goes

LEMMA EditedTypes ==
  ASSUME TypeInv, NEW c \in Clients, UserMay(c), Edited, folder' \in [Clients -> [Files -> Shas]],
         db' \in [Clients -> Tables(Row)], checked' \in [Clients -> BOOLEAN]
  PROVE  TypeInv'
<1>1. edits' \in 0..MaxEdits
  BY BoundsAssumption DEF TypeInv, UserMay, Edited
<1>2. QED
  BY <1>1 DEF TypeInv, Edited

LEMMA CopyInTypes == ASSUME TypeInv, NEW c \in Clients, CopyIn(c) PROVE TypeInv'
<1>1. folder' \in [Clients -> [Files -> Shas]]
  BY DEF CopyIn, TypeInv, Shas
<1>2. UserMay(c) /\ Edited /\ db' = db /\ checked' \in [Clients -> BOOLEAN]
  BY DEF CopyIn, TypeInv
<1>3. db' \in [Clients -> Tables(Row)]
  BY <1>2 DEF TypeInv
<1>4. QED
  BY <1>1, <1>2, <1>3, EditedTypes

LEMMA TakeOutTypes == ASSUME TypeInv, NEW c \in Clients, TakeOut(c) PROVE TypeInv'
<1>1. folder' \in [Clients -> [Files -> Shas]]
  BY DEF TakeOut, TypeInv, Shas, OnDisk
<1>2. UserMay(c) /\ Edited /\ db' = db /\ checked' \in [Clients -> BOOLEAN]
  BY DEF TakeOut, TypeInv
<1>3. db' \in [Clients -> Tables(Row)]
  BY <1>2 DEF TypeInv
<1>4. QED
  BY <1>1, <1>2, <1>3, EditedTypes

LEMMA WriteOverTypes == ASSUME TypeInv, NEW c \in Clients, WriteOver(c) PROVE TypeInv'
<1>1. folder' \in [Clients -> [Files -> Shas]]
  BY DEF WriteOver, TypeInv, Shas, OnDisk
<1>2. UserMay(c) /\ Edited /\ db' = db /\ checked' = checked
  BY DEF WriteOver, TypeInv
<1>3. db' \in [Clients -> Tables(Row)] /\ checked' \in [Clients -> BOOLEAN]
  BY <1>2 DEF TypeInv
<1>4. QED
  BY <1>1, <1>2, <1>3, EditedTypes

\* A row that is noted as changed.
Marked(rows, f, content) == Over(rows, [g \in {f} |-> Dirty(content)])
LEMMA MarkedIs ==
  ASSUME NEW rows, IsTable(rows, Row), NEW f \in Files, NEW content \in Shas
  PROVE  /\ IsTable(Marked(rows, f, content), Row) /\ DOMAIN rows \subseteq DOMAIN Marked(rows, f, content)
         /\ \A g \in DOMAIN Marked(rows, f, content) :
              \/ Marked(rows, f, content)[g].dirty
              \/ g \in DOMAIN rows /\ Marked(rows, f, content)[g] = rows[g]
<1> DEFINE new == [g \in {f} |-> Dirty(content)]
<1>1. IsTable(new, Row) /\ \A g \in DOMAIN new : new[g].dirty
  BY RowsAreShas DEF IsTable, Dirty
<1> HIDE DEF new
<1>2. IsTable(Over(rows, new), Row)
  BY <1>1 DEF Over, IsTable
<1>3. /\ DOMAIN rows \subseteq DOMAIN Over(rows, new)
      /\ \A g \in DOMAIN Over(rows, new) :
           Over(rows, new)[g].dirty \/ (g \in DOMAIN rows /\ Over(rows, new)[g] = rows[g])
  BY <1>1 DEF Over
<1>4. QED
  BY <1>2, <1>3 DEF Marked, new

LEMMA AddFileTypes == ASSUME TypeInv, NEW c \in Clients, AddFile(c) PROVE TypeInv'
<1>1. PICK f \in Files \ OnDisk(c), content \in Contents :
        /\ folder' = [folder EXCEPT ![c][f] = content]
        /\ db' = IF f \in Known(c) /\ db[c][f].sha = content THEN db
                 ELSE [db EXCEPT ![c] = Marked(db[c], f, content)]
  BY DEF AddFile, Marked
<1>2. folder' \in [Clients -> [Files -> Shas]]
  BY <1>1 DEF TypeInv, Shas
<1>3. UserMay(c) /\ Edited /\ checked' = checked
  BY DEF AddFile
<1>4. db' \in [Clients -> Tables(Row)]
  <2>1. CASE db' = db
    BY <2>1 DEF TypeInv
  <2>2. CASE db' = [db EXCEPT ![c] = Marked(db[c], f, content)]
    <3>1. IsTable(Marked(db[c], f, content), Row)
      BY RowsOf, MarkedIs, RowsAreShas
    <3>2. QED
      BY <2>2, <3>1, SetRows
  <2>3. QED
    BY <1>1, <2>1, <2>2
<1>5. checked' \in [Clients -> BOOLEAN]
  BY <1>3 DEF TypeInv
<1>6. QED
  BY <1>2, <1>3, <1>4, <1>5, EditedTypes

LEMMA TrashFilesTypes == ASSUME TypeInv, NEW c \in Clients, TrashFiles(c) PROVE TypeInv'
<1>1. PICK f \in OnDisk(c) : /\ folder' = [folder EXCEPT ![c] = FolderWithout(@, <<f>>)]
                             /\ db' = [db EXCEPT ![c] = RowsWithout(@, <<f>>)]
  BY DEF TrashFiles
<1>2. UserMay(c) /\ Edited /\ checked' = checked
  BY DEF TrashFiles
<1>3. folder' \in [Clients -> [Files -> Shas]]
  <2>1. folder[c] \in [Files -> Shas]
    BY DEF TypeInv
  <2>2. FolderWithout(folder[c], <<f>>) \in [Files -> Shas]
    BY <2>1, RowsAreShas DEF FolderWithout
  <2>3. QED
    BY <1>1, <2>2 DEF TypeInv
<1>4. IsTable(RowsWithout(db[c], <<f>>), Row)
  BY RowsOf, RowsWithoutTable
<1>5. db' \in [Clients -> Tables(Row)]
  BY <1>1, <1>4, SetRows
<1>6. checked' \in [Clients -> BOOLEAN]
  BY <1>2 DEF TypeInv
<1>7. QED
  BY <1>2, <1>3, <1>5, <1>6, EditedTypes

LEMMA RegisteredRows ==
  ASSUME TypeInv, NEW c \in Clients
  PROVE  /\ IsTable(Registered(c), Row) /\ DOMAIN db[c] \subseteq DOMAIN Registered(c)
         /\ \A f \in DOMAIN Registered(c) :
              Registered(c)[f].dirty \/ (f \in DOMAIN db[c] /\ Registered(c)[f] = db[c][f])
<1>1. folder \in [Clients -> [Files -> Shas]] /\ IsTable(db[c], Row)
  BY RowsOf DEF TypeInv
<1>2. QED
  BY <1>1, RegisteredTable

LEMMA RegisterChangesTypes == ASSUME TypeInv, NEW c \in Clients, RegisterChanges(c) PROVE TypeInv'
<1>1. db' \in [Clients -> Tables(Row)]
  BY RegisteredRows, SetRows DEF RegisterChanges
<1>2. checked' \in [Clients -> BOOLEAN]
  BY DEF RegisterChanges, TypeInv
<1>3. QED
  BY <1>1, <1>2 DEF RegisterChanges, TypeInv

LEMMA StartSyncTypes == ASSUME TypeInv, NEW c \in Clients, StartSync(c) PROVE TypeInv'
<1>1. db' \in [Clients -> Tables(Row)]
  BY RegisteredRows, SetRows DEF StartSync
<1>2. checked' \in [Clients -> BOOLEAN]
  BY DEF StartSync, TypeInv
<1>3. \E s \in Sessions(server.last_usn) : Goes(c, s)
  BY SessionOf, SessionKinds DEF StartSync
<1>4. sess' \in [Clients -> Sessions(server.last_usn)]
  BY <1>3, SessionOf, SetSession
<1>5. QED
  BY <1>1, <1>2, <1>4 DEF StartSync, TypeInv

\* What FetchChanges does, for a batch, its removals and the files to download.
OfKind(c, batch, kind) == {f \in ToSet(batch) : RequiredChange(c, f) = kind}
Fetching(c, batch, todo) ==
  [pc |-> "download", usn |-> Usns[Last(batch)], todo |-> todo, remove |-> OfKind(c, batch, "Delete"),
   same |-> OfKind(c, batch, "RemovePending"), got |-> NoRows]
Fetches(c, batch, removals, todo) ==
  /\ batch # <<>> /\ batch \in ChangesChunk(sess[c].usn)
  /\ removals \in AllBy(OfKind(c, batch, "Delete"), Usns, CHANGES_LIMIT)
  /\ todo \in AllBy(OfKind(c, batch, "Download"), Usns, CHANGES_LIMIT)
  /\ folder' = [folder EXCEPT ![c] = FolderWithout(@, removals)]
  /\ \/ /\ todo # <<>>
        /\ db' = [db EXCEPT ![c] = RowsWithout(@, removals)]
        /\ Goes(c, Fetching(c, batch, todo))
        /\ UNCHANGED <<last_usn, checked, unlike>>
     \/ todo = <<>> /\ Recorded(c, RowsWithout(db[c], removals), Fetching(c, batch, todo), NoRows)

LEMMA FetchIs ==
  ASSUME NEW c \in Clients, FetchChanges(c)
  PROVE  /\ \E batch, removals, todo : Fetches(c, batch, removals, todo)
         /\ sess[c].pc = "changes" /\ UNCHANGED <<server, edits, faults>>
BY DEF FetchChanges, Fetches, Fetching, OfKind

LEMMA BatchIs ==
  ASSUME TypeInv, NEW c \in Clients, sess[c].pc = "changes", NEW batch, batch # <<>>,
         batch \in ChangesChunk(sess[c].usn)
  PROVE  /\ ToSet(batch) \subseteq DOMAIN server.entries /\ ToSet(batch) \subseteq Files
         /\ \A f \in ToSet(batch) : server.entries[f].usn > sess[c].usn
         /\ Usns[Last(batch)] \in 1..server.last_usn
         /\ \A f \in DOMAIN server.entries :
              server.entries[f].usn <= Usns[Last(batch)] => f \in ToSet(batch) \/ server.entries[f].usn <= sess[c].usn
<1> DEFINE S == {f \in DOMAIN server.entries : Usns[f] > sess[c].usn}
<1>1. CHANGES_LIMIT \in Nat
  BY LimitsAssumption
<1>2. /\ ToSet(batch) \subseteq S /\ Last(batch) \in ToSet(batch)
      /\ \A f \in S \ ToSet(batch) : Usns[Last(batch)] < Usns[f]
  <2>1. batch \in FirstBy(S, Usns, CHANGES_LIMIT)
    BY DEF ChangesChunk
  <2> HIDE DEF S
  <2>2. QED
    BY <1>1, <2>1, FirstByIs
<1>3. IsServer(server) /\ sess[c].usn \in Nat
  BY SessionOf DEF TypeInv
<1>4. /\ DOMAIN server.entries \subseteq Files
      /\ \A f \in DOMAIN server.entries : server.entries[f].usn \in 1..server.last_usn
  BY <1>3, ServerFields DEF IsTable
<1>5. \A f \in DOMAIN server.entries : Usns[f] = server.entries[f].usn
  BY DEF Usns
<1>6. server.last_usn \in Nat
  BY <1>3, ServerFields
<1>7. QED
  BY <1>2, <1>3, <1>4, <1>5, <1>6

LEMMA FetchingIs ==
  ASSUME TypeInv, NEW c \in Clients, sess[c].pc = "changes",
         NEW batch, NEW removals, NEW todo, Fetches(c, batch, removals, todo)
  PROVE  /\ ToSet(removals) = OfKind(c, batch, "Delete") /\ OfKind(c, batch, "Delete") \subseteq Files
         /\ todo \in Seq(Files) /\ ToSet(todo) = OfKind(c, batch, "Download")
         /\ todo # <<>> => Fetching(c, batch, todo) \in Downloads(server.last_usn)
<1>1. CHANGES_LIMIT \in Nat
  BY LimitsAssumption
<1>2. ToSet(batch) \subseteq Files /\ Usns[Last(batch)] \in 1..server.last_usn
  BY BatchIs DEF Fetches
<1>3. \A kind : OfKind(c, batch, kind) \subseteq Files
  BY <1>2 DEF OfKind
<1>4. ToSet(removals) = OfKind(c, batch, "Delete")
  BY <1>1, AllByIs DEF Fetches
<1>5. todo \in Seq(OfKind(c, batch, "Download")) /\ ToSet(todo) = OfKind(c, batch, "Download")
  BY <1>1, AllByIs DEF Fetches
<1>6. todo \in Seq(Files)
  BY <1>3, <1>5
<1>7. NoRows \in Tables(Shas)
  BY NoRowsTable, InTables
<1>8. Usns[Last(batch)] \in 0..server.last_usn
  BY <1>2
<1>9. Fetching(c, batch, todo) \in Downloads(server.last_usn)
  BY <1>3, <1>6, <1>7, <1>8 DEF Fetching, Downloads
<1>10. QED
  BY <1>3, <1>4, <1>5, <1>6, <1>9

\* The end of a batch.
IsRecord(rows, s, got, new) ==
  /\ IsTable(new, Row) /\ DOMAIN new = (DOMAIN rows \ s.remove) \cup DOMAIN got
  /\ \A f \in DOMAIN got : new[f] = Clean(got[f])
  /\ \A f \in DOMAIN rows \ (s.remove \cup DOMAIN got) :
       new[f].sha = rows[f].sha /\ (f \notin s.same => new[f] = rows[f])
LEMMA RecordChangesIs ==
  ASSUME NEW rows, IsTable(rows, Row), NEW s, NEW got, IsTable(got, Shas)
  PROVE  IsRecord(rows, s, got, RecordChanges(rows, s, got))
<1> DEFINE cleaned == RecordClean(rows, s.same)
           kept == Without(cleaned, s.remove)
           new == [f \in DOMAIN got |-> Clean(got[f])]
<1>1. /\ IsTable(cleaned, Row) /\ DOMAIN cleaned = DOMAIN rows
      /\ \A f \in DOMAIN rows : cleaned[f].sha = rows[f].sha
      /\ \A f \in DOMAIN rows \ s.same : cleaned[f] = rows[f]
  BY RecordCleanTable
<1> HIDE DEF cleaned
<1>2. /\ IsTable(kept, Row) /\ DOMAIN kept = DOMAIN cleaned \ s.remove
      /\ \A f \in DOMAIN kept : kept[f] = cleaned[f]
  BY <1>1 DEF Without, Restrict, IsTable
<1>3. IsTable(new, Row) /\ DOMAIN new = DOMAIN got /\ \A f \in DOMAIN got : new[f] = Clean(got[f])
  BY RowsAreShas DEF IsTable
<1>4. RecordChanges(rows, s, got) = Over(kept, new)
  BY DEF RecordChanges, cleaned
<1> HIDE DEF kept, new
<1>5. IsTable(Over(kept, new), Row)
  BY <1>2, <1>3 DEF Over, IsTable
<1>6. /\ DOMAIN Over(kept, new) = DOMAIN kept \cup DOMAIN new
      /\ \A f \in DOMAIN new : Over(kept, new)[f] = new[f]
      /\ \A f \in DOMAIN kept \ DOMAIN new : Over(kept, new)[f] = kept[f]
  BY DEF Over
<1>7. QED
  BY <1>1, <1>2, <1>3, <1>4, <1>5, <1>6 DEF IsRecord

LEMMA RecordedTypes ==
  ASSUME TypeInv, NEW c \in Clients, NEW rows, IsTable(rows, Row), NEW s, s.usn \in 0..server.last_usn,
         NEW got, IsTable(got, Shas), Recorded(c, rows, s, got),
         folder' \in [Clients -> [Files -> Shas]], UNCHANGED <<server, edits, faults>>
  PROVE  TypeInv'
<1>1. IsTable(RecordChanges(rows, s, got), Row)
  BY RecordChangesIs DEF IsRecord
<1>2. db' \in [Clients -> Tables(Row)]
  BY <1>1, SetRows DEF Recorded
<1>3. last_usn' \in [Clients -> 0..server.last_usn] /\ checked' \in [Clients -> BOOLEAN]
  BY DEF Recorded, TypeInv
<1>4. sess' \in [Clients -> Sessions(server.last_usn)]
  <2>1. server.last_usn \in Nat
    BY SessionOf
  <2>2. [pc |-> "changes", usn |-> s.usn] \in Sessions(server.last_usn)
    BY <2>1, SessionKinds
  <2>3. QED
    BY <2>1, <2>2, SetSession DEF Recorded
<1>5. unlike' \in SUBSET (Clients \X Files)
  BY DEF Recorded, TypeInv
<1>6. QED
  BY <1>2, <1>3, <1>4, <1>5 DEF TypeInv

LEMMA FetchChangesTypes == ASSUME TypeInv, NEW c \in Clients, FetchChanges(c) PROVE TypeInv'
<1>1. PICK batch, removals, todo : Fetches(c, batch, removals, todo)
  BY FetchIs
<1>2. sess[c].pc = "changes" /\ UNCHANGED <<server, edits, faults>>
  BY FetchIs
<1>3. folder' \in [Clients -> [Files -> Shas]]
  <2>1. folder[c] \in [Files -> Shas]
    BY DEF TypeInv
  <2>2. FolderWithout(folder[c], removals) \in [Files -> Shas]
    BY <2>1, RowsAreShas DEF FolderWithout
  <2>3. QED
    BY <1>1, <2>2 DEF TypeInv, Fetches
<1> DEFINE rows == RowsWithout(db[c], removals)
           s == Fetching(c, batch, todo)
<1>4. IsTable(rows, Row)
  BY RowsOf, RowsWithoutTable
<1>5. CASE todo # <<>>
  <2>1. s \in Sessions(server.last_usn) /\ server.last_usn \in Nat
    BY <1>1, <1>2, <1>5, FetchingIs, SessionOf, SessionKinds
  <2>2. Goes(c, s) /\ db' = [db EXCEPT ![c] = rows] /\ UNCHANGED <<last_usn, checked, unlike>>
    BY <1>1, <1>5 DEF Fetches
  <2> HIDE DEF s, rows
  <2>3. sess' \in [Clients -> Sessions(server.last_usn)]
    BY <2>1, <2>2, SetSession
  <2>4. db' \in [Clients -> Tables(Row)]
    BY <1>4, <2>2, SetRows
  <2>5. QED
    BY <1>2, <1>3, <2>2, <2>3, <2>4 DEF TypeInv
<1>6. CASE todo = <<>>
  <2>1. Recorded(c, rows, s, NoRows)
    BY <1>1, <1>6 DEF Fetches
  <2>2. s.usn \in 0..server.last_usn
    <3>1. s.usn = Usns[Last(batch)]
      BY DEF Fetching
    <3>2. Usns[Last(batch)] \in 1..server.last_usn /\ server.last_usn \in Nat
      BY <1>1, <1>2, BatchIs, SessionOf DEF Fetches
    <3>3. QED
      BY <3>1, <3>2
  <2>3. IsTable(NoRows, Shas)
    BY NoRowsTable
  <2> HIDE DEF s, rows
  <2>4. QED
    BY <1>2, <1>3, <1>4, <2>1, <2>2, <2>3, RecordedTypes
<1>7. QED
  BY <1>5, <1>6

LEMMA NoMoreChangesTypes == ASSUME TypeInv, NEW c \in Clients, NoMoreChanges(c) PROVE TypeInv'
<1>1. \E s \in Sessions(server.last_usn) : Goes(c, s)
  BY SessionOf, SessionKinds DEF NoMoreChanges
<1>2. sess' \in [Clients -> Sessions(server.last_usn)]
  BY <1>1, SessionOf, SetSession
<1>3. QED
  BY <1>2 DEF NoMoreChanges, TypeInv

\* The server forgets an entry.
LEMMA ForgottenIs ==
  ASSUME IsServer(server), NEW f
  PROVE  IsServer(Forgotten(f)) /\ Forgotten(f).last_usn = server.last_usn
<1> DEFINE kept == Without(server.entries, {f})
           n == Max({0, server.count - 1})
           one == [server EXCEPT !.entries = kept]
           new == [one EXCEPT !.count = n]
           E == Tables([sha: Shas, usn: Nat])
<1>0. server \in [entries: E, last_usn: Nat, count: Nat, folder: [Files -> Shas]]
  BY DEF IsServer
<1>1. Forgotten(f) = new
  BY <1>0 DEF Forgotten
<1>2. IsTable(server.entries, [sha: Shas, usn: Nat]) /\ server.count \in Nat
      /\ \A g \in DOMAIN server.entries : server.entries[g].usn \in 1..server.last_usn
  BY ServerFields
<1>3. /\ IsTable(kept, [sha: Shas, usn: Nat]) /\ DOMAIN kept \subseteq DOMAIN server.entries
      /\ \A g \in DOMAIN kept : kept[g] = server.entries[g]
  BY <1>2 DEF Without, Restrict, IsTable
<1>4. n \in Nat
  <2>1. server.count - 1 \in Int
    BY <1>2
  <2>2. QED
    BY <2>1, MaxOfZero
<1>5. kept \in E
  BY <1>3, InTables
<1> HIDE DEF kept, n, E
<1>6. /\ one \in [entries: E, last_usn: Nat, count: Nat, folder: [Files -> Shas]]
      /\ one.entries = kept /\ one.last_usn = server.last_usn
  BY <1>0, <1>5
<1> HIDE DEF one
<1>7. /\ new \in [entries: E, last_usn: Nat, count: Nat, folder: [Files -> Shas]]
      /\ new.entries = kept /\ new.last_usn = server.last_usn
  BY <1>4, <1>6
<1> HIDE DEF new
<1>8. IsServer(new)
  BY <1>2, <1>3, <1>7 DEF IsServer, E
<1>9. QED
  BY <1>1, <1>7, <1>8

LEMMA DownloadConflictTypes == ASSUME TypeInv, NEW c \in Clients, DownloadConflict(c) PROVE TypeInv'
<1>1. server' = server \/ \E f : server' = Forgotten(f)
  BY DEF DownloadConflict
<1>2. IsServer(server') /\ server'.last_usn = server.last_usn
  BY <1>1, ForgottenIs DEF TypeInv
<1>3. sess' \in [Clients -> Sessions(server.last_usn)]
  BY SessionOf, SessionKinds, SetSession DEF DownloadConflict
<1>4. QED
  BY <1>2, <1>3 DEF DownloadConflict, TypeInv

\* What DownloadFiles does, with n files in the zip.
NextZip(s, n) == SubSeq(s.todo, 1, n)
Rest(s, n) == SubSeq(s.todo, n + 1, Len(s.todo))
Data(zip) == [f \in ToSet(zip) |-> server.folder[f]]
Got(s, n) == Over(s.got, Data(NextZip(s, n)))
Continued(s, n) == [s EXCEPT !.todo = Rest(s, n), !.got = Got(s, n)]
Extracts(c, s, n) ==
  /\ n \in 1..Len(s.todo) /\ ToSet(NextZip(s, n)) \subseteq ServerFiles
  /\ folder' = [folder EXCEPT ![c] = Over(@, Data(NextZip(s, n)))]
  /\ \/ /\ Rest(s, n) # <<>>
        /\ checked' = [checked EXCEPT ![c] = @ /\ ToSet(NextZip(s, n)) \subseteq OnDisk(c)]
        /\ Goes(c, Continued(s, n))
        /\ UNCHANGED <<db, last_usn, unlike>>
     \/ Rest(s, n) = <<>> /\ Recorded(c, db[c], s, Got(s, n))

LEMMA ExtractIs ==
  ASSUME TypeInv, NEW c \in Clients, DownloadFiles(c)
  PROVE  /\ sess[c] \in Downloads(server.last_usn) /\ sess[c].pc = "download"
         /\ \E n : Extracts(c, sess[c], n)
         /\ UNCHANGED <<server, edits, faults>>
<1> DEFINE s == sess[c]
<1>1. s.pc = "download" /\ UNCHANGED <<server, edits, faults>>
  BY DEF DownloadFiles
<1>2. s \in Downloads(server.last_usn)
  BY <1>1, SessionOf
<1>3. Len(s.todo) \in Nat /\ MAX_MEDIA_FILES_IN_ZIP \in Nat
  BY <1>2, LimitsAssumption DEF Downloads
<1>4. Min({MAX_MEDIA_FILES_IN_ZIP, Len(s.todo)}) \in Nat /\ Min({MAX_MEDIA_FILES_IN_ZIP, Len(s.todo)}) <= Len(s.todo)
  BY <1>3, MinOfTwo
<1>5. PICK n \in 1..Min({MAX_MEDIA_FILES_IN_ZIP, Len(s.todo)}) :
        /\ ToSet(NextZip(s, n)) \subseteq ServerFiles
        /\ folder' = [folder EXCEPT ![c] = Over(@, Data(NextZip(s, n)))]
        /\ \/ /\ Rest(s, n) # <<>>
              /\ checked' = [checked EXCEPT ![c] = @ /\ ToSet(NextZip(s, n)) \subseteq OnDisk(c)]
              /\ Goes(c, Continued(s, n))
              /\ UNCHANGED <<db, last_usn, unlike>>
           \/ Rest(s, n) = <<>> /\ Recorded(c, db[c], s, Got(s, n))
  BY DEF DownloadFiles, NextZip, Rest, Data, Got, Continued
<1>6. n \in 1..Len(s.todo)
  BY <1>3, <1>4
<1>7. Extracts(c, s, n)
  BY <1>5, <1>6 DEF Extracts
<1>8. QED
  BY <1>1, <1>2, <1>7

LEMMA GotIs ==
  ASSUME IsServer(server), NEW top \in Nat, NEW s \in Downloads(top), NEW n \in 1..Len(s.todo)
  PROVE  /\ NextZip(s, n) \in Seq(Files) /\ Rest(s, n) \in Seq(Files)
         /\ ToSet(s.todo) = ToSet(NextZip(s, n)) \cup ToSet(Rest(s, n))
         /\ IsTable(s.got, Shas) /\ IsTable(Got(s, n), Shas) /\ IsTable(Data(NextZip(s, n)), Shas)
         /\ DOMAIN Got(s, n) = DOMAIN s.got \cup ToSet(NextZip(s, n))
         /\ \A f \in ToSet(NextZip(s, n)) : Got(s, n)[f] = server.folder[f]
         /\ \A f \in DOMAIN s.got \ ToSet(NextZip(s, n)) : Got(s, n)[f] = s.got[f]
<1>1. s.todo \in Seq(Files) /\ IsTable(s.got, Shas)
  BY InTables DEF Downloads
<1>2. /\ NextZip(s, n) \in Seq(Files) /\ Rest(s, n) \in Seq(Files)
      /\ ToSet(s.todo) = ToSet(NextZip(s, n)) \cup ToSet(Rest(s, n))
  <2>1. n \in 0..Len(s.todo)
    BY <1>1
  <2>2. QED
    BY <1>1, <2>1, TwoParts DEF NextZip, Rest
<1>3. ToSet(NextZip(s, n)) \subseteq Files
  BY <1>2 DEF ToSet
<1>4. server.folder \in [Files -> Shas]
  BY ServerFields
<1> DEFINE zip == ToSet(NextZip(s, n))
           data == Data(NextZip(s, n))
<1>5. IsTable(data, Shas) /\ DOMAIN data = zip /\ \A f \in zip : data[f] = server.folder[f]
  BY <1>3, <1>4 DEF IsTable, Data
<1> HIDE DEF data
<1>6. /\ IsTable(Over(s.got, data), Shas) /\ DOMAIN Over(s.got, data) = DOMAIN s.got \cup zip
      /\ \A f \in zip : Over(s.got, data)[f] = data[f]
      /\ \A f \in DOMAIN s.got \ zip : Over(s.got, data)[f] = s.got[f]
  BY <1>1, <1>5 DEF Over, IsTable
<1>7. QED
  BY <1>1, <1>2, <1>5, <1>6 DEF Got, data

LEMMA DownloadsOn ==
  ASSUME IsServer(server), NEW top \in Nat, NEW s \in Downloads(top), NEW n \in 1..Len(s.todo)
  PROVE  /\ Continued(s, n) \in Downloads(top) /\ Continued(s, n).pc = "download"
         /\ Continued(s, n).todo = Rest(s, n) /\ Continued(s, n).got = Got(s, n)
         /\ Continued(s, n).usn = s.usn /\ Continued(s, n).remove = s.remove /\ Continued(s, n).same = s.same
<1> DEFINE rest == Rest(s, n)
           got == Got(s, n)
           one == [s EXCEPT !.todo = rest]
           new == [one EXCEPT !.got = got]
<1>1. rest \in Seq(Files) /\ got \in Tables(Shas)
  BY GotIs, InTables
<1>2. Continued(s, n) = new
  BY DEF Continued, Downloads
<1> HIDE DEF rest, got
<1>3. /\ one \in Downloads(top) /\ one.todo = rest /\ one.usn = s.usn /\ one.remove = s.remove
      /\ one.same = s.same
  BY <1>1 DEF Downloads
<1> HIDE DEF one
<1>4. /\ new \in Downloads(top) /\ new.pc = "download" /\ new.todo = rest /\ new.usn = s.usn
      /\ new.remove = s.remove /\ new.same = s.same /\ new.got = got
  BY <1>1, <1>3 DEF Downloads
<1>5. QED
  BY <1>2, <1>4 DEF rest, got

LEMMA DownloadFilesTypes == ASSUME TypeInv, NEW c \in Clients, DownloadFiles(c) PROVE TypeInv'
<1> DEFINE s == sess[c]
<1>1. s \in Downloads(server.last_usn) /\ UNCHANGED <<server, edits, faults>>
  BY ExtractIs
<1>2. PICK n : Extracts(c, s, n)
  BY ExtractIs
<1>3. IsServer(server) /\ server.last_usn \in Nat /\ n \in 1..Len(s.todo)
  BY <1>2, SessionOf DEF TypeInv, Extracts
<1> HIDE DEF s
<1>4. IsTable(Data(NextZip(s, n)), Shas) /\ IsTable(Got(s, n), Shas)
  BY <1>1, <1>3, GotIs
<1>5. folder' \in [Clients -> [Files -> Shas]]
  <2> DEFINE data == Data(NextZip(s, n))
  <2>1. folder[c] \in [Files -> Shas]
    BY DEF TypeInv
  <2>2. IsTable(data, Shas)
    BY <1>4
  <2> HIDE DEF data
  <2>3. Over(folder[c], data) \in [Files -> Shas]
    BY <2>1, <2>2 DEF Over, IsTable
  <2>4. QED
    BY <1>2, <2>3 DEF TypeInv, Extracts, data
<1>6. CASE Rest(s, n) # <<>>
  <2>1. Continued(s, n) \in Sessions(server.last_usn)
    BY <1>1, <1>3, DownloadsOn, SessionKinds
  <2>2. Goes(c, Continued(s, n)) /\ UNCHANGED <<db, last_usn, unlike>>
        /\ checked' = [checked EXCEPT ![c] = @ /\ ToSet(NextZip(s, n)) \subseteq OnDisk(c)]
    BY <1>2, <1>6 DEF Extracts
  <2>3. sess' \in [Clients -> Sessions(server.last_usn)]
    BY <1>3, <2>1, <2>2, SetSession
  <2>4. checked' \in [Clients -> BOOLEAN]
    BY <2>2 DEF TypeInv
  <2>5. QED
    BY <1>1, <1>5, <2>2, <2>3, <2>4 DEF TypeInv
<1>7. CASE Rest(s, n) = <<>>
  <2>1. Recorded(c, db[c], s, Got(s, n))
    BY <1>2, <1>7 DEF Extracts
  <2>2. s.usn \in 0..server.last_usn
    BY <1>1 DEF Downloads
  <2>3. QED
    BY <1>1, <1>4, <1>5, <2>1, <2>2, RowsOf, RecordedTypes
<1>8. QED
  BY <1>6, <1>7

\* A zip to be sent.
Upload(c, names) ==
  [pc |-> "upload", names |-> names, data |-> [f \in ToSet(names) |-> Content(c, f)],
   unlike |-> {f \in ToSet(names) : Content(c, f) # db[c][f].sha}]
LEMMA UploadIs ==
  ASSUME TypeInv, NEW c \in Clients, NEW n \in 1..MAX_MEDIA_FILES_IN_ZIP,
         NEW names \in FirstBy(PendingFiles(c), [f \in Files |-> f], n)
  PROVE  Upload(c, names) \in Uploads /\ ToSet(names) \subseteq PendingFiles(c)
<1>1. names \in Seq(PendingFiles(c)) /\ ToSet(names) \subseteq PendingFiles(c)
  <2>1. n \in Nat
    BY LimitsAssumption
  <2>2. QED
    BY <2>1, FirstByIs
<1>2. PendingFiles(c) \subseteq Files
  BY RowsOf DEF PendingFiles
<1>3. \A f \in Files : Content(c, f) \in Shas
  BY RowsAreShas DEF Content, TypeInv
<1> DEFINE data == [f \in ToSet(names) |-> Content(c, f)]
           odd == {f \in ToSet(names) : Content(c, f) # db[c][f].sha}
<1>4. data \in Tables(Shas) /\ DOMAIN data = ToSet(names)
  <2>1. IsTable(data, Shas)
    BY <1>1, <1>2, <1>3 DEF IsTable
  <2>2. QED
    BY <2>1, InTables
<1>5. odd \subseteq Files /\ names \in Seq(Files)
  BY <1>1, <1>2
<1>6. Upload(c, names) = [pc |-> "upload", names |-> names, data |-> data, unlike |-> odd]
  BY DEF Upload
<1> HIDE DEF data, odd
<1>7. QED
  BY <1>1, <1>4, <1>5, <1>6 DEF Uploads

LEMMA SendIs ==
  ASSUME TypeInv, NEW c \in Clients, SendChanges(c)
  PROVE  /\ sess[c].pc = "send" /\ UNCHANGED <<folder, db, last_usn, checked, server, unlike, edits, faults>>
         /\ \/ \E names : /\ Goes(c, Upload(c, names)) /\ Upload(c, names) \in Uploads
                          /\ ToSet(names) \subseteq PendingFiles(c)
            \/ Goes(c, [pc |-> "sanity"]) \/ Goes(c, NoSync)
<1>1. CASE PendingFiles(c) # {}
  <2>1. PICK n \in 1..MAX_MEDIA_FILES_IN_ZIP : \E names \in FirstBy(PendingFiles(c), [f \in Files |-> f], n) :
          Goes(c, Upload(c, names))
    BY <1>1 DEF SendChanges, Upload
  <2>2. PICK names \in FirstBy(PendingFiles(c), [f \in Files |-> f], n) : Goes(c, Upload(c, names))
    BY <2>1
  <2>3. QED
    BY <2>2, UploadIs DEF SendChanges
<1>2. CASE PendingFiles(c) = {}
  <2>1. Goes(c, IF sess[c].acted THEN [pc |-> "sanity"] ELSE NoSync)
    BY <1>2 DEF SendChanges
  <2>2. CASE sess[c].acted
    BY <2>1, <2>2 DEF SendChanges
  <2>3. CASE ~sess[c].acted
    BY <2>1, <2>3 DEF SendChanges
  <2>4. QED
    BY <2>2, <2>3
<1>3. QED
  BY <1>1, <1>2

LEMMA SendChangesTypes == ASSUME TypeInv, NEW c \in Clients, SendChanges(c) PROVE TypeInv'
<1>1. \E s \in Sessions(server.last_usn) : Goes(c, s)
  BY SendIs, SessionOf, SessionKinds
<1>2. sess' \in [Clients -> Sessions(server.last_usn)]
  BY <1>1, SessionOf, SetSession
<1>3. QED
  BY <1>2 DEF SendChanges, TypeInv

LEMMA UploadedTypes ==
  ASSUME TypeInv, NEW c \in Clients, sess[c].pc = "upload", server' = Processed(sess[c])
  PROVE  /\ sess[c] \in Uploads /\ IsServer(server') /\ After(server, ToSet(sess[c].names), server')
         /\ \A f \in ToSet(sess[c].names) : Stored(server', f) = sess[c].data[f]
         /\ server.last_usn \in Nat /\ server'.last_usn \in Nat /\ server.last_usn <= server'.last_usn
<1>1. IsServer(server) /\ server.last_usn \in Nat /\ sess[c] \in Uploads
  BY SessionOf DEF TypeInv
<1> DEFINE s == sess[c]
           new == Processed(s)
<1>2. s \in Uploads /\ server' = new
  BY <1>1
<1> HIDE DEF s
<1>3. After(server, ToSet(s.names), new) /\ \A f \in ToSet(s.names) : Stored(new, f) = s.data[f]
  BY <1>1, <1>2, ProcessedIs
<1> HIDE DEF new
<1>4. IsServer(new) /\ server.last_usn <= new.last_usn
  BY <1>3 DEF After
<1>5. QED
  BY <1>1, <1>2, <1>3, <1>4, ServerFields DEF s

LEMMA UploadChangesTypes == ASSUME TypeInv, NEW c \in Clients, UploadChanges(c) PROVE TypeInv'
<1>1. sess[c].pc = "upload" /\ server' = Processed(sess[c])
  BY DEF UploadChanges
<1>2. /\ sess[c] \in Uploads /\ IsServer(server')
      /\ server.last_usn \in Nat /\ server'.last_usn \in Nat /\ server.last_usn <= server'.last_usn
  BY <1>1, UploadedTypes
<1>3. db' \in [Clients -> Tables(Row)]
  BY RowsOf, RecordCleanTable, SetRows DEF UploadChanges
<1>4. last_usn' \in [Clients -> 0..server'.last_usn]
  <2>1. \A d \in Clients : last_usn[d] \in 0..server'.last_usn
    BY <1>2 DEF TypeInv
  <2>2. NextUsn(c, Len(sess[c].names), server'.last_usn) \in 0..server'.last_usn
    BY <1>2, <2>1 DEF NextUsn
  <2>3. last_usn' = [last_usn EXCEPT ![c] = NextUsn(c, Len(sess[c].names), server'.last_usn)]
    BY DEF UploadChanges
  <2>4. QED
    BY <2>1, <2>2, <2>3 DEF TypeInv
<1>5. sess' \in [Clients -> Sessions(server'.last_usn)]
  BY <1>2, SessionKinds, SetSession DEF UploadChanges
<1>6. unlike' \in SUBSET (Clients \X Files)
  <2>1. sess[c].unlike \subseteq Files
    BY <1>2 DEF Uploads
  <2>2. QED
    BY <2>1 DEF UploadChanges, TypeInv
<1>7. UNCHANGED <<folder, checked, edits, faults>>
  BY DEF UploadChanges
<1>8. QED
  BY <1>2, <1>3, <1>4, <1>5, <1>6, <1>7 DEF TypeInv

LEMMA SanityCheckTypes == ASSUME TypeInv, NEW c \in Clients, SanityCheck(c) PROVE TypeInv'
<1>1. sess' \in [Clients -> Sessions(server.last_usn)]
  BY SessionOf, SessionKinds, SetSession DEF SanityCheck
<1>2. CASE UNCHANGED <<db, last_usn, checked>>
  BY <1>1, <1>2 DEF SanityCheck, TypeInv
<1>3. CASE /\ db' = [db EXCEPT ![c] = NoRows]
           /\ last_usn' = [last_usn EXCEPT ![c] = 0]
           /\ checked' = [checked EXCEPT ![c] = FALSE]
  <2>1. db' \in [Clients -> Tables(Row)]
    BY <1>3, NoRowsTable, SetRows
  <2>2. last_usn' \in [Clients -> 0..server.last_usn] /\ checked' \in [Clients -> BOOLEAN]
    BY <1>3, SessionOf DEF TypeInv
  <2>3. QED
    BY <1>1, <2>1, <2>2 DEF SanityCheck, TypeInv
<1>4. QED
  BY <1>2, <1>3 DEF SanityCheck

LEMMA FaultTypes == ASSUME TypeInv, NEW kind, MayFail(kind) PROVE faults' \in 0..MaxFaults
BY BoundsAssumption DEF TypeInv, MayFail

LEMMA GiveUpTypes == ASSUME TypeInv, NEW c \in Clients, GiveUp(c) PROVE TypeInv'
<1>1. sess' \in [Clients -> Sessions(server.last_usn)]
  BY SessionOf, SessionKinds, SetSession DEF GiveUp
<1>2. QED
  BY <1>1, FaultTypes DEF GiveUp, TypeInv

\* The server has moved on, and the device's sync has ended.
LEMMA ServerMovesTypes ==
  ASSUME TypeInv, NEW c \in Clients, IsServer(server'), server.last_usn <= server'.last_usn, Goes(c, NoSync),
         faults' \in 0..MaxFaults, UNCHANGED <<folder, db, last_usn, checked, unlike, edits>>
  PROVE  TypeInv'
<1>1. server.last_usn \in Nat /\ server'.last_usn \in Nat
  BY DEF TypeInv, IsServer
<1>2. sess' \in [Clients -> Sessions(server'.last_usn)]
  BY <1>1, SessionKinds, SetSession
<1>3. last_usn' \in [Clients -> 0..server'.last_usn]
  BY <1>1 DEF TypeInv
<1>4. QED
  BY <1>2, <1>3 DEF TypeInv

LEMMA AnswerLostTypes == ASSUME TypeInv, NEW c \in Clients, AnswerLost(c) PROVE TypeInv'
<1>1. IsServer(server') /\ server.last_usn <= server'.last_usn
  BY UploadedTypes DEF AnswerLost
<1>2. faults' \in 0..MaxFaults
  BY FaultTypes DEF AnswerLost
<1>3. QED
  BY <1>1, <1>2, ServerMovesTypes DEF AnswerLost

LEMMA ServerCrashTypes == ASSUME TypeInv, NEW c \in Clients, ServerCrash(c) PROVE TypeInv'
<1>1. PICK n \in 1..Len(sess[c].names) :
        server' = [server EXCEPT !.folder = Uploading(sess[c].names, sess[c].data)[n].folder]
  BY DEF ServerCrash
<1> DEFINE s == sess[c]
           dir == Uploading(s.names, s.data)[n].folder
<1>2. s \in Uploads /\ IsServer(server)
  BY SessionOf DEF ServerCrash, TypeInv
<1>3. n \in 0..Len(s.names)
  BY <1>1
<1>4. server' = [server EXCEPT !.folder = dir]
  BY <1>1
<1> HIDE DEF s
<1>5. dir \in [Files -> Shas]
  BY <1>2, <1>3, UploadingIs, ServerFields DEF After
<1> HIDE DEF dir
<1>6. /\ IsServer(server') /\ server'.last_usn = server.last_usn
  <2> DEFINE E == Tables([sha: Shas, usn: Nat])
  <2>1. server \in [entries: E, last_usn: Nat, count: Nat, folder: [Files -> Shas]]
    BY <1>2 DEF IsServer
  <2> HIDE DEF E
  <2>2. /\ server' \in [entries: E, last_usn: Nat, count: Nat, folder: [Files -> Shas]]
        /\ server'.last_usn = server.last_usn /\ server'.entries = server.entries
    BY <1>4, <1>5, <2>1
  <2>3. QED
    BY <1>2, <2>2 DEF IsServer, E
<1>7. server.last_usn <= server'.last_usn
  BY <1>6, SessionOf
<1>8. faults' \in 0..MaxFaults
  BY FaultTypes DEF ServerCrash
<1>9. QED
  BY <1>6, <1>7, <1>8, ServerMovesTypes DEF ServerCrash

LEMMA TypesStep == ASSUME TypeInv, [Next]_vars PROVE TypeInv'
<1>1. CASE UNCHANGED vars
  BY <1>1 DEF vars, TypeInv
<1>2. ASSUME NEW c \in Clients, SyncStep(c) PROVE TypeInv'
  BY <1>2, StartSyncTypes, FetchChangesTypes, NoMoreChangesTypes, DownloadConflictTypes, DownloadFilesTypes,
     SendChangesTypes, UploadChangesTypes, SanityCheckTypes DEF SyncStep
<1>3. ASSUME NEW c \in Clients, UserStep(c) PROVE TypeInv'
  BY <1>3, CopyInTypes, TakeOutTypes, WriteOverTypes, AddFileTypes, TrashFilesTypes, RegisterChangesTypes DEF UserStep
<1>4. ASSUME NEW c \in Clients, FaultStep(c) PROVE TypeInv'
  BY <1>4, GiveUpTypes, AnswerLostTypes, ServerCrashTypes DEF FaultStep
<1>5. QED
  BY <1>1, <1>2, <1>3, <1>4 DEF Next

LEMMA TypesInit == Init => TypeInv
<1> SUFFICES ASSUME Init PROVE TypeInv
  OBVIOUS
<1> DEFINE E == Tables([sha: Shas, usn: Nat])
<1>1. NoRows \in Tables(Row) /\ NoRows \in E /\ DOMAIN NoRows = {}
  BY NoRowsTable, InTables
<1> DEFINE none == NoRows
<1>2. db = [c \in Clients |-> none] /\ server.entries = none /\ server.last_usn = 0 /\ server.count = 0
      /\ server.folder = [f \in Files |-> Gone]
      /\ server = [entries |-> none, last_usn |-> 0, count |-> 0, folder |-> [f \in Files |-> Gone]]
  BY DEF Init
<1> HIDE DEF none, E
<1>3. none \in Tables(Row) /\ none \in E /\ DOMAIN none = {}
  BY <1>1 DEF none
<1>4. server \in [entries: E, last_usn: Nat, count: Nat, folder: [Files -> Shas]]
  BY <1>2, <1>3, RowsAreShas
<1>5. IsServer(server)
  BY <1>2, <1>3, <1>4 DEF IsServer, E
<1>6. sess \in [Clients -> Sessions(server.last_usn)]
  BY <1>2, SessionKinds DEF Init
<1>7. folder \in [Clients -> [Files -> Shas]] /\ db \in [Clients -> Tables(Row)]
  BY <1>2, <1>3, RowsAreShas DEF Init
<1>8. last_usn \in [Clients -> 0..server.last_usn] /\ checked \in [Clients -> BOOLEAN]
  BY <1>2 DEF Init
<1>9. unlike \in SUBSET (Clients \X Files) /\ edits \in 0..MaxEdits /\ faults \in 0..MaxFaults
  BY BoundsAssumption DEF Init
<1>10. QED
  BY <1>5, <1>6, <1>7, <1>8, <1>9 DEF TypeInv

\* Folders, media tables, the steps of a sync and the server have their types
\* (sync_inner(), register_uploaded_change()).
THEOREM MediaTypes == Spec => []TypeInv
BY TypesInit, TypesStep, PTL DEF Spec

\* The type invariant the run checks.
LEMMA TypesOK == TypeInv => TypeOK
<1> SUFFICES ASSUME TypeInv PROVE TypeOK
  OBVIOUS
<1>1. \A c \in Clients : DOMAIN db[c] \subseteq Files /\ db[c] \in [DOMAIN db[c] -> Row]
  BY RowsOf DEF IsTable
<1>2. \A c \in Clients : sess[c].pc \in {"idle", "changes", "download", "send", "upload", "sanity"}
  BY SessionOf
<1>3. /\ DOMAIN server.entries \subseteq Files /\ server.entries \in [DOMAIN server.entries -> Entry]
      /\ server.folder \in [Files -> Shas] /\ server.last_usn \in Nat /\ server.count \in Nat
  <2>1. /\ IsTable(server.entries, [sha: Shas, usn: Nat]) /\ server.last_usn \in Nat /\ server.count \in Nat
        /\ server.folder \in [Files -> Shas]
        /\ \A f \in DOMAIN server.entries :
             server.entries[f].sha \in Shas /\ server.entries[f].usn \in 1..server.last_usn
    BY ServerFields DEF TypeInv
  <2>2. \A f \in DOMAIN server.entries : server.entries[f] \in Entry
    <3> TAKE f \in DOMAIN server.entries
    <3>1. server.entries[f] \in [sha: Shas, usn: Nat]
      BY <2>1 DEF IsTable
    <3>2. QED
      BY <2>1, <3>1 DEF Entry
  <2>3. QED
    BY <2>1, <2>2 DEF IsTable
<1>4. QED
  BY <1>1, <1>2, <1>3 DEF TypeInv, TypeOK

\* Whatever races and faults there are, tables, syncs and USNs keep their types: no
\* device notes a USN the server has not given out (last_sync_usn in send_changes()).
THEOREM TypeCorrect == Spec => []TypeOK
<1>1. TypeInv => TypeOK
  BY TypesOK
<1>2. QED
  BY <1>1, MediaTypes, PTL

-----------------------------------------------------------------------------
(* What keeps a device in step with the server.                             *)

\* The server moves on while the device sends nothing.
LEMMA FollowsLater ==
  ASSUME NEW e, NEW top \in Nat, NEW new, Later(e, top, new), \A f \in DOMAIN new : new[f].usn \in Nat,
         NEW rows, NEW usn \in 0..top, NEW odd, NEW s, Follows(e, rows, usn, odd, s),
         s.pc \notin {"send", "upload"}, s.pc = "download" => s.usn \in 0..top
  PROVE  Follows(new, rows, usn, odd, s)
<1>1. \A f \in DOMAIN new, n \in 0..top : new[f].usn <= n => f \in DOMAIN e /\ new[f] = e[f]
  BY DEF Later
<1>2. \A f \in DOMAIN new \cap DOMAIN e : new[f] = e[f] /\ Held(e, rows, odd, f) => Held(new, rows, odd, f)
  BY DEF Held
<1>3. Knows(new, rows, usn, odd)
  BY <1>1, <1>2 DEF Knows, Follows
<1>4. ASSUME s.pc = "download" PROVE Downloading(new, rows, usn, odd, s)
  <2>1. Downloading(e, rows, usn, odd, s) /\ s.usn \in 0..top
    BY <1>4 DEF Follows
  <2>2. ASSUME NEW f \in DOMAIN new, new[f].usn <= s.usn PROVE Fetched(new, rows, odd, s, f)
    <3>1. f \in DOMAIN e /\ new[f] = e[f]
      BY <1>1, <2>1, <2>2
    <3>2. Fetched(e, rows, odd, s, f)
      BY <2>1, <2>2, <3>1 DEF Downloading
    <3>3. QED
      BY <3>1, <3>2 DEF Fetched, Held
  <2>3. ASSUME NEW f \in Touched(s) PROVE f \in DOMAIN new /\ new[f].usn > usn
    <3>1. f \in DOMAIN e /\ e[f].usn > usn
      BY <2>1 DEF Downloading
    <3>2. f \in DOMAIN new /\ (new[f] = e[f] \/ new[f].usn > top)
      BY <3>1 DEF Later
    <3>3. QED
      BY <3>1, <3>2
  <2>4. QED
    BY <2>2, <2>3 DEF Downloading
<1>5. QED
  BY <1>3, <1>4 DEF Follows

\* Rows that are only added or marked.
RowsKept(rows, new) ==
  /\ DOMAIN rows \subseteq DOMAIN new
  /\ \A f \in DOMAIN new : new[f].dirty \/ (f \in DOMAIN rows /\ new[f] = rows[f])

LEMMA HeldOn ==
  ASSUME NEW e, NEW rows, NEW new, RowsKept(rows, new), NEW odd, NEW f, Held(e, rows, odd, f)
  PROVE  Held(e, new, odd, f)
BY DEF RowsKept, Held, IsPending, RowSha

LEMMA FollowsRows ==
  ASSUME NEW e, NEW rows, NEW new, RowsKept(rows, new), NEW usn, NEW odd, NEW s,
         Follows(e, rows, usn, odd, s), s.pc \notin {"download", "upload"}
  PROVE  Follows(e, new, usn, odd, s)
<1>1. \A f : Held(e, rows, odd, f) => Held(e, new, odd, f)
  BY HeldOn
<1>2. QED
  BY <1>1 DEF Follows, Knows, KnowsAll

LEMMA KeptRows ==
  /\ \A rows : RowsKept(rows, rows)
  /\ \A rows : IsTable(rows, Row) => \A list : RowsKept(rows, RowsWithout(rows, list))
<1>1. \A rows : RowsKept(rows, rows)
  BY DEF RowsKept
<1>2. ASSUME NEW rows, IsTable(rows, Row), NEW list PROVE RowsKept(rows, RowsWithout(rows, list))
  BY <1>2, RowsWithoutTable DEF RowsKept, Deleted
<1>3. QED
  BY <1>1, <1>2

\* A device that neither fetches nor sends.
LEMMA FollowsAtRest ==
  ASSUME NEW e, NEW rows, NEW usn, NEW odd, NEW s, Knows(e, rows, usn, odd), s.pc \in {"idle", "sanity"}
  PROVE  Follows(e, rows, usn, odd, s)
BY DEF Follows

\* A batch is recorded when its last file has been got.
LEMMA FollowsRecord ==
  ASSUME NEW e, NEW rows, IsTable(rows, Row), NEW odd, NEW s, NEW got, IsTable(got, Shas),
         \A f \in DOMAIN e : e[f].usn <= s.usn =>
           \/ f \in DOMAIN got /\ got[f] = e[f].sha
           \/ f \in s.remove \ DOMAIN got /\ e[f].sha = Gone
           \/ f \in s.same \ (s.remove \cup DOMAIN got) /\ RowSha(rows, f) = e[f].sha
           \/ f \notin DOMAIN got \cup s.remove \cup s.same /\ Held(e, rows, odd, f)
  PROVE  Follows(e, RecordChanges(rows, s, got), s.usn, odd \ DOMAIN got, [pc |-> "changes", usn |-> s.usn])
<1> DEFINE new == RecordChanges(rows, s, got)
           left == odd \ DOMAIN got
           Recorded1(f) ==
             \/ f \in DOMAIN got /\ got[f] = e[f].sha
             \/ f \in s.remove \ DOMAIN got /\ e[f].sha = Gone
             \/ f \in s.same \ (s.remove \cup DOMAIN got) /\ RowSha(rows, f) = e[f].sha
             \/ f \notin DOMAIN got \cup s.remove \cup s.same /\ Held(e, rows, odd, f)
<1>0. \A f \in DOMAIN e : e[f].usn <= s.usn => Recorded1(f)
  OBVIOUS
<1>1. /\ DOMAIN new = (DOMAIN rows \ s.remove) \cup DOMAIN got
      /\ \A f \in DOMAIN got : new[f] = Clean(got[f])
      /\ \A f \in DOMAIN rows \ (s.remove \cup DOMAIN got) :
           new[f].sha = rows[f].sha /\ (f \notin s.same => new[f] = rows[f])
  <2>1. IsRecord(rows, s, got, new)
    BY RecordChangesIs
  <2>2. QED
    BY <2>1 DEF IsRecord
<1> HIDE DEF new
<1>2. ASSUME NEW f \in DOMAIN e, e[f].usn <= s.usn PROVE Held(e, new, left, f)
  <2>1. CASE f \in DOMAIN got /\ got[f] = e[f].sha
    <3>1. f \in DOMAIN new /\ new[f].sha = got[f]
      BY <1>1, <2>1 DEF Clean
    <3>2. QED
      BY <2>1, <3>1 DEF Held, RowSha
  <2>2. CASE f \in s.remove \ DOMAIN got /\ e[f].sha = Gone
    BY <1>1, <2>2 DEF Held, RowSha
  <2>3. CASE f \in s.same \ (s.remove \cup DOMAIN got) /\ RowSha(rows, f) = e[f].sha
    BY <1>1, <2>3 DEF Held, RowSha
  <2>4. CASE f \notin DOMAIN got \cup s.remove \cup s.same /\ Held(e, rows, odd, f)
    <3>1. (f \in DOMAIN new <=> f \in DOMAIN rows) /\ (f \in DOMAIN rows => new[f] = rows[f])
      BY <1>1, <2>4
    <3>2. QED
      BY <2>4, <3>1 DEF Held, RowSha, IsPending
  <2>5. QED
    BY <1>0, <1>2, <2>1, <2>2, <2>3, <2>4
<1>3. QED
  BY <1>2 DEF Follows, Knows, new

LEMMA RequiredChangeIs ==
  ASSUME NEW c, NEW f
  PROVE  LET sha == server.entries[f].sha
             kind == RequiredChange(c, f)
         IN /\ kind \in {"Download", "Delete", "RemovePending", "None"}
            /\ kind = "Delete" => sha = Gone /\ f \in DOMAIN db[c]
            /\ kind = "RemovePending" => RowSha(db[c], f) = sha /\ sha # Gone
            /\ kind = "None" => IsPending(db[c], f) \/ RowSha(db[c], f) = sha
<1> DEFINE sha == server.entries[f].sha
           local == RowSha(db[c], f)
           pending == f \in PendingFiles(c)
<1>1. RequiredChange(c, f) =
        CASE sha # Gone /\ local # sha -> "Download"
          [] sha = Gone /\ f \in DOMAIN db[c] /\ (local = Gone \/ ~pending) -> "Delete"
          [] sha # Gone /\ local = sha /\ pending -> "RemovePending"
          [] OTHER -> "None"
  BY DEF RequiredChange, RowSha
<1>2. pending <=> IsPending(db[c], f)
  BY DEF PendingFiles, IsPending
<1>3. f \notin DOMAIN db[c] => local = Gone
  BY DEF RowSha
<1> HIDE DEF sha, local, pending
<1>4. CASE sha # Gone /\ local # sha
  <2>1. RequiredChange(c, f) = "Download"
    BY <1>1, <1>4
  <2>2. QED
    BY <2>1
<1>5. CASE sha = Gone /\ f \in DOMAIN db[c] /\ (local = Gone \/ ~pending)
  <2>1. RequiredChange(c, f) = "Delete"
    BY <1>1, <1>5
  <2>2. QED
    BY <1>5, <2>1 DEF sha
<1>6. CASE sha # Gone /\ local = sha /\ pending
  <2>1. RequiredChange(c, f) = "RemovePending"
    BY <1>1, <1>6
  <2>2. QED
    BY <1>6, <2>1 DEF sha, local
<1>7. CASE /\ ~(sha # Gone /\ local # sha)
           /\ ~(sha = Gone /\ f \in DOMAIN db[c] /\ (local = Gone \/ ~pending))
           /\ ~(sha # Gone /\ local = sha /\ pending)
  <2>1. RequiredChange(c, f) = "None"
    BY <1>1, <1>7
  <2>2. local = sha \/ pending
    BY <1>3, <1>7
  <2>3. IsPending(db[c], f) \/ RowSha(db[c], f) = sha
    BY <1>2, <2>2 DEF local
  <2>4. QED
    BY <2>1, <2>3 DEF sha
<1>8. QED
  BY <1>4, <1>5, <1>6, <1>7

\* A batch of changes has been fetched: what becomes of each file in it is known.
LEMMA FollowsFetch ==
  ASSUME TypeInv, NEW c \in Clients, sess[c].pc = "changes", sess[c].usn = last_usn[c], NEW odd,
         Knows(server.entries, db[c], last_usn[c], odd),
         NEW batch, NEW removals, NEW todo, Fetches(c, batch, removals, todo)
  PROVE  Downloading(server.entries, RowsWithout(db[c], removals), last_usn[c], odd, Fetching(c, batch, todo))
<1> DEFINE e == server.entries
           rows == db[c]
           new == RowsWithout(rows, removals)
           s == Fetching(c, batch, todo)
           usn == last_usn[c]
           inBatch == ToSet(batch)
<1>1. /\ inBatch \subseteq DOMAIN e /\ \A f \in inBatch : e[f].usn > usn
      /\ \A f \in DOMAIN e : e[f].usn <= Usns[Last(batch)] => f \in inBatch \/ e[f].usn <= usn
  BY BatchIs DEF Fetches
<1>2. /\ ToSet(removals) = OfKind(c, batch, "Delete") /\ ToSet(todo) = OfKind(c, batch, "Download")
  BY FetchingIs
<1>3. /\ ToSet(s.todo) = OfKind(c, batch, "Download") /\ s.remove = OfKind(c, batch, "Delete")
      /\ s.same = OfKind(c, batch, "RemovePending") /\ DOMAIN s.got = {} /\ s.usn = Usns[Last(batch)]
  BY <1>2, NoRowsTable DEF Fetching
<1>4. /\ DOMAIN new = DOMAIN rows
      /\ \A f \in DOMAIN rows \ ToSet(removals) : new[f] = rows[f]
  BY RowsOf, RowsWithoutTable
<1>5. \A kind, f : f \in OfKind(c, batch, kind) <=> f \in inBatch /\ RequiredChange(c, f) = kind
  BY DEF OfKind
<1> HIDE DEF s, new, inBatch
<1>6. \A f : f \notin ToSet(removals) => RowSha(new, f) = RowSha(rows, f) /\ (IsPending(new, f) <=> IsPending(rows, f))
  BY <1>4 DEF RowSha, IsPending
<1>7. ASSUME NEW f \in DOMAIN e, e[f].usn <= s.usn PROVE Fetched(e, new, odd, s, f)
  <2>1. CASE f \notin inBatch
    <3>1. Held(e, rows, odd, f)
      BY <1>1, <1>3, <1>7, <2>1 DEF Knows
    <3>2. f \notin Touched(s) /\ f \notin ToSet(removals)
      BY <1>2, <1>3, <1>5, <2>1 DEF Touched
    <3>3. QED
      BY <1>6, <3>1, <3>2 DEF Fetched, Held
  <2>2. CASE f \in inBatch /\ RequiredChange(c, f) = "Download"
    BY <1>3, <1>5, <2>2 DEF Fetched
  <2>3. CASE f \in inBatch /\ RequiredChange(c, f) = "Delete"
    <3>1. e[f].sha = Gone
      BY <2>3, RequiredChangeIs
    <3>2. QED
      BY <1>3, <1>5, <2>3, <3>1 DEF Fetched
  <2>4. CASE f \in inBatch /\ RequiredChange(c, f) = "RemovePending"
    <3>1. RowSha(rows, f) = e[f].sha
      BY <2>4, RequiredChangeIs
    <3>2. f \in s.same /\ f \notin s.remove /\ f \notin ToSet(removals)
      BY <1>2, <1>3, <1>5, <2>4
    <3>3. QED
      BY <1>3, <1>6, <3>1, <3>2 DEF Fetched
  <2>5. CASE f \in inBatch /\ RequiredChange(c, f) = "None"
    <3>1. IsPending(rows, f) \/ RowSha(rows, f) = e[f].sha
      BY <2>5, RequiredChangeIs
    <3>2. f \notin Touched(s) /\ f \notin ToSet(removals)
      BY <1>2, <1>3, <1>5, <2>5 DEF Touched
    <3>3. QED
      BY <1>6, <3>1, <3>2 DEF Fetched, Held
  <2>6. QED
    BY <2>1, <2>2, <2>3, <2>4, <2>5, RequiredChangeIs
<1>8. ASSUME NEW f \in Touched(s) PROVE f \in DOMAIN e /\ e[f].usn > usn
  BY <1>1, <1>3, <1>5, <1>8 DEF Touched
<1>9. QED
  BY <1>7, <1>8 DEF Downloading, s, new

\* A zip has been extracted.
LEMMA FollowsExtract ==
  ASSUME IsServer(server), Meets(server), NEW top \in Nat, NEW s \in Downloads(top), NEW n \in 1..Len(s.todo),
         NEW rows, NEW usn, NEW odd, Downloading(server.entries, rows, usn, odd, s)
  PROVE  /\ Downloading(server.entries, rows, usn, odd, Continued(s, n))
         /\ DOMAIN Got(s, n) \subseteq Touched(s)
<1> DEFINE e == server.entries
           new == Continued(s, n)
           zip == ToSet(NextZip(s, n))
           rest == ToSet(Rest(s, n))
<1>1. /\ ToSet(s.todo) = zip \cup rest /\ DOMAIN Got(s, n) = DOMAIN s.got \cup zip
      /\ \A f \in zip : Got(s, n)[f] = server.folder[f]
      /\ \A f \in DOMAIN s.got \ zip : Got(s, n)[f] = s.got[f]
  BY GotIs
<1>2. /\ ToSet(new.todo) = rest /\ new.got = Got(s, n)
      /\ new.usn = s.usn /\ new.remove = s.remove /\ new.same = s.same
  BY DownloadsOn
<1> HIDE DEF new, zip, rest
<1>3. Touched(new) = Touched(s) /\ DOMAIN Got(s, n) \subseteq Touched(s)
  BY <1>1, <1>2 DEF Touched
<1>4. ASSUME NEW f \in DOMAIN e, e[f].usn <= s.usn PROVE Fetched(e, rows, odd, new, f)
  <2>1. Fetched(e, rows, odd, s, f)
    BY <1>4 DEF Downloading
  <2>2. CASE f \in zip
    <3>1. f \in DOMAIN new.got /\ new.got[f] = e[f].sha
      BY <1>1, <1>2, <2>2 DEF Meets
    <3>2. QED
      BY <3>1 DEF Fetched
  <2>3. CASE f \notin zip
    <3>1. /\ f \in ToSet(new.todo) <=> f \in ToSet(s.todo)
          /\ f \in DOMAIN new.got <=> f \in DOMAIN s.got
          /\ f \in DOMAIN s.got => new.got[f] = s.got[f]
      BY <1>1, <1>2, <2>3
    <3>2. QED
      BY <1>2, <1>3, <2>1, <3>1 DEF Fetched
  <2>4. QED
    BY <2>2, <2>3
<1>5. QED
  BY <1>2, <1>3, <1>4 DEF Downloading, new

\* The server has taken what the device sent.
LEMMA FollowsUpload ==
  ASSUME NEW sv, IsServer(sv), NEW s \in Uploads, NEW new, After(sv, ToSet(s.names), new),
         \A f \in ToSet(s.names) : Stored(new, f) = s.data[f],
         NEW rows, IsTable(rows, Row), NEW odd, KnowsAll(sv.entries, rows, odd), Sending(rows, s)
  PROVE  KnowsAll(new.entries, RecordClean(rows, ToSet(s.names)), (odd \ ToSet(s.names)) \cup s.unlike)
<1> DEFINE names == ToSet(s.names)
           clean == RecordClean(rows, names)
           e == sv.entries
<1>1. /\ DOMAIN clean = DOMAIN rows /\ \A f \in DOMAIN rows : clean[f].sha = rows[f].sha
      /\ \A f \in DOMAIN rows \ names : clean[f] = rows[f]
  BY RecordCleanTable
<1>2. IsServer(new) /\ DOMAIN new.entries \subseteq DOMAIN e \cup names
      /\ \A f \in Files \ names : Stored(new, f) = Stored(sv, f)
  BY DEF After
<1>3. DOMAIN new.entries \subseteq Files
  BY <1>2, ServerFields DEF IsTable
<1> HIDE DEF clean, names
<1>4. ASSUME NEW f \in DOMAIN new.entries
      PROVE  Held(new.entries, clean, (odd \ names) \cup s.unlike, f)
  <2>1. Stored(new, f) = new.entries[f].sha
    BY DEF Stored
  <2>2. CASE f \in names
    <3>1. IsPending(rows, f) /\ (s.data[f] = rows[f].sha \/ f \in s.unlike)
      BY <2>2 DEF Sending, names
    <3>2. new.entries[f].sha = s.data[f]
      BY <2>1, <2>2 DEF names
    <3>3. f \in DOMAIN clean /\ clean[f].sha = rows[f].sha
      BY <1>1, <3>1 DEF IsPending
    <3>4. QED
      BY <3>1, <3>2, <3>3 DEF Held, RowSha
  <2>3. CASE f \notin names
    <3>1. f \in DOMAIN e /\ Stored(new, f) = e[f].sha
      BY <1>2, <1>3, <2>3 DEF Stored
    <3>2. Held(e, rows, odd, f)
      BY <3>1 DEF KnowsAll
    <3>3. (f \in DOMAIN clean <=> f \in DOMAIN rows) /\ (f \in DOMAIN rows => clean[f] = rows[f])
      BY <1>1, <2>3
    <3>4. QED
      BY <2>1, <2>3, <3>1, <3>2, <3>3 DEF Held, RowSha, IsPending
  <2>4. QED
    BY <2>2, <2>3
<1>5. QED
  BY <1>4 DEF KnowsAll, clean, names

-----------------------------------------------------------------------------
(* Each action keeps the devices in step.                                   *)

InStep(c) == Follows(server.entries, db[c], last_usn[c], Odd(c), sess[c])
Alone(c) == \A d \in Clients \ {c} : ~Sends(d)

LEMMA InStepOf ==
  ASSUME SyncInv, NEW c \in Clients
  PROVE  InStep(c) /\ Meets(server) /\ (Sends(c) => Alone(c))
BY DEF SyncInv, InStep, Meets, Alone

\* A step of one device that leaves the server as it is.
LEMMA OneStep ==
  ASSUME SyncInv, NEW c \in Clients, UNCHANGED server, InStep(c)', Sends(c)' => Alone(c),
         \A d \in Clients \ {c} : db'[d] = db[d] /\ last_usn'[d] = last_usn[d] /\ sess'[d] = sess[d] /\ Odd(d)' = Odd(d)
  PROVE  SyncInv'
<1>1. \A f \in DOMAIN server'.entries : server'.entries[f].sha = server'.folder[f]
  BY DEF SyncInv
<1>2. \A d \in Clients \ {c} : Sends(d)' <=> Sends(d)
  BY DEF Sends
<1>3. \A a, b \in Clients : Sends(a)' /\ Sends(b)' => a = b
  BY <1>2 DEF SyncInv, Alone
<1>4. \A d \in Clients : Follows(server'.entries, db'[d], last_usn'[d], Odd(d)', sess'[d])
  BY DEF SyncInv, InStep
<1>5. QED
  BY <1>1, <1>3, <1>4 DEF SyncInv

\* A change of the user that touches no table.
LEMMA NothingStep ==
  ASSUME SyncInv, UNCHANGED <<db, last_usn, sess, server, unlike>>
  PROVE  SyncInv'
BY DEF SyncInv, Sends, Odd

\* A change of a device's rows by its user.
LEMMA RowsStep ==
  ASSUME TypeInv, SyncInv, NEW c \in Clients, NEW rows, IsTable(rows, Row), RowsKept(db[c], rows),
         db' = [db EXCEPT ![c] = rows], sess[c].pc \notin {"download", "upload"},
         UNCHANGED <<last_usn, sess, server, unlike>>
  PROVE  SyncInv'
<1>1. db'[c] = rows /\ \A d \in Clients \ {c} : db'[d] = db[d]
  BY SetRows
<1>2. Follows(server.entries, db[c], last_usn[c], Odd(c), sess[c])
  BY InStepOf DEF InStep
<1>3. Follows(server.entries, rows, last_usn[c], Odd(c), sess[c])
  BY <1>2, FollowsRows
<1>4. \A d : Odd(d)' = Odd(d)
  BY DEF Odd
<1>5. InStep(c)'
  BY <1>1, <1>3, <1>4 DEF InStep
<1>6. Sends(c)' => Alone(c)
  BY InStepOf DEF Sends
<1>7. QED
  BY <1>1, <1>4, <1>5, <1>6, OneStep

LEMMA AddFileStep == ASSUME TypeInv, SyncInv, Undisturbed, NEW c \in Clients, AddFile(c) PROVE SyncInv'
<1>1. PICK f \in Files \ OnDisk(c), content \in Contents :
        db' = IF f \in Known(c) /\ db[c][f].sha = content THEN db
              ELSE [db EXCEPT ![c] = Marked(db[c], f, content)]
  BY DEF AddFile, Marked
<1>2. sess[c].pc \notin {"download", "upload"} /\ UNCHANGED <<last_usn, sess, server, unlike>>
  BY DEF AddFile, UserMay, Edited, Undisturbed
<1>3. CASE db' = db
  BY <1>2, <1>3, NothingStep
<1>4. CASE db' = [db EXCEPT ![c] = Marked(db[c], f, content)]
  <2>1. IsTable(Marked(db[c], f, content), Row) /\ RowsKept(db[c], Marked(db[c], f, content))
    BY RowsOf, MarkedIs, RowsAreShas DEF RowsKept
  <2>2. QED
    BY <1>2, <1>4, <2>1, RowsStep
<1>5. QED
  BY <1>1, <1>3, <1>4

LEMMA TrashFilesStep == ASSUME TypeInv, SyncInv, Undisturbed, NEW c \in Clients, TrashFiles(c) PROVE SyncInv'
<1>1. PICK f \in OnDisk(c) : db' = [db EXCEPT ![c] = RowsWithout(@, <<f>>)]
  BY DEF TrashFiles
<1>2. sess[c].pc \notin {"download", "upload"} /\ UNCHANGED <<last_usn, sess, server, unlike>>
  BY DEF TrashFiles, UserMay, Edited, Undisturbed
<1> DEFINE rows == RowsWithout(db[c], <<f>>)
<1>3. IsTable(rows, Row) /\ RowsKept(db[c], rows) /\ db' = [db EXCEPT ![c] = rows]
  BY <1>1, RowsOf, RowsWithoutTable, KeptRows
<1> HIDE DEF rows
<1>4. QED
  BY <1>2, <1>3, RowsStep

LEMMA RegisteredKept ==
  ASSUME TypeInv, NEW c \in Clients
  PROVE  IsTable(Registered(c), Row) /\ RowsKept(db[c], Registered(c))
BY RegisteredRows DEF RowsKept

LEMMA RegisterChangesStep ==
  ASSUME TypeInv, SyncInv, Undisturbed, NEW c \in Clients, RegisterChanges(c) PROVE SyncInv'
<1>1. db' = [db EXCEPT ![c] = Registered(c)]
  BY DEF RegisterChanges
<1>2. sess[c].pc \notin {"download", "upload"} /\ UNCHANGED <<last_usn, sess, server, unlike>>
  BY DEF RegisterChanges, Undisturbed
<1>3. QED
  BY <1>1, <1>2, RegisteredKept, RowsStep

LEMMA StartSyncStep == ASSUME TypeInv, SyncInv, Undisturbed, NEW c \in Clients, StartSync(c) PROVE SyncInv'
<1>1. PICK s \in Sessions(server.last_usn) :
        /\ Goes(c, s)
        /\ s.pc \in {"idle", "changes", "send"}
        /\ s.pc = "changes" => s.usn = last_usn[c]
        /\ s.pc = "send" => MaySend(c) /\ last_usn[c] = server.last_usn
  <2>1. PICK server_usn \in ServerUsn(c) :
       \/ last_usn[c] # server_usn /\ Goes(c, [pc |-> "changes", usn |-> last_usn[c]])
       \/ /\ last_usn[c] = server_usn
          /\ \/ MaySend(c) /\ Goes(c, [pc |-> "send", acted |-> FALSE])
             \/ Goes(c, NoSync)
    BY DEF StartSync
  <2>2. server_usn = server.last_usn
    BY <2>1 DEF ServerUsn, Undisturbed
  <2>3. CASE Goes(c, [pc |-> "changes", usn |-> last_usn[c]])
    BY <2>3, SessionOf, SessionKinds
  <2>4. CASE MaySend(c) /\ Goes(c, [pc |-> "send", acted |-> FALSE]) /\ last_usn[c] = server.last_usn
    BY <2>4, SessionOf, SessionKinds
  <2>5. CASE Goes(c, NoSync)
    BY <2>5, SessionOf, SessionKinds DEF NoSync
  <2>6. QED
    BY <2>1, <2>2, <2>3, <2>4, <2>5
<1>2. db' = [db EXCEPT ![c] = Registered(c)] /\ UNCHANGED <<last_usn, server, unlike>>
  BY DEF StartSync
<1> DEFINE e == server.entries
           rows == Registered(c)
           odd == Odd(c)
<1>3. IsTable(rows, Row) /\ RowsKept(db[c], rows)
  BY RegisteredKept
<1> HIDE DEF rows
<1>4. Knows(e, rows, last_usn[c], odd)
  <2>1. Knows(e, db[c], last_usn[c], odd)
    BY InStepOf DEF InStep, Follows
  <2>2. \A f : Held(e, db[c], odd, f) => Held(e, rows, odd, f)
    BY <1>3, HeldOn
  <2>3. QED
    BY <2>1, <2>2 DEF Knows
<1>5. last_usn[c] = server.last_usn => KnowsAll(e, rows, odd)
  <2>1. \A f \in DOMAIN e : e[f].usn \in 1..server.last_usn
    BY ServerFields DEF TypeInv
  <2>2. QED
    BY <1>4, <2>1, SessionOf DEF Knows, KnowsAll
<1>6. Follows(e, rows, last_usn[c], odd, s)
  BY <1>1, <1>4, <1>5 DEF Follows
<1>7. db'[c] = rows /\ \A d \in Clients \ {c} : db'[d] = db[d]
  BY <1>2, <1>3, SetRows DEF rows
<1>8. sess'[c] = s /\ \A d \in Clients \ {c} : sess'[d] = sess[d]
  BY <1>1, SessionOf, SetSession
<1>9. \A d : Odd(d)' = Odd(d)
  BY <1>2 DEF Odd
<1>10. InStep(c)'
  BY <1>2, <1>6, <1>7, <1>8, <1>9 DEF InStep
<1>11. Sends(c)' => Alone(c)
  BY <1>1, <1>8 DEF Sends, Alone, MaySend, Undisturbed
<1>12. QED
  BY <1>2, <1>7, <1>8, <1>9, <1>10, <1>11, OneStep

\* The sync of a device moves on, and nothing else does.
LEMMA SessionStep ==
  ASSUME TypeInv, SyncInv, NEW c \in Clients, NEW s \in Sessions(server.last_usn), Goes(c, s),
         UNCHANGED <<db, last_usn, server, unlike>>,
         Follows(server.entries, db[c], last_usn[c], Odd(c), s),
         s.pc \in {"send", "upload"} => Alone(c)
  PROVE  SyncInv'
<1>1. sess'[c] = s /\ \A d \in Clients \ {c} : sess'[d] = sess[d]
  BY SessionOf, SetSession
<1>2. \A d : Odd(d)' = Odd(d)
  BY DEF Odd
<1>3. InStep(c)' /\ (Sends(c)' => Alone(c))
  BY <1>1, <1>2 DEF InStep, Sends
<1>4. QED
  BY <1>1, <1>2, <1>3, OneStep

\* Its sync ends.
LEMMA RestStep ==
  ASSUME TypeInv, SyncInv, NEW c \in Clients, Goes(c, NoSync) \/ Goes(c, [pc |-> "sanity"]),
         UNCHANGED <<db, last_usn, server, unlike>>
  PROVE  SyncInv'
<1>1. Knows(server.entries, db[c], last_usn[c], Odd(c))
  BY InStepOf DEF InStep, Follows
<1>2. PICK s \in Sessions(server.last_usn) : Goes(c, s) /\ s.pc \in {"idle", "sanity"}
  BY SessionOf, SessionKinds DEF NoSync
<1>3. Follows(server.entries, db[c], last_usn[c], Odd(c), s)
  BY <1>1, <1>2, FollowsAtRest
<1>4. QED
  BY <1>2, <1>3, SessionStep

\* A batch has been recorded.
LEMMA RecordedStep ==
  ASSUME TypeInv, SyncInv, NEW c \in Clients, ~Sends(c), NEW rows, IsTable(rows, Row), NEW s,
         s.usn \in 0..server.last_usn, NEW got, IsTable(got, Shas), Recorded(c, rows, s, got), UNCHANGED server,
         Follows(server.entries, RecordChanges(rows, s, got), s.usn, Odd(c) \ DOMAIN got,
                 [pc |-> "changes", usn |-> s.usn])
  PROVE  SyncInv'
<1> DEFINE new == RecordChanges(rows, s, got)
           next == [pc |-> "changes", usn |-> s.usn]
<1>1. IsTable(new, Row)
  BY RecordChangesIs DEF IsRecord
<1>2. db' = [db EXCEPT ![c] = new]
  BY DEF Recorded
<1> HIDE DEF new
<1>3. db'[c] = new /\ \A d \in Clients \ {c} : db'[d] = db[d]
  BY <1>1, <1>2, SetRows
<1>4. next \in Sessions(server.last_usn) /\ Goes(c, next) /\ next.pc = "changes"
  BY SessionOf, SessionKinds DEF Recorded
<1> HIDE DEF next
<1>5. sess'[c] = next /\ \A d \in Clients \ {c} : sess'[d] = sess[d]
  BY <1>4, SessionOf, SetSession
<1>6. last_usn'[c] = s.usn /\ \A d \in Clients \ {c} : last_usn'[d] = last_usn[d]
  BY DEF Recorded, TypeInv
<1>7. Odd(c)' = Odd(c) \ DOMAIN got
  <2>1. unlike' = unlike \ ({c} \X DOMAIN got)
    BY DEF Recorded
  <2>2. \A f : <<c, f>> \in unlike' <=> <<c, f>> \in unlike /\ f \notin DOMAIN got
    BY <2>1
  <2>3. QED
    BY <2>2 DEF Odd
<1>8. \A d \in Clients \ {c} : Odd(d)' = Odd(d)
  <2>1. unlike' = unlike \ ({c} \X DOMAIN got)
    BY DEF Recorded
  <2>2. \A d \in Clients \ {c} : \A f : <<d, f>> \in unlike' <=> <<d, f>> \in unlike
    BY <2>1
  <2>3. QED
    BY <2>2 DEF Odd
<1>9. Follows(server.entries, new, s.usn, Odd(c) \ DOMAIN got, next)
  BY DEF new, next
<1>10. InStep(c)'
  BY <1>3, <1>5, <1>6, <1>7, <1>9 DEF InStep
<1>11. ~Sends(c)'
  BY <1>4, <1>5 DEF Sends
<1>12. QED
  BY <1>3, <1>5, <1>6, <1>8, <1>10, <1>11, OneStep

LEMMA FetchChangesStep == ASSUME TypeInv, SyncInv, NEW c \in Clients, FetchChanges(c) PROVE SyncInv'
<1>1. PICK batch, removals, todo : Fetches(c, batch, removals, todo)
  BY FetchIs
<1>2. sess[c].pc = "changes" /\ UNCHANGED server
  BY FetchIs
<1> DEFINE e == server.entries
           rows == RowsWithout(db[c], removals)
           s == Fetching(c, batch, todo)
           odd == Odd(c)
<1>3. Knows(e, db[c], last_usn[c], odd) /\ sess[c].usn = last_usn[c]
  BY <1>2, InStepOf DEF InStep, Follows
<1>4. Downloading(e, rows, last_usn[c], odd, s)
  BY <1>1, <1>2, <1>3, FollowsFetch
<1>5. IsTable(rows, Row) /\ RowsKept(db[c], rows)
  BY RowsOf, RowsWithoutTable, KeptRows
<1>6. Knows(e, rows, last_usn[c], odd)
  <2> HIDE DEF rows
  <2>1. \A f : Held(e, db[c], odd, f) => Held(e, rows, odd, f)
    BY <1>5, HeldOn
  <2>2. QED
    BY <1>3, <2>1 DEF Knows
<1>7. ~Sends(c)
  BY <1>2 DEF Sends
<1>8. s.pc = "download" /\ s.usn = Usns[Last(batch)] /\ s.got = NoRows /\ s.todo = todo
  BY DEF Fetching
<1>9. CASE todo # <<>>
  <2>1. s \in Sessions(server.last_usn) /\ server.last_usn \in Nat
    BY <1>1, <1>2, <1>9, FetchingIs, SessionOf, SessionKinds
  <2>2. Goes(c, s) /\ db' = [db EXCEPT ![c] = rows] /\ UNCHANGED <<last_usn, checked, unlike>>
    BY <1>1, <1>9 DEF Fetches
  <2> HIDE DEF s, rows
  <2>3. db'[c] = rows /\ \A d \in Clients \ {c} : db'[d] = db[d]
    BY <1>5, <2>2, SetRows
  <2>4. sess'[c] = s /\ \A d \in Clients \ {c} : sess'[d] = sess[d]
    BY <2>1, <2>2, SetSession
  <2>5. \A d : Odd(d)' = Odd(d)
    BY <2>2 DEF Odd
  <2>6. Follows(e, rows, last_usn[c], odd, s)
    BY <1>4, <1>6, <1>8 DEF Follows
  <2>7. InStep(c)' /\ ~Sends(c)'
    BY <1>2, <1>8, <2>2, <2>3, <2>4, <2>5, <2>6 DEF InStep, Sends
  <2>8. QED
    BY <1>2, <2>2, <2>3, <2>4, <2>5, <2>7, OneStep
<1>10. CASE todo = <<>>
  <2>1. Recorded(c, rows, s, NoRows)
    BY <1>1, <1>10 DEF Fetches
  <2>2. s.usn \in 0..server.last_usn
    <3>1. Usns[Last(batch)] \in 1..server.last_usn /\ server.last_usn \in Nat
      BY <1>1, <1>2, BatchIs, SessionOf DEF Fetches
    <3> HIDE DEF s
    <3>2. QED
      BY <1>8, <3>1
  <2>3. IsTable(NoRows, Shas) /\ DOMAIN NoRows = {}
    BY NoRowsTable
  <2>4. ToSet(s.todo) = {}
    BY <1>8, <1>10 DEF ToSet
  <2> DEFINE got == NoRows
  <2>5. DOMAIN got = {} /\ IsTable(got, Shas) /\ s.got = got /\ Recorded(c, rows, s, got)
    BY <1>8, <2>1, <2>3
  <2> HIDE DEF s, rows, got
  <2>6. \A f \in DOMAIN e : e[f].usn <= s.usn =>
           \/ f \in DOMAIN got /\ got[f] = e[f].sha
           \/ f \in s.remove \ DOMAIN got /\ e[f].sha = Gone
           \/ f \in s.same \ (s.remove \cup DOMAIN got) /\ RowSha(rows, f) = e[f].sha
           \/ f \notin DOMAIN got \cup s.remove \cup s.same /\ Held(e, rows, odd, f)
    BY <1>4, <2>4, <2>5 DEF Downloading, Fetched, Touched
  <2>7. Follows(e, RecordChanges(rows, s, got), s.usn, odd \ DOMAIN got, [pc |-> "changes", usn |-> s.usn])
    BY <1>5, <2>5, <2>6, FollowsRecord
  <2>8. QED
    BY <1>2, <1>5, <1>7, <2>2, <2>5, <2>7, RecordedStep
<1>11. QED
  BY <1>9, <1>10

LEMMA NoMoreChangesStep ==
  ASSUME TypeInv, SyncInv, Undisturbed, NEW c \in Clients, NoMoreChanges(c) PROVE SyncInv'
<1> DEFINE e == server.entries
           S == {f \in DOMAIN e : Usns[f] > sess[c].usn}
           send == [pc |-> "send", acted |-> TRUE]
<1>1. sess[c].pc = "changes" /\ <<>> \in ChangesChunk(sess[c].usn) /\ UNCHANGED <<db, last_usn, server, unlike>>
  BY DEF NoMoreChanges
<1>2. S = {}
  <2> DEFINE none == <<>>
  <2>1. none \in FirstBy(S, Usns, CHANGES_LIMIT) /\ none = <<>>
    BY <1>1 DEF ChangesChunk
  <2>2. CHANGES_LIMIT \in Nat /\ CHANGES_LIMIT # 0
    BY LimitsAssumption
  <2> HIDE DEF S, none
  <2>3. QED
    BY <2>1, <2>2, FirstByIs
<1>3. Knows(e, db[c], last_usn[c], Odd(c)) /\ sess[c].usn = last_usn[c]
  BY <1>1, InStepOf DEF InStep, Follows
<1>4. KnowsAll(e, db[c], Odd(c))
  <2>1. \A f \in DOMAIN e : e[f].usn \in Nat /\ Usns[f] = e[f].usn
    BY ServerFields DEF TypeInv, Usns
  <2>2. sess[c].usn \in Nat
    BY <1>1, SessionOf
  <2>3. QED
    BY <1>2, <1>3, <2>1, <2>2 DEF Knows, KnowsAll
<1>5. CASE PendingFiles(c) # {}
  <2>1. MaySend(c) /\ Goes(c, send)
    BY <1>5 DEF NoMoreChanges
  <2>2. send \in Sessions(server.last_usn) /\ send.pc = "send"
    BY SessionOf, SessionKinds
  <2> HIDE DEF send
  <2>3. Follows(e, db[c], last_usn[c], Odd(c), send)
    BY <1>3, <1>4, <2>2 DEF Follows
  <2>4. Alone(c)
    BY <2>1 DEF MaySend, Alone, Sends, Undisturbed
  <2>5. QED
    BY <1>1, <2>1, <2>2, <2>3, <2>4, SessionStep
<1>6. CASE PendingFiles(c) = {}
  <2>1. Goes(c, [pc |-> "sanity"])
    BY <1>6 DEF NoMoreChanges
  <2>2. QED
    BY <1>1, <2>1, RestStep
<1>7. QED
  BY <1>5, <1>6

\* The server misses no file.
LEMMA DownloadConflictStep == ASSUME TypeInv, SyncInv, NEW c \in Clients, DownloadConflict(c) PROVE SyncInv'
<1>1. \A asked : Missing(asked) = {}
  <2>1. \A f \in ServerFiles : server.folder[f] # Gone
    BY InStepOf DEF Meets, ServerFiles
  <2>2. QED
    BY <2>1 DEF Missing
<1>2. UNCHANGED server
  <2>1. \/ UNCHANGED server
        \/ LET asked == SubSeq(sess[c].todo, 1, Min({MAX_MEDIA_FILES_IN_ZIP, Len(sess[c].todo)}))
           IN \E i \in DOMAIN asked : asked[i] \in Missing(asked)
    BY DEF DownloadConflict
  <2>2. QED
    BY <1>1, <2>1
<1>3. Goes(c, NoSync) /\ UNCHANGED <<db, last_usn, unlike>>
  BY DEF DownloadConflict
<1>4. QED
  BY <1>2, <1>3, RestStep

LEMMA DownloadFilesStep == ASSUME TypeInv, SyncInv, NEW c \in Clients, DownloadFiles(c) PROVE SyncInv'
<1> DEFINE e == server.entries
           s == sess[c]
           rows == db[c]
           odd == Odd(c)
<1>1. s \in Downloads(server.last_usn) /\ s.pc = "download" /\ UNCHANGED server
  BY ExtractIs
<1>2. PICK n : Extracts(c, s, n)
  BY ExtractIs
<1>3. IsServer(server) /\ server.last_usn \in Nat /\ n \in 1..Len(s.todo) /\ Meets(server)
  BY <1>2, SessionOf, InStepOf DEF TypeInv, Extracts
<1>4. Downloading(e, rows, last_usn[c], odd, s) /\ Knows(e, rows, last_usn[c], odd)
  BY <1>1, InStepOf DEF InStep, Follows
<1>5. ~Sends(c)
  BY <1>1 DEF Sends
<1>6. IsTable(rows, Row)
  BY RowsOf
<1> HIDE DEF s, rows, odd
<1> DEFINE new == Continued(s, n)
           got == Got(s, n)
<1>7. Downloading(e, rows, last_usn[c], odd, new)
  BY <1>1, <1>3, <1>4, FollowsExtract
<1>8. /\ new \in Downloads(server.last_usn) /\ new.pc = "download" /\ new.todo = Rest(s, n) /\ new.got = got
      /\ new.usn = s.usn /\ new.remove = s.remove /\ new.same = s.same
  BY <1>1, <1>3, DownloadsOn
<1>9. IsTable(got, Shas)
  BY <1>1, <1>3, GotIs
<1> HIDE DEF new, got
<1>10. CASE Rest(s, n) # <<>>
  <2>1. Goes(c, new) /\ UNCHANGED <<db, last_usn, unlike>>
    BY <1>2, <1>10 DEF Extracts, new
  <2>2. new \in Sessions(server.last_usn)
    BY <1>3, <1>8, SessionKinds
  <2>3. Follows(e, rows, last_usn[c], odd, new)
    BY <1>4, <1>7, <1>8 DEF Follows
  <2>4. QED
    BY <1>1, <1>8, <2>1, <2>2, <2>3, SessionStep DEF rows, odd
<1>11. CASE Rest(s, n) = <<>>
  <2>1. Recorded(c, rows, s, got)
    BY <1>2, <1>11 DEF Extracts, rows, got
  <2>2. ToSet(new.todo) = {}
    BY <1>8, <1>11 DEF ToSet
  <2>3. \A f \in DOMAIN e : e[f].usn <= s.usn =>
           \/ f \in DOMAIN got /\ got[f] = e[f].sha
           \/ f \in s.remove \ DOMAIN got /\ e[f].sha = Gone
           \/ f \in s.same \ (s.remove \cup DOMAIN got) /\ RowSha(rows, f) = e[f].sha
           \/ f \notin DOMAIN got \cup s.remove \cup s.same /\ Held(e, rows, odd, f)
    BY <1>7, <1>8, <2>2 DEF Downloading, Fetched, Touched
  <2>4. Follows(e, RecordChanges(rows, s, got), s.usn, odd \ DOMAIN got, [pc |-> "changes", usn |-> s.usn])
    BY <1>6, <1>9, <2>3, FollowsRecord
  <2>5. s.usn \in 0..server.last_usn
    BY <1>1 DEF Downloads
  <2>6. QED
    BY <1>1, <1>5, <1>6, <1>9, <2>1, <2>4, <2>5, RecordedStep DEF odd
<1>12. QED
  BY <1>10, <1>11

LEMMA SendChangesStep == ASSUME TypeInv, SyncInv, NEW c \in Clients, SendChanges(c) PROVE SyncInv'
<1>1. sess[c].pc = "send" /\ UNCHANGED <<db, last_usn, server, unlike>>
  BY SendIs
<1>2. CASE Goes(c, [pc |-> "sanity"]) \/ Goes(c, NoSync)
  BY <1>1, <1>2, RestStep
<1>3. ASSUME NEW names, Goes(c, Upload(c, names)), Upload(c, names) \in Uploads, ToSet(names) \subseteq PendingFiles(c)
      PROVE  SyncInv'
  <2> DEFINE s == Upload(c, names)
  <2>1. s.pc = "upload" /\ s.names = names /\ (\A f \in ToSet(names) : s.data[f] = Content(c, f))
        /\ s.unlike = {f \in ToSet(names) : Content(c, f) # db[c][f].sha}
    BY DEF Upload
  <2>2. Knows(server.entries, db[c], last_usn[c], Odd(c)) /\ KnowsAll(server.entries, db[c], Odd(c))
    BY <1>1, InStepOf DEF InStep, Follows
  <2>3. s \in Sessions(server.last_usn) /\ Goes(c, s)
    BY <1>3, SessionOf, SessionKinds
  <2> HIDE DEF s
  <2>4. Sending(db[c], s)
    BY <1>3, <2>1 DEF Sending, PendingFiles, IsPending
  <2>5. Follows(server.entries, db[c], last_usn[c], Odd(c), s)
    BY <2>1, <2>2, <2>4 DEF Follows
  <2>6. Alone(c)
    BY <1>1, InStepOf DEF Sends
  <2>7. QED
    BY <1>1, <2>3, <2>5, <2>6, SessionStep
<1>4. QED
  BY <1>2, <1>3, SendIs

\* A device's upload has been processed.
LEMMA ServerStep ==
  ASSUME TypeInv, SyncInv, NEW c \in Clients, Sends(c), NEW S, After(server, S, server'), InStep(c)',
         \A d \in Clients \ {c} : db'[d] = db[d] /\ last_usn'[d] = last_usn[d] /\ sess'[d] = sess[d] /\ Odd(d)' = Odd(d)
  PROVE  SyncInv'
<1>1. Alone(c) /\ Meets(server)
  BY InStepOf
<1>2. Meets(server') /\ IsServer(server') /\ Later(server.entries, server.last_usn, server'.entries)
  BY <1>1 DEF After
<1>3. \A a, b \in Clients : Sends(a)' /\ Sends(b)' => a = b
  BY <1>1 DEF Alone, Sends
<1>4. ASSUME NEW d \in Clients \ {c}
      PROVE  Follows(server'.entries, db'[d], last_usn'[d], Odd(d)', sess'[d])
  <2> DEFINE e == server.entries
             new == server'.entries
             top == server.last_usn
             rows == db[d]
             usn == last_usn[d]
             odd == Odd(d)
             s == sess[d]
  <2>1. Follows(e, rows, usn, odd, s)
    BY InStepOf DEF InStep
  <2>2. top \in Nat /\ usn \in 0..top /\ (s.pc = "download" => s.usn \in 0..top)
    <3>1. s.pc = "download" => s \in Downloads(top)
      BY SessionOf
    <3>2. QED
      BY <3>1, SessionOf DEF Downloads
  <2>3. s.pc \notin {"send", "upload"}
    BY <1>1 DEF Alone, Sends
  <2>4. \A f \in DOMAIN new : new[f].usn \in Nat
    BY <1>2, ServerFields
  <2>5. Later(e, top, new)
    BY <1>2
  <2> HIDE DEF e, new, top, rows, usn, odd, s
  <2>6. Follows(new, rows, usn, odd, s)
    BY <2>1, <2>2, <2>3, <2>4, <2>5, FollowsLater
  <2>7. QED
    BY <2>6 DEF new, rows, usn, odd, s
<1>5. \A d \in Clients : Follows(server'.entries, db'[d], last_usn'[d], Odd(d)', sess'[d])
  BY <1>4 DEF InStep
<1>6. QED
  BY <1>2, <1>3, <1>5 DEF SyncInv, Meets

LEMMA OddUploaded ==
  ASSUME NEW c \in Clients, NEW S, NEW T, T \subseteq Files, unlike' = (unlike \ ({c} \X S)) \cup ({c} \X T)
  PROVE  Odd(c)' = (Odd(c) \ S) \cup T /\ \A d \in Clients \ {c} : Odd(d)' = Odd(d)
<1>1. \A f : <<c, f>> \in unlike' <=> (<<c, f>> \in unlike /\ f \notin S) \/ f \in T
  OBVIOUS
<1>2. \A d \in Clients \ {c} : \A f : <<d, f>> \in unlike' <=> <<d, f>> \in unlike
  OBVIOUS
<1>3. QED
  BY <1>1, <1>2 DEF Odd

LEMMA UploadChangesStep == ASSUME TypeInv, SyncInv, NEW c \in Clients, UploadChanges(c) PROVE SyncInv'
<1> DEFINE s == sess[c]
           rows == db[c]
           names == ToSet(s.names)
           clean == RecordClean(rows, names)
           next == [pc |-> "send", acted |-> TRUE]
           left == (Odd(c) \ names) \cup s.unlike
<1>1. sess[c].pc = "upload" /\ server' = Processed(sess[c])
  BY DEF UploadChanges
<1>2. /\ s \in Uploads /\ IsServer(server') /\ After(server, names, server')
      /\ \A f \in names : Stored(server', f) = s.data[f]
      /\ server.last_usn \in Nat /\ server'.last_usn \in Nat /\ server.last_usn <= server'.last_usn
  BY <1>1, UploadedTypes
<1>3. KnowsAll(server.entries, rows, Odd(c)) /\ Sending(rows, s)
  BY <1>1, InStepOf DEF InStep, Follows
<1>4. IsTable(rows, Row) /\ IsServer(server)
  BY RowsOf DEF TypeInv
<1>5. /\ db' = [db EXCEPT ![c] = clean] /\ Goes(c, next)
      /\ last_usn' = [last_usn EXCEPT ![c] = NextUsn(c, Len(s.names), server'.last_usn)]
      /\ unlike' = (unlike \ ({c} \X names)) \cup ({c} \X s.unlike)
  BY DEF UploadChanges
<1>6. s.unlike \subseteq Files
  BY <1>2 DEF Uploads
<1>7. Odd(c)' = left /\ \A d \in Clients \ {c} : Odd(d)' = Odd(d)
  BY <1>5, <1>6, OddUploaded
<1>8. KnowsAll(server'.entries, clean, left)
  <2> DEFINE odd == Odd(c)
             new == server'
  <2>1. After(server, ToSet(s.names), new) /\ (\A f \in ToSet(s.names) : Stored(new, f) = s.data[f])
        /\ KnowsAll(server.entries, rows, odd) /\ Sending(rows, s) /\ IsTable(rows, Row) /\ s \in Uploads
        /\ IsServer(server)
    BY <1>2, <1>3, <1>4
  <2> HIDE DEF odd, new, s, rows
  <2>2. KnowsAll(new.entries, RecordClean(rows, ToSet(s.names)), (odd \ ToSet(s.names)) \cup s.unlike)
    BY <2>1, FollowsUpload
  <2>3. QED
    BY <2>2 DEF odd, new
<1>9. IsTable(clean, Row)
  BY <1>4, RecordCleanTable
<1>10. next \in Sessions(server'.last_usn) /\ next.pc = "send"
  BY <1>2, SessionKinds
<1> HIDE DEF clean, next
<1>11. db'[c] = clean /\ \A d \in Clients \ {c} : db'[d] = db[d]
  BY <1>5, <1>9, SetRows
<1>12. sess'[c] = next /\ \A d \in Clients \ {c} : sess'[d] = sess[d]
  BY <1>2, <1>5, <1>10, SetSession
<1>13. \A d \in Clients \ {c} : last_usn'[d] = last_usn[d]
  BY <1>5 DEF TypeInv
<1> HIDE DEF left
<1>14. Follows(server'.entries, clean, last_usn'[c], left, next)
  BY <1>8, <1>10 DEF Follows, Knows, KnowsAll
<1>15. InStep(c)'
  BY <1>7, <1>11, <1>12, <1>14 DEF InStep
<1>16. Sends(c)
  BY <1>1 DEF Sends
<1>17. QED
  BY <1>2, <1>7, <1>11, <1>12, <1>13, <1>15, <1>16, ServerStep

LEMMA SanityCheckStep == ASSUME TypeInv, SyncInv, NEW c \in Clients, SanityCheck(c) PROVE SyncInv'
<1>1. Goes(c, NoSync) /\ UNCHANGED <<server, unlike>>
  BY DEF SanityCheck
<1>2. CASE UNCHANGED <<db, last_usn>>
  BY <1>1, <1>2, RestStep
<1>3. CASE db' = [db EXCEPT ![c] = NoRows] /\ last_usn' = [last_usn EXCEPT ![c] = 0]
  <2>1. db'[c] = NoRows /\ \A d \in Clients \ {c} : db'[d] = db[d]
    BY <1>3, NoRowsTable, SetRows
  <2>2. last_usn'[c] = 0 /\ \A d \in Clients \ {c} : last_usn'[d] = last_usn[d]
    BY <1>3 DEF TypeInv
  <2>3. sess'[c] = NoSync /\ \A d \in Clients \ {c} : sess'[d] = sess[d]
    BY <1>1, SessionOf, SessionKinds, SetSession
  <2>4. \A d : Odd(d)' = Odd(d)
    BY <1>1 DEF Odd
  <2>5. \A f \in DOMAIN server.entries : server.entries[f].usn \in Nat /\ server.entries[f].usn > 0
    BY ServerFields DEF TypeInv
  <2>6. Knows(server.entries, NoRows, 0, Odd(c))
    BY <2>5 DEF Knows
  <2>7. InStep(c)' /\ ~Sends(c)'
    <3>1. NoSync.pc = "idle"
      BY DEF NoSync
    <3>2. Follows(server.entries, NoRows, 0, Odd(c), NoSync)
      BY <2>6, <3>1, FollowsAtRest
    <3>3. QED
      BY <1>1, <2>1, <2>2, <2>3, <2>4, <3>1, <3>2 DEF InStep, Sends
  <2>8. QED
    BY <1>1, <2>1, <2>2, <2>3, <2>4, <2>7, OneStep
<1>4. QED
  BY <1>2, <1>3 DEF SanityCheck

LEMMA GiveUpStep == ASSUME TypeInv, SyncInv, NEW c \in Clients, GiveUp(c) PROVE SyncInv'
BY RestStep DEF GiveUp

LEMMA AnswerLostStep == ASSUME TypeInv, SyncInv, NEW c \in Clients, AnswerLost(c) PROVE SyncInv'
<1>1. sess[c].pc = "upload" /\ server' = Processed(sess[c]) /\ Goes(c, NoSync) /\ UNCHANGED <<db, last_usn, unlike>>
  BY DEF AnswerLost
<1> DEFINE S == ToSet(sess[c].names)
<1>2. IsServer(server') /\ After(server, S, server') /\ server.last_usn \in Nat /\ server'.last_usn \in Nat
      /\ server.last_usn <= server'.last_usn
  BY <1>1, UploadedTypes
<1> HIDE DEF S
<1>3. sess'[c] = NoSync /\ \A d \in Clients \ {c} : sess'[d] = sess[d]
  BY <1>1, <1>2, SessionKinds, SetSession
<1>4. \A d : Odd(d)' = Odd(d)
  BY <1>1 DEF Odd
<1>5. Knows(server'.entries, db[c], last_usn[c], Odd(c))
  <2>1. Knows(server.entries, db[c], last_usn[c], Odd(c))
    BY InStepOf DEF InStep, Follows
  <2>2. Follows(server.entries, db[c], last_usn[c], Odd(c), NoSync)
    BY <2>1, FollowsAtRest DEF NoSync
  <2> DEFINE e == server.entries
             new == server'.entries
             top == server.last_usn
             rows == db[c]
             usn == last_usn[c]
             odd == Odd(c)
             s == NoSync
  <2>3. Follows(e, rows, usn, odd, s) /\ s.pc = "idle"
    BY <2>2 DEF NoSync
  <2>4. top \in Nat /\ usn \in 0..top
    BY SessionOf
  <2>5. Later(e, top, new) /\ \A f \in DOMAIN new : new[f].usn \in Nat
    BY <1>2, ServerFields DEF After
  <2> HIDE DEF e, new, top, rows, usn, odd, s
  <2>6. Follows(new, rows, usn, odd, s)
    BY <2>3, <2>4, <2>5, FollowsLater
  <2>7. QED
    BY <2>6 DEF Follows, new, rows, usn, odd
<1>6. InStep(c)'
  <2>1. NoSync.pc = "idle"
    BY DEF NoSync
  <2>2. Follows(server'.entries, db[c], last_usn[c], Odd(c), NoSync)
    BY <1>5, <2>1, FollowsAtRest
  <2>3. QED
    BY <1>1, <1>3, <1>4, <2>2 DEF InStep
<1>7. Sends(c)
  BY <1>1 DEF Sends
<1>8. QED
  BY <1>1, <1>2, <1>3, <1>4, <1>6, <1>7, ServerStep

LEMMA SyncStepKept == ASSUME TypeInv, SyncInv, Undisturbed, [Next]_vars PROVE SyncInv'
<1>1. CASE UNCHANGED vars
  BY <1>1, NothingStep DEF vars
<1>2. ASSUME NEW c \in Clients, SyncStep(c) PROVE SyncInv'
  BY <1>2, StartSyncStep, FetchChangesStep, NoMoreChangesStep, DownloadConflictStep, DownloadFilesStep,
     SendChangesStep, UploadChangesStep, SanityCheckStep DEF SyncStep
<1>3. ASSUME NEW c \in Clients, UserStep(c) PROVE SyncInv'
  <2>1. CASE CopyIn(c) \/ TakeOut(c) \/ WriteOver(c)
    BY <2>1, NothingStep DEF CopyIn, TakeOut, WriteOver, Edited
  <2>2. QED
    BY <1>3, <2>1, AddFileStep, TrashFilesStep, RegisterChangesStep DEF UserStep
<1>4. ASSUME NEW c \in Clients, FaultStep(c) PROVE SyncInv'
  <2>1. ~ServerCrash(c)
    BY DEF ServerCrash, MayFail, Undisturbed
  <2>2. QED
    BY <1>4, <2>1, GiveUpStep, AnswerLostStep DEF FaultStep
<1>5. QED
  BY <1>1, <1>2, <1>3, <1>4 DEF Next

LEMMA SyncInit == Init => SyncInv
<1> SUFFICES ASSUME Init PROVE SyncInv
  OBVIOUS
<1> DEFINE none == NoRows
<1>1. DOMAIN none = {} /\ server.entries = none
  BY NoRowsTable DEF Init
<1> HIDE DEF none
<1>2. \A c \in Clients : sess[c].pc = "idle"
  BY DEF Init, NoSync
<1>3. \A c \in Clients : Follows(server.entries, db[c], last_usn[c], Odd(c), sess[c])
  BY <1>1, <1>2 DEF Follows, Knows
<1>4. QED
  BY <1>1, <1>2, <1>3 DEF SyncInv, Sends

\* The types and SyncInv together are inductive, undisturbed: every device knows what
\* the USN it has noted stands for, at every point of its sync (sync_inner()).
THEOREM SyncKept == ASSUME Undisturbed PROVE Spec => [](TypeInv /\ SyncInv)
<1>1. Init => TypeInv /\ SyncInv
  BY TypesInit, SyncInit
<1>2. TypeInv /\ SyncInv /\ [Next]_vars => (TypeInv /\ SyncInv)'
  BY TypesStep, SyncStepKept
<1>3. QED
  BY <1>1, <1>2, PTL DEF Spec

LEMMA SeenOfInv == ASSUME TypeInv, SyncInv PROVE SeenIsKept
<1> SUFFICES ASSUME NEW c \in Clients, NEW f \in DOMAIN server.entries, server.entries[f].usn <= last_usn[c],
                    <<c, f>> \notin unlike
             PROVE  f \in PendingFiles(c) \/ Agrees(c, f)
  BY DEF SeenIsKept
<1>1. Held(server.entries, db[c], Odd(c), f)
  BY InStepOf DEF InStep, Follows, Knows
<1>2. f \notin Odd(c)
  BY DEF Odd
<1>3. QED
  BY <1>1, <1>2 DEF Held, IsPending, RowSha, PendingFiles, Agrees, RecordedSha

\* The USN a device notes skips no change of the server's (last_sync_usn in
\* fetch_changes() and send_changes()), for any number of devices, files, faults
\* and edits.
THEOREM NothingSkipped == ASSUME Undisturbed PROVE Spec => []SeenIsKept
<1>1. TypeInv /\ SyncInv => SeenIsKept
  BY SeenOfInv
<1>2. QED
  BY <1>1, SyncKept, PTL

-----------------------------------------------------------------------------
(* A registered change stays marked until the server has it.                *)

\* A change of device c to file f that is no longer marked.
Cleared(c, f) == f \in DOMAIN db[c] /\ db[c][f].dirty /\ ~(f \in DOMAIN db'[c] /\ db'[c][f].dirty)
Accounted(c, f) ==
  \/ db[c][f].sha = StoredSha(f)'
  \/ <<c, f>> \in unlike'
  \/ /\ f \in DOMAIN server'.entries /\ server'.entries[f].usn > last_usn[c]
     /\ Agrees(c, f)' \/ server'.entries[f].usn > last_usn'[c]
NoneLost(c) == \A f : Cleared(c, f) => Accounted(c, f)

LEMMA KeptIsNotLost == ASSUME NEW c, RowsKept(db[c], db'[c]) PROVE NoneLost(c)
BY DEF NoneLost, Cleared, RowsKept

LEMMA OthersLoseNone ==
  ASSUME TypeInv, NEW c \in Clients, NEW rows, IsTable(rows, Row), db' = [db EXCEPT ![c] = rows], NEW d \in Clients \ {c}
  PROVE  NoneLost(d)
<1>1. db'[d] = db[d]
  BY SetRows
<1>2. QED
  BY <1>1, KeptRows, KeptIsNotLost

LEMMA RecordedLosesNone ==
  ASSUME TypeInv, SyncInv', NEW c \in Clients, NEW rows, IsTable(rows, Row), RowsKept(db[c], rows),
         NEW s, s.usn \in 0..server.last_usn, NEW got, IsTable(got, Shas), Recorded(c, rows, s, got), UNCHANGED server,
         \A f \in s.remove \cup s.same \cup DOMAIN got :
           f \in DOMAIN server.entries /\ server.entries[f].usn > last_usn[c]
  PROVE  \A d \in Clients : NoneLost(d)
<1> DEFINE new == RecordChanges(rows, s, got)
<1>1. IsRecord(rows, s, got, new) /\ db' = [db EXCEPT ![c] = new]
  BY RecordChangesIs DEF Recorded
<1> HIDE DEF new
<1>2. db'[c] = new
  BY <1>1, SetRows DEF IsRecord
<1>3. last_usn'[c] = s.usn
  BY DEF Recorded, TypeInv
<1>4. ASSUME NEW f, Cleared(c, f) PROVE Accounted(c, f)
  <2>1. f \in DOMAIN rows /\ rows[f].dirty
    BY <1>4 DEF Cleared, RowsKept
  <2>2. f \in s.remove \cup s.same \cup DOMAIN got
    <3> SUFFICES ASSUME f \notin s.remove \cup s.same \cup DOMAIN got PROVE FALSE
      OBVIOUS
    <3>1. f \in DOMAIN new /\ new[f] = rows[f]
      BY <1>1, <2>1 DEF IsRecord
    <3>2. QED
      BY <1>2, <1>4, <2>1, <3>1 DEF Cleared
  <2>3. f \in DOMAIN server'.entries /\ server'.entries[f].usn > last_usn[c]
    BY <2>2
  <2>4. CASE server'.entries[f].usn > last_usn'[c]
    BY <2>3, <2>4 DEF Accounted
  <2>5. CASE server'.entries[f].usn <= last_usn'[c]
    <3>1. Knows(server'.entries, db'[c], last_usn'[c], Odd(c)')
      BY DEF SyncInv, Follows
    <3>2. Held(server'.entries, db'[c], Odd(c)', f)
      BY <2>3, <2>5, <3>1 DEF Knows
    <3>3. ~IsPending(db'[c], f)
      BY <1>4 DEF Cleared, IsPending
    <3>4. f \in Odd(c)' => <<c, f>> \in unlike'
      BY DEF Odd
    <3>5. RowSha(db'[c], f) = server'.entries[f].sha => Agrees(c, f)'
      BY DEF RowSha, Agrees, RecordedSha
    <3>6. QED
      BY <2>3, <3>2, <3>3, <3>4, <3>5 DEF Held, Accounted
  <2>6. server'.entries[f].usn \in Nat /\ last_usn'[c] \in Int
    <3>1. server.entries[f].usn \in Nat
      BY <2>3, ServerFields DEF TypeInv
    <3>2. QED
      BY <1>3, <3>1, SessionOf
  <2>7. QED
    BY <2>4, <2>5, <2>6
<1>5. NoneLost(c)
  BY <1>4 DEF NoneLost
<1>6. \A d \in Clients \ {c} : NoneLost(d)
  BY <1>1, OthersLoseNone DEF IsRecord
<1>7. QED
  BY <1>5, <1>6

LEMMA FetchLosesNone ==
  ASSUME TypeInv, SyncInv, SyncInv', NEW c \in Clients, FetchChanges(c)
  PROVE  \A d \in Clients : NoneLost(d)
<1>1. PICK batch, removals, todo : Fetches(c, batch, removals, todo)
  BY FetchIs
<1>2. sess[c].pc = "changes" /\ UNCHANGED server
  BY FetchIs
<1> DEFINE rows == RowsWithout(db[c], removals)
           s == Fetching(c, batch, todo)
<1>3. IsTable(rows, Row) /\ RowsKept(db[c], rows)
  BY RowsOf, RowsWithoutTable, KeptRows
<1>4. /\ s.usn = Usns[Last(batch)] /\ s.remove = OfKind(c, batch, "Delete") /\ s.same = OfKind(c, batch, "RemovePending")
      /\ s.got = NoRows
  BY DEF Fetching
<1>5. CASE todo # <<>>
  <2>1. db' = [db EXCEPT ![c] = rows]
    BY <1>1, <1>5 DEF Fetches
  <2> HIDE DEF rows
  <2>2. db'[c] = rows
    BY <1>3, <2>1, SetRows
  <2>3. NoneLost(c)
    BY <1>3, <2>2, KeptIsNotLost
  <2>4. \A d \in Clients \ {c} : NoneLost(d)
    BY <1>3, <2>1, OthersLoseNone
  <2>5. QED
    BY <2>3, <2>4
<1>6. CASE todo = <<>>
  <2>1. Recorded(c, rows, s, NoRows)
    BY <1>1, <1>6 DEF Fetches
  <2>2. /\ ToSet(batch) \subseteq DOMAIN server.entries /\ Usns[Last(batch)] \in 1..server.last_usn
        /\ \A f \in ToSet(batch) : server.entries[f].usn > sess[c].usn
    BY <1>1, <1>2, BatchIs DEF Fetches
  <2>3. sess[c].usn = last_usn[c]
    BY <1>2, InStepOf DEF InStep, Follows
  <2> DEFINE got == NoRows
  <2>4. DOMAIN got = {} /\ IsTable(got, Shas) /\ Recorded(c, rows, s, got)
    BY <2>1, NoRowsTable
  <2> HIDE DEF s, rows, got
  <2>5. \A f \in s.remove \cup s.same \cup DOMAIN got :
           f \in DOMAIN server.entries /\ server.entries[f].usn > last_usn[c]
    BY <1>4, <2>2, <2>3, <2>4 DEF OfKind
  <2>6. s.usn \in 0..server.last_usn
    BY <1>4, <2>2, SessionOf
  <2>7. QED
    BY <1>2, <1>3, <2>4, <2>5, <2>6, RecordedLosesNone
<1>7. QED
  BY <1>5, <1>6

LEMMA DownloadLosesNone ==
  ASSUME TypeInv, SyncInv, SyncInv', NEW c \in Clients, DownloadFiles(c)
  PROVE  \A d \in Clients : NoneLost(d)
<1> DEFINE s == sess[c]
           rows == db[c]
<1>1. s \in Downloads(server.last_usn) /\ s.pc = "download" /\ UNCHANGED server
  BY ExtractIs
<1>2. PICK n : Extracts(c, s, n)
  BY ExtractIs
<1>3. IsServer(server) /\ server.last_usn \in Nat /\ n \in 1..Len(s.todo) /\ Meets(server)
  BY <1>2, SessionOf, InStepOf DEF TypeInv, Extracts
<1>4. Downloading(server.entries, rows, last_usn[c], Odd(c), s)
  BY <1>1, InStepOf DEF InStep, Follows
<1>5. IsTable(rows, Row) /\ RowsKept(rows, rows)
  BY RowsOf, KeptRows
<1>6. CASE Rest(s, n) # <<>>
  <2>1. db' = db
    BY <1>2, <1>6 DEF Extracts
  <2>2. QED
    BY <2>1, KeptRows, KeptIsNotLost
<1>7. CASE Rest(s, n) = <<>>
  <2> DEFINE got == Got(s, n)
             odd == Odd(c)
             usn == last_usn[c]
  <2>1. Recorded(c, rows, s, got)
    BY <1>2, <1>7 DEF Extracts
  <2>2. Downloading(server.entries, rows, usn, odd, s)
    BY <1>4
  <2>3. s.usn \in 0..server.last_usn
    BY <1>1 DEF Downloads
  <2> HIDE DEF s, odd, usn
  <2>4. IsTable(got, Shas)
    BY <1>1, <1>3, GotIs
  <2>5. DOMAIN got \subseteq Touched(s)
    BY <1>1, <1>3, <2>2, FollowsExtract
  <2> HIDE DEF got
  <2>6. \A f \in s.remove \cup s.same \cup DOMAIN got :
           f \in DOMAIN server.entries /\ server.entries[f].usn > last_usn[c]
    BY <2>2, <2>5 DEF Downloading, Touched, usn
  <2> HIDE DEF rows
  <2>7. RowsKept(db[c], rows)
    BY <1>5 DEF rows
  <2>8. QED
    BY <1>1, <1>5, <2>1, <2>3, <2>4, <2>6, <2>7, RecordedLosesNone
<1>8. QED
  BY <1>6, <1>7

LEMMA UploadLosesNone ==
  ASSUME TypeInv, SyncInv, NEW c \in Clients, UploadChanges(c)
  PROVE  \A d \in Clients : NoneLost(d)
<1> DEFINE s == sess[c]
           rows == db[c]
           names == ToSet(s.names)
           clean == RecordClean(rows, names)
<1>1. sess[c].pc = "upload" /\ server' = Processed(sess[c])
  BY DEF UploadChanges
<1>2. \A f \in names : Stored(server', f) = s.data[f]
  BY <1>1, UploadedTypes
<1>3. Sending(rows, s)
  BY <1>1, InStepOf DEF InStep, Follows
<1>4. /\ IsTable(clean, Row) /\ DOMAIN clean = DOMAIN rows
      /\ \A f \in DOMAIN rows \ names : clean[f] = rows[f]
  BY RowsOf, RecordCleanTable
<1>5. db' = [db EXCEPT ![c] = clean] /\ unlike' = (unlike \ ({c} \X names)) \cup ({c} \X s.unlike)
  BY DEF UploadChanges
<1> HIDE DEF clean
<1>6. db'[c] = clean
  BY <1>4, <1>5, SetRows
<1>7. ASSUME NEW f, Cleared(c, f) PROVE Accounted(c, f)
  <2>1. f \in names
    BY <1>4, <1>6, <1>7 DEF Cleared
  <2>2. s.data[f] = db[c][f].sha \/ f \in s.unlike
    BY <1>3, <2>1 DEF Sending
  <2>3. StoredSha(f)' = Stored(server', f)
    BY DEF StoredSha, Stored
  <2>4. QED
    BY <1>2, <1>5, <2>1, <2>2, <2>3 DEF Accounted
<1>8. NoneLost(c)
  BY <1>7 DEF NoneLost
<1>9. \A d \in Clients \ {c} : NoneLost(d)
  BY <1>4, <1>5, OthersLoseNone
<1>10. QED
  BY <1>8, <1>9

LEMMA SanityLosesNone ==
  ASSUME TypeInv, NEW c \in Clients, SanityCheck(c), NEW d \in Clients, ~SanityCheck(d)
  PROVE  NoneLost(d)
<1>1. d # c
  OBVIOUS
<1>2. CASE db' = db
  BY <1>2, KeptRows, KeptIsNotLost
<1>3. CASE db' = [db EXCEPT ![c] = NoRows]
  BY <1>1, <1>3, NoRowsTable, OthersLoseNone
<1>4. QED
  BY <1>2, <1>3 DEF SanityCheck

\* A change of a device's rows that adds or marks some.
LEMMA RowsLoseNone ==
  ASSUME TypeInv, NEW c \in Clients, NEW rows, IsTable(rows, Row), RowsKept(db[c], rows), db' = [db EXCEPT ![c] = rows]
  PROVE  \A d \in Clients : NoneLost(d)
<1>1. db'[c] = rows
  BY SetRows
<1>2. NoneLost(c)
  BY <1>1, KeptIsNotLost
<1>3. QED
  BY <1>2, OthersLoseNone

LEMMA SameLosesNone == ASSUME UNCHANGED db PROVE \A d \in Clients : NoneLost(d)
BY KeptRows, KeptIsNotLost

LEMMA UsersLoseNone == ASSUME TypeInv, NEW c \in Clients, UserStep(c) PROVE \A d \in Clients : NoneLost(d)
<1>1. CASE CopyIn(c) \/ TakeOut(c) \/ WriteOver(c)
  BY <1>1, SameLosesNone DEF CopyIn, TakeOut, WriteOver
<1>2. CASE AddFile(c)
  <2>1. PICK f \in Files \ OnDisk(c), content \in Contents :
          db' = IF f \in Known(c) /\ db[c][f].sha = content THEN db
                ELSE [db EXCEPT ![c] = Marked(db[c], f, content)]
    BY <1>2 DEF AddFile, Marked
  <2>2. IsTable(Marked(db[c], f, content), Row) /\ RowsKept(db[c], Marked(db[c], f, content))
    BY RowsOf, MarkedIs, RowsAreShas DEF RowsKept
  <2>3. CASE db' = db
    BY <2>3, SameLosesNone
  <2>4. CASE db' = [db EXCEPT ![c] = Marked(db[c], f, content)]
    BY <2>2, <2>4, RowsLoseNone
  <2>5. QED
    BY <2>1, <2>3, <2>4
<1>3. CASE TrashFiles(c)
  <2>1. PICK f \in OnDisk(c) : db' = [db EXCEPT ![c] = RowsWithout(@, <<f>>)]
    BY <1>3 DEF TrashFiles
  <2> DEFINE rows == RowsWithout(db[c], <<f>>)
  <2>2. IsTable(rows, Row) /\ RowsKept(db[c], rows) /\ db' = [db EXCEPT ![c] = rows]
    BY <2>1, RowsOf, RowsWithoutTable, KeptRows
  <2> HIDE DEF rows
  <2>3. QED
    BY <2>2, RowsLoseNone
<1>4. CASE RegisterChanges(c)
  BY <1>4, RegisteredKept, RowsLoseNone DEF RegisterChanges
<1>5. QED
  BY <1>1, <1>2, <1>3, <1>4 DEF UserStep

LEMMA StepsLoseNone ==
  ASSUME TypeInv, SyncInv, SyncInv', [Next]_vars, NEW d \in Clients, ~SanityCheck(d)
  PROVE  NoneLost(d)
<1>1. CASE UNCHANGED vars
  BY <1>1, SameLosesNone DEF vars
<1>2. ASSUME NEW c \in Clients, SyncStep(c) PROVE NoneLost(d)
  <2>1. CASE StartSync(c)
    BY <2>1, RegisteredKept, RowsLoseNone DEF StartSync
  <2>2. CASE NoMoreChanges(c) \/ DownloadConflict(c) \/ SendChanges(c)
    BY <2>2, SameLosesNone DEF NoMoreChanges, DownloadConflict, SendChanges
  <2>3. CASE SanityCheck(c)
    BY <2>3, SanityLosesNone
  <2>4. QED
    BY <1>2, <2>1, <2>2, <2>3, FetchLosesNone, DownloadLosesNone, UploadLosesNone DEF SyncStep
<1>3. ASSUME NEW c \in Clients, UserStep(c) PROVE NoneLost(d)
  BY <1>3, UsersLoseNone
<1>4. ASSUME NEW c \in Clients, FaultStep(c) PROVE NoneLost(d)
  BY <1>4, SameLosesNone DEF FaultStep, GiveUp, AnswerLost, ServerCrash
<1>5. QED
  BY <1>1, <1>2, <1>3, <1>4 DEF Next

\* A change registered on a device stays marked (sync_required) until the server has
\* it, or has something newer, for any number of devices, files, faults and edits.
THEOREM NoneForgotten == ASSUME Undisturbed PROVE Spec => PendingUntilStored
<1>1. ASSUME TypeInv, SyncInv, SyncInv', [Next]_vars
      PROVE  \A c \in Clients : \A f \in DOMAIN db[c] :
               (db[c][f].dirty /\ ~SanityCheck(c) /\ ~(f \in DOMAIN db'[c] /\ db'[c][f].dirty))
                 => \/ db[c][f].sha = StoredSha(f)'
                    \/ <<c, f>> \in unlike'
                    \/ /\ f \in DOMAIN server'.entries /\ server'.entries[f].usn > last_usn[c]
                       /\ Agrees(c, f)' \/ server'.entries[f].usn > last_usn'[c]
  BY <1>1, StepsLoseNone DEF NoneLost, Cleared, Accounted
<1>2. Init => TypeInv /\ SyncInv
  BY TypesInit, SyncInit
<1>3. TypeInv /\ SyncInv /\ [Next]_vars => (TypeInv /\ SyncInv)'
  BY TypesStep, SyncStepKept
<1>4. TypeInv /\ SyncInv /\ [Next]_vars =>
        [\A c \in Clients : \A f \in DOMAIN db[c] :
           (db[c][f].dirty /\ ~SanityCheck(c) /\ ~(f \in DOMAIN db'[c] /\ db'[c][f].dirty))
             => \/ db[c][f].sha = StoredSha(f)'
                \/ <<c, f>> \in unlike'
                \/ /\ f \in DOMAIN server'.entries /\ server'.entries[f].usn > last_usn[c]
                   /\ Agrees(c, f)' \/ server'.entries[f].usn > last_usn'[c]]_vars
  BY <1>1, SyncStepKept
<1>5. QED
  BY <1>2, <1>3, <1>4, PTL DEF Spec, PendingUntilStored
=============================================================================
