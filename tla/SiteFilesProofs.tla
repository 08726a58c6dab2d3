-------------------------- MODULE SiteFilesProofs --------------------------
(***************************************************************************)
(* Proofs about the row of a site, for any domains and uploads, any number *)
(* of requests and of failures.  The renewal date stays that of the        *)
(* certificate because every write takes the two from the same row, and no *)
(* copy of a row outlives the months in which a certificate grows old.     *)
(***************************************************************************)
EXTENDS SiteFiles, TLAPS

\* A row whose renewal date is that of its certificate, if the certificate was issued.
Dated(s) == s.cert.src = "acme" => s.expires = s.cert.life

\* What DateIsTheCertificates needs to be inductive: the copy a handler will write back is
\* dated as well.
CertInv ==
    /\ CertTypeOK
    /\ site # NoSite => Dated(site)
    /\ edit # NoSite => Dated(edit)

\* A row is told from no row by its mode.
LEMMA RowsAreThere == ASSUME NEW s \in Sites PROVE s # NoSite
BY DEF Sites, NoSite, Modes

LEMMA CertInitInv == ASSUME CertInit PROVE CertInv
<1>1. order \in [Orderers -> DomainSets \cup {{}}]
  BY DEF CertInit
<1>2. due \in BOOLEAN
  BY DEF CertInit
<1>3. edits \in 0..MaxEdits /\ faults \in 0..MaxFaults
  BY CertificateAssumption DEF CertInit
<1> QED BY <1>1, <1>2, <1>3 DEF CertInit, CertInv, CertTypeOK

\* The counters stay within their bounds.
LEMMA FaultType ==
    ASSUME faults \in 0..MaxFaults, Fault \/ UNCHANGED faults PROVE faults' \in 0..MaxFaults
BY CertificateAssumption DEF Fault

LEMMA EditsType ==
    ASSUME edits \in 0..MaxEdits, Request \/ UNCHANGED edits PROVE edits' \in 0..MaxEdits
BY CertificateAssumption DEF Request

\* An upsert makes a row of what it is given, with the same certificate and date.
LEMMA UpsertKeeps ==
    ASSUME NEW s \in Sites, Dated(s), CertTypeOK, UpsertSite(s)
    PROVE  site' \in Sites /\ Dated(site')
<1>1. [s EXCEPT !.failed = FALSE, !.tried = "old"] \in Sites
  BY DEF Sites
<1>2. ASSUME site # NoSite PROVE [s EXCEPT !.failed = site.failed, !.tried = site.tried] \in Sites
  <2>1. site \in Sites
    BY <1>2 DEF CertTypeOK
  <2> QED BY <2>1 DEF Sites
<1>3. /\ site' \in Sites
      /\ site' = [s EXCEPT !.failed = FALSE, !.tried = "old"]
         \/ site' = [s EXCEPT !.failed = site.failed, !.tried = site.tried]
  BY <1>1, <1>2 DEF UpsertSite
<1>4. site'.cert = s.cert /\ site'.expires = s.expires
  BY <1>3 DEF Sites
<1> QED BY <1>3, <1>4 DEF Dated

\* A new site with the certificate that was uploaded has no date.
LEMMA CreateKeeps == ASSUME CertInv, CreateSite PROVE CertInv'
<1>1. PICK d \in DomainSets, m \in {"auto", "manual"}, c \in Uploads \cup {NoCert} :
        UpsertSite([domains |-> d, mode |-> m, cert |-> c, expires |-> "none",
                    failed |-> FALSE, tried |-> "old"])
  BY DEF CreateSite
<1> DEFINE new == [domains |-> d, mode |-> m, cert |-> c, expires |-> "none",
                   failed |-> FALSE, tried |-> "old"]
<1>2. new \in Sites
  BY CertificateAssumption DEF Sites, Modes
<1>3. Dated(new)
  BY CertificateAssumption DEF Dated, NoCert
<1>4. site' \in Sites /\ Dated(site')
  BY <1>1, <1>2, <1>3, UpsertKeeps DEF CertInv
<1>5. due' = TRUE /\ UNCHANGED <<edit, order, faults>> /\ edits' \in 0..MaxEdits
  BY EditsType DEF CreateSite, CertInv, CertTypeOK
<1> QED BY <1>4, <1>5 DEF CertInv, CertTypeOK

\* A handler writes back the date it read beside the certificate it read, or an uploaded one.
LEMMA UpdateKeeps == ASSUME CertInv, UpdateRead \/ UpdateWrite PROVE CertInv'
<1>1. CASE UpdateRead
  <2>1. site # NoSite /\ edit' = site /\ UNCHANGED <<site, order, due, faults>> /\ edits' \in 0..MaxEdits
    BY <1>1, EditsType DEF UpdateRead, CertInv, CertTypeOK
  <2> QED BY <2>1 DEF CertInv, CertTypeOK
<1>2. CASE UpdateWrite
  <2>1. PICK d \in DomainSets, m \in Modes, c \in Uploads \cup {edit.cert} :
          UpsertSite([edit EXCEPT !.domains = d, !.mode = m, !.cert = c])
    BY <1>2 DEF UpdateWrite
  <2>2. edit \in Sites /\ Dated(edit)
    BY <1>2 DEF UpdateWrite, CertInv, CertTypeOK
  <2>3. c \in Certs \cup {NoCert} /\ (c = edit.cert \/ c.src = "upload")
    BY <2>2, CertificateAssumption DEF Sites
  <2> DEFINE new == [edit EXCEPT !.domains = d, !.mode = m, !.cert = c]
  <2>4. new \in Sites /\ new.cert = c /\ new.expires = edit.expires
    BY <2>2, <2>3 DEF Sites
  <2>5. Dated(new)
    BY <2>2, <2>3, <2>4 DEF Dated
  <2>6. site' \in Sites /\ Dated(site')
    BY <2>1, <2>4, <2>5, UpsertKeeps DEF CertInv
  <2>7. edit' = NoSite /\ due' = TRUE /\ UNCHANGED <<order, edits, faults>>
    BY <1>2 DEF UpdateWrite
  <2> QED BY <2>6, <2>7 DEF CertInv, CertTypeOK
<1> QED BY <1>1, <1>2

LEMMA DeleteKeeps == ASSUME CertInv, DeleteSite PROVE CertInv'
<1>1. site' = NoSite /\ due' = TRUE /\ UNCHANGED <<edit, order, faults>> /\ edits' \in 0..MaxEdits
  BY EditsType DEF DeleteSite, CertInv, CertTypeOK
<1> QED BY <1>1 DEF CertInv, CertTypeOK

\* Placing an order takes the domains of the row and leaves the row alone.
LEMMA OrderPlaced ==
    ASSUME CertInv, PressButton \/ Sweep PROVE CertInv'
<1>1. site \in Sites
  BY DEF PressButton, Sweep, CertInv, CertTypeOK
<1>2. site.domains \in DomainSets
  BY <1>1 DEF Sites
<1>3. order' \in [Orderers -> DomainSets \cup {{}}]
  BY <1>2 DEF PressButton, Sweep, CertInv, CertTypeOK, Orderers
<1>4. UNCHANGED <<site, edit, due, faults>> /\ edits' \in 0..MaxEdits
  BY EditsType DEF PressButton, Sweep, CertInv, CertTypeOK
<1> QED BY <1>3, <1>4 DEF CertInv, CertTypeOK

\* A certificate is stored together with its date, for names that a site had.
LEMMA OrderEnds == ASSUME CertInv, NEW o \in Orderers, OrderStep(o) PROVE CertInv'
<1>1. order' \in [Orderers -> DomainSets \cup {{}}]
  BY DEF OrderStep, OrderDone, OrderFails, CertInv, CertTypeOK
<1>2. CASE OrderDone(o)
  <2>1. order[o] \in DomainSets /\ order[o] \subseteq Names
    BY <1>2, CertificateAssumption DEF OrderDone, CertInv, CertTypeOK
  <2>2. site \in Sites
    BY <1>2 DEF OrderDone, StoreCertificate, CertInv, CertTypeOK
  <2> DEFINE c == [names |-> order[o], life |-> "fresh", src |-> "acme"]
  <2>3. c \in Certs
    BY <2>1 DEF Certs
  <2>4. site' = [site EXCEPT !.cert = c, !.expires = "fresh", !.failed = FALSE, !.tried = "now"]
    BY <1>2 DEF OrderDone, StoreCertificate
  <2>5. site' \in Sites /\ site'.cert = c /\ site'.expires = "fresh"
    BY <2>2, <2>3, <2>4 DEF Sites
  <2>6. Dated(site')
    BY <2>5 DEF Dated
  <2>7. due' = TRUE /\ UNCHANGED <<edit, edits, faults>>
    BY <1>2 DEF OrderDone
  <2> QED BY <1>1, <2>5, <2>6, <2>7 DEF CertInv, CertTypeOK
<1>3. CASE OrderFails(o)
  <2>1. UNCHANGED <<edit, due, edits>> /\ faults' \in 0..MaxFaults
    BY <1>3, FaultType DEF OrderFails, NoFault, CertInv, CertTypeOK
  <2>2. site' = site \/ (site # NoSite /\ site' = [site EXCEPT !.failed = TRUE, !.tried = "now"])
    BY <1>3 DEF OrderFails, RecordACMEAttempt
  <2>3. ASSUME site # NoSite
        PROVE  LET s == [site EXCEPT !.failed = TRUE, !.tried = "now"]
               IN  s \in Sites /\ s.cert = site.cert /\ s.expires = site.expires
    BY <2>3 DEF CertInv, CertTypeOK, Sites
  <2>4. site' \in Sites \cup {NoSite} /\ (site' # NoSite => Dated(site'))
    BY <2>2, <2>3 DEF CertInv, CertTypeOK, Dated
  <2> QED BY <1>1, <2>1, <2>4 DEF CertInv, CertTypeOK
<1> QED BY <1>2, <1>3 DEF OrderStep

LEMMA LaterKeeps == ASSUME CertInv, Later PROVE CertInv'
<1>1. site \in Sites /\ UNCHANGED <<edit, order, due, edits, faults>>
  BY DEF Later, CertInv, CertTypeOK
<1>2. \/ site' = [site EXCEPT !.tried = "hour"]
      \/ site' = [site EXCEPT !.tried = "old"]
  BY DEF Later
<1>3. site' \in Sites /\ site'.cert = site.cert /\ site'.expires = site.expires
  BY <1>1, <1>2 DEF Sites
<1>4. site # NoSite
  BY <1>1, RowsAreThere
<1> QED BY <1>1, <1>3, <1>4 DEF CertInv, CertTypeOK, Dated

LEMMA CertStepKeeps == ASSUME CertInv, CertStep PROVE CertInv'
<1>1. "button" \in Orderers /\ "sweep" \in Orderers
  BY DEF Orderers
<1> QED
  BY <1>1, CreateKeeps, UpdateKeeps, DeleteKeeps, OrderPlaced, OrderEnds, LaterKeeps
  DEF CertStep, SweepStep

-----------------------------------------------------------------------------
(* With the files, the watcher and the months. *)

\* A certificate only grows old.
LEMMA OlderType == ASSUME NEW c \in Certs \cup {NoCert} PROVE Older(c) \in Certs \cup {NoCert}
BY DEF Older, Certs

\* The months pass when nobody holds a copy of the row, and date and certificate grow old
\* together.
LEMMA MonthsKeep == ASSUME CertInv, MonthsPass PROVE CertInv'
<1>1. /\ site \in Sites /\ site # NoSite /\ edit = NoSite
      /\ UNCHANGED <<edit, order, due, edits, faults>>
  BY DEF MonthsPass, CertInv, CertTypeOK
<1> DEFINE e == IF site.expires = "none" THEN "none" ELSE "due"
<1>2. site' = [site EXCEPT !.cert = Older(site.cert), !.expires = e]
  BY DEF MonthsPass
<1>3. site.cert \in Certs \cup {NoCert} /\ site.expires \in {"none", "fresh", "due"}
  BY <1>1 DEF Sites
<1>4. Older(site.cert) \in Certs \cup {NoCert} /\ e \in {"none", "fresh", "due"}
  BY <1>3, OlderType
<1>5. site' \in Sites /\ site'.cert = Older(site.cert) /\ site'.expires = e
  BY <1>1, <1>2, <1>4 DEF Sites
<1>6. Dated(site')
  <2>1. CASE site.cert = NoCert
    BY <1>5, <2>1 DEF Dated, Older, NoCert
  <2>2. CASE site.cert # NoCert
    <3>1. site.cert \in Certs /\ Older(site.cert) = [site.cert EXCEPT !.life = "due"]
      BY <1>3, <2>2 DEF Older
    <3>2. site.cert.life \in {"fresh", "due"}
      BY <3>1 DEF Certs
    <3>3. site'.cert.life = "due" /\ site'.cert.src = site.cert.src
      BY <1>5, <3>1 DEF Certs
    <3>4. site.cert.src = "acme" => site.expires # "none"
      BY <1>1, <3>2 DEF CertInv, Dated
    <3> QED BY <1>5, <3>3, <3>4 DEF Dated
  <2> QED BY <2>1, <2>2
<1> QED BY <1>1, <1>5, <1>6 DEF CertInv, CertTypeOK

\* Every step of the whole keeps the invariant of the row.
LEMMA SiteStepKeeps == ASSUME CertInv, [SiteNext]_siteVars PROVE CertInv'
<1>1. CASE CertStep
  BY <1>1, CertStepKeeps
<1>2. CASE TimerPublish \/ PublishStep \/ WatchStep \/ UNCHANGED siteVars
  <2>1. UNCHANGED <<site, edit, order, edits>>
    BY <1>2 DEF TimerPublish, TimerPublishes, PublishStep, StartPublish, WriteCrt, WriteKey, WriteConf,
       RemoveFiles, PublishFails, WatchStep, Poll, Reload, siteVars, certVars
  <2>2. Fault \/ UNCHANGED faults
    BY <1>2 DEF TimerPublish, TimerPublishes, PublishStep, StartPublish, WriteCrt, WriteKey, WriteConf,
       RemoveFiles, PublishFails, WatchStep, Poll, Reload, siteVars, certVars
  <2>3. due' \in {TRUE, FALSE, due}
    BY <1>2 DEF TimerPublish, TimerPublishes, PublishStep, StartPublish, WriteCrt, WriteKey, WriteConf,
       RemoveFiles, PublishFails, WatchStep, Poll, Reload, siteVars, certVars
  <2>4. faults' \in 0..MaxFaults /\ due' \in BOOLEAN
    BY <2>2, <2>3, FaultType DEF CertInv, CertTypeOK
  <2> QED BY <2>1, <2>4 DEF CertInv, CertTypeOK
<1>3. CASE DaemonCrashes
  <2>1. edit' = NoSite /\ due' = TRUE /\ UNCHANGED <<site, edits>> /\ Fault
    BY <1>3 DEF DaemonCrashes, Crash
  <2>2. order' \in [Orderers -> DomainSets \cup {{}}]
    BY <1>3 DEF DaemonCrashes, Crash
  <2>3. faults' \in 0..MaxFaults
    BY <2>1, FaultType DEF CertInv, CertTypeOK
  <2> QED BY <2>1, <2>2, <2>3 DEF CertInv, CertTypeOK
<1>4. CASE MonthsPass
  BY <1>4, MonthsKeep
<1> QED BY <1>1, <1>2, <1>3, <1>4 DEF SiteNext

\* The renewal date in the row is that of the certificate in the row, whatever the sweep, the
\* button and a handler do to each other (acme.go, handlers.go handleUpdateSite).
THEOREM DateStaysWithCertificate == SiteSpec => []DateIsTheCertificates
<1>1. SiteInit => CertInv
  BY CertInitInv DEF SiteInit
<1>2. CertInv /\ [SiteNext]_siteVars => CertInv'
  BY SiteStepKeeps
<1>3. CertInv => DateIsTheCertificates
  BY DEF CertInv, Dated, DateIsTheCertificates
<1> QED BY <1>1, <1>2, <1>3, PTL DEF SiteSpec

-----------------------------------------------------------------------------
(* Types of the files. *)

AnyCert == Certs \cup {NoCert}
Contents == [names : SUBSET Names, cert : AnyCert]
OnDisk == [conf : [names : SUBSET Names, tls : BOOLEAN], crt : AnyCert, key : AnyCert]
PubStates == [at : {"idle", "crt", "key", "conf", "remove", "removeCerts"}, take : Contents]

LEMMA StartTypes ==
    /\ Nothing \in Contents /\ NoFiles \in OnDisk /\ PubIdle \in PubStates
    /\ [PubIdle EXCEPT !.at = "remove"] \in PubStates
<1>1. Nothing \in Contents
  BY DEF Nothing, Contents, AnyCert
<1> QED BY <1>1 DEF NoFiles, OnDisk, NoConf, AnyCert, PubIdle, PubStates

LEMMA PublishedType == ASSUME CertTypeOK PROVE Published(site) \in Contents
<1>1. CASE site = NoSite
  BY <1>1, StartTypes DEF Published, NoSite
<1>2. CASE site \in Sites
  <2>1. site.domains \subseteq Names /\ site.cert \in AnyCert
    BY <1>2, CertificateAssumption DEF Sites, AnyCert
  <2> QED BY <2>1, StartTypes DEF Published, Contents
<1> QED BY <1>1, <1>2 DEF CertTypeOK

\* The part of SiteTypeOK that is about the files.
FileTypeOK ==
    /\ pub \in PubStates /\ files \in OnDisk
    /\ watch \in [at : {"poll", "test"}, last : OnDisk]
    /\ loaded \in Contents

LEMMA PublishTypes == ASSUME FileTypeOK, CertTypeOK, PublishStep PROVE FileTypeOK'
<1>1. UNCHANGED <<watch, loaded>>
  BY DEF PublishStep, StartPublish, WriteCrt, WriteKey, WriteConf, RemoveFiles, PublishFails
<1>2. pub.take \in Contents /\ pub.take.cert \in AnyCert /\ pub.take.names \subseteq Names
  BY DEF FileTypeOK, PubStates, Contents
<1>3. pub' \in PubStates
  <2>1. \A a \in {"crt", "conf"}, t \in Contents : [at |-> a, take |-> t] \in PubStates
    BY DEF PubStates
  <2>2. \A a \in {"key", "conf", "removeCerts"} : [pub EXCEPT !.at = a] \in PubStates
    BY DEF FileTypeOK, PubStates
  <2>3. CASE StartPublish
    <3>1. PICK a \in {"crt", "conf"} : pub' \in {[at |-> a, take |-> Published(site)],
             [PubIdle EXCEPT !.at = "remove"], PubIdle}
      BY <2>3 DEF StartPublish
    <3> QED BY <2>1, <3>1, PublishedType, StartTypes
  <2> QED
    BY <2>2, <2>3, StartTypes
    DEF PublishStep, WriteCrt, WriteKey, WriteConf, RemoveFiles, PublishFails
<1>4. files' \in OnDisk
  <2>1. RenderSite(pub.take) \in [names : SUBSET Names, tls : BOOLEAN]
    BY <1>2 DEF RenderSite
  <2>2. NoConf \in [names : SUBSET Names, tls : BOOLEAN]
    BY DEF NoConf
  <2>3. /\ [files EXCEPT !.crt = pub.take.cert] \in OnDisk
        /\ [files EXCEPT !.key = pub.take.cert] \in OnDisk
        /\ [files EXCEPT !.conf = RenderSite(pub.take)] \in OnDisk
        /\ [files EXCEPT !.conf = NoConf] \in OnDisk
    BY <1>2, <2>1, <2>2 DEF FileTypeOK, OnDisk
  <2> QED
    BY <2>3, StartTypes
    DEF FileTypeOK, PublishStep, StartPublish, WriteCrt, WriteKey, WriteConf, RemoveFiles, PublishFails
<1> QED BY <1>1, <1>3, <1>4 DEF FileTypeOK

LEMMA WatchTypes == ASSUME FileTypeOK, WatchStep PROVE FileTypeOK'
<1>1. UNCHANGED <<pub, files>>
  BY DEF WatchStep, Poll, Reload
<1>2. watch' \in [at : {"poll", "test"}, last : OnDisk]
  BY DEF FileTypeOK, WatchStep, Poll, Reload
<1>3. Served(files) \in Contents
  BY DEF FileTypeOK, OnDisk, Served, Contents, AnyCert
<1>4. loaded' \in Contents
  BY <1>3 DEF FileTypeOK, WatchStep, Poll, Reload
<1> QED BY <1>1, <1>2, <1>4 DEF FileTypeOK

LEMMA MonthTypes == ASSUME FileTypeOK, MonthsPass PROVE FileTypeOK'
<1> DEFINE aged(f) == [f EXCEPT !.crt = Older(f.crt), !.key = Older(f.key)]
<1>1. ASSUME NEW f \in OnDisk PROVE aged(f) \in OnDisk
  <2>1. Older(f.crt) \in AnyCert /\ Older(f.key) \in AnyCert
    BY <1>1, OlderType DEF OnDisk, AnyCert
  <2> QED BY <1>1, <2>1 DEF OnDisk
<1>2. files' \in OnDisk /\ pub' \in PubStates
  BY <1>1 DEF FileTypeOK, MonthsPass
<1>3. watch.last \in OnDisk /\ watch' = [watch EXCEPT !.last = aged(watch.last)]
  BY DEF FileTypeOK, MonthsPass
<1>4. watch' \in [at : {"poll", "test"}, last : OnDisk]
  BY <1>1, <1>3 DEF FileTypeOK
<1>5. loaded' \in Contents
  <2>1. Older(loaded.cert) \in AnyCert
    BY OlderType DEF FileTypeOK, Contents, AnyCert
  <2> QED BY <2>1 DEF FileTypeOK, MonthsPass, Contents
<1> QED BY <1>2, <1>4, <1>5 DEF FileTypeOK

\* The row, its copy, the files and what nginx serves are always whole: no write leaves half a
\* row for a site that was deleted meanwhile (sites.go StoreCertificate, nginxconf.go).
THEOREM SiteTypes == SiteSpec => []SiteTypeOK
<1>1. SiteInit => CertInv /\ FileTypeOK
  BY CertInitInv, StartTypes DEF SiteInit, FileInit, FileTypeOK
<1>2. CertInv /\ FileTypeOK /\ [SiteNext]_siteVars => (CertInv /\ FileTypeOK)'
  <2> SUFFICES ASSUME CertInv, FileTypeOK, [SiteNext]_siteVars PROVE FileTypeOK'
    BY SiteStepKeeps
  <2>1. CASE UNCHANGED fileVars
    BY <2>1 DEF fileVars, FileTypeOK
  <2>2. CASE DaemonCrashes
    BY <2>2, StartTypes DEF DaemonCrashes, FileTypeOK
  <2> QED
    BY <2>1, <2>2, PublishTypes, WatchTypes, MonthTypes DEF SiteNext, TimerPublish, siteVars, CertInv
<1>3. CertInv /\ FileTypeOK => SiteTypeOK
  BY DEF CertInv, FileTypeOK, SiteTypeOK, PubStates, OnDisk, Contents, AnyCert
<1> QED BY <1>1, <1>2, <1>3, PTL DEF SiteSpec
=============================================================================
