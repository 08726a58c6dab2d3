---------------------------- MODULE Certificates ----------------------------
(***************************************************************************)
(* The row of one site in the database and everything that writes to it:   *)
(* the admin handlers (handlers.go), the certificate button and the        *)
(* renewal sweep (acme.go).  Each of them reads the row, works on its copy *)
(* and writes later, without a transaction around the two.                 *)
(***************************************************************************)
EXTENDS Integers, FiniteSets

CONSTANTS
    Names,       \* domain names
    Unprovable,  \* the ones no authority certifies over HTTP-01: wildcards, addresses, bare hosts
    DomainSets,  \* the lists of domains a site can be given
    Uploads,     \* certificates an operator can upload
    MaxEdits,    \* bound: requests that create, change or delete the site
    MaxFaults    \* bound: failed orders, failed writes and crashes

\* What a certificate says: the names in it, and whether its own expiry is within renewBefore.
\* src tells an uploaded one from an issued one, which the code does not keep.
Certs == [names : SUBSET Names, life : {"fresh", "due"}, src : {"acme", "upload"}]
NoCert == [names |-> {}, life |-> "due", src |-> "none"]

ASSUME CertificateAssumption ==
    /\ DomainSets \subseteq SUBSET Names /\ {} \notin DomainSets /\ Unprovable \subseteq Names
    /\ Uploads \subseteq {c \in Certs : c.src = "upload"}
    /\ MaxEdits \in Nat /\ MaxFaults \in Nat

VARIABLES
    site,    \* the row, or NoSite
    edit,    \* the row handleUpdateSite has read and will write back, or NoSite
    order,   \* order[o]: the domains o is getting a certificate for, {} when it is getting none
    due,     \* a publish is due: a caller waits for Publisher.mu
    edits,   \* requests so far
    faults   \* failures so far

\* mode: enabled with ACME, enabled without, disabled.  expires is the column
\* cert_expires_at; failed and tried are acme_last_error and how long ago acme_last_try is:
\* within the button's window, within the back-off, or before.
Modes == {"auto", "manual", "off"}
Sites ==
    [domains : DomainSets, mode : Modes, cert : Certs \cup {NoCert},
     expires : {"none", "fresh", "due"}, failed : BOOLEAN, tried : {"now", "hour", "old"}]
NoSite == [mode |-> "absent"]

\* Who orders certificates.
Orderers == {"sweep", "button"}

certVars == <<site, edit, order, due, edits, faults>>

Fault == faults < MaxFaults /\ faults' = faults + 1
NoFault == UNCHANGED faults
Request == edits < MaxEdits /\ edits' = edits + 1

CertInit ==
    /\ site = NoSite /\ edit = NoSite
    /\ order = [o \in Orderers |-> {}]
    /\ due = FALSE
    /\ edits = 0 /\ faults = 0

-----------------------------------------------------------------------------
(* acme.go: the decisions, free of I/O *)

\* Mutant: only the date counts.
NotCoveredIgnored(s) == {}

\* domainsNotCovered: what a site was given after its certificate was issued.
NotCovered(s) == IF s.cert = NoCert THEN {} ELSE s.domains \ s.cert.names

CertificateWanted(s) ==
    /\ s.mode = "auto"
    /\ \/ s.cert = NoCert \/ s.expires = "none"
       \/ s.expires = "due"
       \/ NotCovered(s) # {}

\* The sweep backs off for an hour after a failure.
NeedsCertificate(s) == CertificateWanted(s) /\ ~(s.failed /\ s.tried # "old")

\* ManualIssueCooldown: the button waits after any attempt.
CoolingDown(s) == s.tried = "now"

-----------------------------------------------------------------------------
(* store/sites.go: what is refused, and the writes *)

\* ValidateSite, checkACMEDomain: an automatic site has only names that can be proved.
ValidateSite(s) == s.mode = "auto" => s.domains \cap Unprovable = {}

\* Mutant: the date is left as the row has it.
UpsertSiteUndated(s) ==
    site' = IF site = NoSite THEN [s EXCEPT !.failed = FALSE, !.tried = "old"]
            ELSE [s EXCEPT !.failed = site.failed, !.tried = site.tried, !.expires = site.expires]

\* Every column of the site but the two about the last attempt, which a new row has blank.
UpsertSite(s) ==
    site' = IF site = NoSite THEN [s EXCEPT !.failed = FALSE, !.tried = "old"]
            ELSE [s EXCEPT !.failed = site.failed, !.tried = site.tried]

\* Mutant: an upsert, which makes half a row for a site deleted meanwhile.
StoreCertificateUpserts(d) ==
    LET new == [names |-> d, life |-> "fresh", src |-> "acme"]
    IN  site' = IF site = NoSite
                THEN [domains |-> d, mode |-> "off", cert |-> new, expires |-> "fresh"]
                ELSE [site EXCEPT !.cert = new, !.expires = "fresh", !.failed = FALSE,
                                  !.tried = "now"]

\* An UPDATE: a site deleted meanwhile stays deleted.
StoreCertificate(d) ==
    /\ site # NoSite
    /\ site' = [site EXCEPT !.cert = [names |-> d, life |-> "fresh", src |-> "acme"],
                            !.expires = "fresh", !.failed = FALSE, !.tried = "now"]

RecordACMEAttempt ==
    site' = IF site = NoSite THEN NoSite ELSE [site EXCEPT !.failed = TRUE, !.tried = "now"]

-----------------------------------------------------------------------------
(* handlers.go *)

\* handleCreateSite: the new row, with its certificate if one came with it.
CreateSite ==
    /\ Request /\ site = NoSite /\ edit = NoSite
    /\ \E d \in DomainSets, m \in {"auto", "manual"}, c \in Uploads \cup {NoCert} :
          LET new == [domains |-> d, mode |-> m, cert |-> c, expires |-> "none",
                      failed |-> FALSE, tried |-> "old"]
          IN  ValidateSite(new) /\ UpsertSite(new)
    /\ due' = TRUE
    /\ UNCHANGED <<edit, order, faults>>

\* handleUpdateSite reads the row ...
UpdateRead ==
    /\ Request /\ site # NoSite /\ edit = NoSite
    /\ edit' = site
    /\ UNCHANGED <<site, order, due, faults>>

\* ... and writes it back with what the request says laid over it.  The certificate is the one
\* it read unless a pair was sent; the date always is.
UpdateWrite ==
    /\ edit # NoSite
    /\ \E d \in DomainSets, m \in Modes, c \in Uploads \cup {edit.cert} :
          LET in == [edit EXCEPT !.domains = d, !.mode = m, !.cert = c]
          IN  ValidateSite(in) /\ UpsertSite(in)
    /\ edit' = NoSite /\ due' = TRUE
    /\ UNCHANGED <<order, edits, faults>>

DeleteSite ==
    /\ Request /\ site # NoSite
    /\ site' = NoSite
    /\ due' = TRUE
    /\ UNCHANGED <<edit, order, faults>>

\* handleIssueCertificate: the checks that come before the order.
PressButton ==
    /\ Request /\ site # NoSite /\ order["button"] = {}
    /\ CertificateWanted(site) /\ ~CoolingDown(site)
    /\ order' = [order EXCEPT !["button"] = site.domains]
    /\ UNCHANGED <<site, edit, due, faults>>

-----------------------------------------------------------------------------
(* acme.go: the sweep and the order *)

\* sweep() lists the sites and goes through them; the orders of others may take minutes, so
\* that this one is placed for a row that was read long before.
Sweep ==
    /\ site # NoSite /\ order["sweep"] = {}
    /\ NeedsCertificate(site)
    /\ order' = [order EXCEPT !["sweep"] = site.domains]
    /\ UNCHANGED <<site, edit, due, edits, faults>>

\* Issue succeeds, for the domains the site had when it was read.
OrderDone(o) ==
    /\ order[o] # {} /\ order[o] \cap Unprovable = {}
    /\ StoreCertificate(order[o])
    /\ order' = [order EXCEPT ![o] = {}] /\ due' = TRUE
    /\ UNCHANGED <<edit, edits, faults>>

\* Issue fails: the authority refuses, the site is gone, the database is.  Recording it may
\* fail as well.
OrderFails(o) ==
    /\ order[o] # {}
    /\ ((site = NoSite \/ order[o] \cap Unprovable # {}) /\ NoFault) \/ Fault
    /\ RecordACMEAttempt \/ UNCHANGED site
    /\ order' = [order EXCEPT ![o] = {}]
    /\ UNCHANGED <<edit, due, edits>>

\* moswafd stops and starts again; main() publishes.
Crash ==
    /\ Fault
    /\ edit' = NoSite /\ order' = [o \in Orderers |-> {}] /\ due' = TRUE
    /\ UNCHANGED <<site, edits>>

\* The crawler refresh publishes every twelve hours, changed or not.
TimerPublishes == ~due /\ due' = TRUE /\ UNCHANGED <<site, edit, order, edits, faults>>

\* The last attempt recedes out of the button's window, then out of the back-off.
Later ==
    /\ site # NoSite /\ site.tried # "old"
    /\ site' = [site EXCEPT !.tried = IF @ = "now" /\ site.failed THEN "hour" ELSE "old"]
    /\ UNCHANGED <<edit, order, due, edits, faults>>

OrderStep(o) == OrderDone(o) \/ OrderFails(o)
SweepStep == Sweep \/ OrderStep("sweep")
CertStep ==
    \/ CreateSite \/ UpdateRead \/ UpdateWrite \/ DeleteSite
    \/ PressButton \/ OrderStep("button")
    \/ SweepStep \/ Later

-----------------------------------------------------------------------------
(* Properties. *)

CertTypeOK ==
    /\ site \in Sites \cup {NoSite} /\ edit \in Sites \cup {NoSite}
    /\ order \in [Orderers -> DomainSets \cup {{}}]
    /\ due \in BOOLEAN
    /\ edits \in 0..MaxEdits /\ faults \in 0..MaxFaults

\* The renewal date in the row is that of the certificate in the row, whatever the sweep, the
\* button and a handler do to each other, unless the operator uploaded the certificate
\* (handleUpdateSite: "Certificate state belongs to the renewal loop").  A fresh date beside an
\* old certificate would stop its renewal for two months.
DateIsTheCertificates ==
    site # NoSite /\ site.cert.src = "acme" => site.expires = site.cert.life
=============================================================================
