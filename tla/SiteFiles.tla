----------------------------- MODULE SiteFiles -----------------------------
(***************************************************************************)
(* From the row of Certificates to what nginx serves: Publish rewrites the *)
(* site's files one by one (nginxconf.go WriteSiteConfigs), and the        *)
(* watcher of the proxy container polls them, tests them and reloads       *)
(* (entrypoint.sh watch_sites).                                            *)
(***************************************************************************)
EXTENDS Certificates

VARIABLES
    pub,      \* the publish that holds Publisher.mu: its next file and the row it read
    files,    \* the .conf, .crt and .key on disk
    watch,    \* the watcher: what it does next and the contents it last saw
    loaded    \* what nginx serves: the names of the site and its certificate

fileVars == <<pub, files, watch, loaded>>
siteVars == <<certVars, fileVars>>

NoConf == [names |-> {}, tls |-> FALSE]
NoFiles == [conf |-> NoConf, crt |-> NoCert, key |-> NoCert]
Nothing == [names |-> {}, cert |-> NoCert]

\* What a publish takes from the row: the names of an enabled site, and its certificate.
Published(s) ==
    IF s.mode \in {"auto", "manual"} THEN [names |-> s.domains, cert |-> s.cert] ELSE Nothing
PubIdle == [at |-> "idle", take |-> Nothing]

FileInit ==
    /\ pub = PubIdle /\ files = NoFiles /\ loaded = Nothing
    /\ watch = [at |-> "poll", last |-> NoFiles]

-----------------------------------------------------------------------------
(* Publish *)

\* Publish takes its mutex and reads the sites.  Without a .conf there is nothing to remove:
\* certificate files left by a publish that was cut short stay.
StartPublish ==
    /\ due /\ pub = PubIdle
    /\ due' = FALSE
    /\ pub' = IF Published(site) # Nothing
              THEN [at |-> IF site.cert # NoCert THEN "crt" ELSE "conf", take |-> Published(site)]
              ELSE IF files.conf # NoConf THEN [PubIdle EXCEPT !.at = "remove"] ELSE PubIdle
    /\ UNCHANGED <<site, edit, order, edits, faults, files, watch, loaded>>

\* Mutant: the certificate files are written only for a site that has none yet.
WriteCrtOnce ==
    /\ pub.at = "crt"
    /\ files' = IF files.crt = NoCert THEN [files EXCEPT !.crt = pub.take.cert] ELSE files
    /\ pub' = [pub EXCEPT !.at = "key"]
    /\ UNCHANGED <<certVars, watch, loaded>>

WriteCrt ==
    /\ pub.at = "crt"
    /\ files' = [files EXCEPT !.crt = pub.take.cert]
    /\ pub' = [pub EXCEPT !.at = "key"]
    /\ UNCHANGED <<certVars, watch, loaded>>

WriteKey ==
    /\ pub.at = "key"
    /\ files' = [files EXCEPT !.key = pub.take.cert]
    /\ pub' = [pub EXCEPT !.at = "conf"]
    /\ UNCHANGED <<certVars, watch, loaded>>

\* renderSite: the names, and with a certificate a second server block for HTTPS.  Validation
\* and the authority's challenge are served in either shape.
RenderSite(t) == [names |-> t.names, tls |-> t.cert # NoCert]

\* Written to a temporary file and renamed.
WriteConf ==
    /\ pub.at = "conf"
    /\ files' = [files EXCEPT !.conf = RenderSite(pub.take)]
    /\ pub' = PubIdle
    /\ UNCHANGED <<certVars, watch, loaded>>

\* The files of a site that is deleted or disabled, the .conf first.
RemoveFiles ==
    /\ pub.at \in {"remove", "removeCerts"}
    /\ IF pub.at = "remove"
       THEN files' = [files EXCEPT !.conf = NoConf] /\ pub' = [pub EXCEPT !.at = "removeCerts"]
       ELSE files' = NoFiles /\ pub' = PubIdle
    /\ UNCHANGED <<certVars, watch, loaded>>

\* A query or a write fails: what was written stays, nothing else is.
PublishFails ==
    /\ pub # PubIdle /\ Fault /\ pub' = PubIdle
    /\ UNCHANGED <<site, edit, order, due, edits, files, watch, loaded>>

-----------------------------------------------------------------------------
(* The watcher *)

\* What "openresty -t" accepts: with TLS, a certificate and the key that belongs to it.
Valid(f) == f.conf.tls => f.crt # NoCert /\ f.crt = f.key
Served(f) ==
    [names |-> f.conf.names, cert |-> IF f.conf.tls THEN f.crt ELSE NoCert]

Poll ==
    /\ watch.at = "poll" /\ files # watch.last
    /\ watch' = [at |-> "test", last |-> files]
    /\ UNCHANGED <<certVars, pub, files, loaded>>

\* "openresty -t", and if it passes the reload, read the files as they are by then; what nginx
\* serves stays unless they are valid.  The contents the watcher remembers are the ones it saw.
Reload ==
    /\ watch.at = "test"
    /\ watch' = [watch EXCEPT !.at = "poll"]
    /\ loaded' = IF Valid(files) THEN Served(files) ELSE loaded
    /\ UNCHANGED <<certVars, pub, files>>

-----------------------------------------------------------------------------
\* Two months pass: far longer than an order, a request, a publish, a poll or the wait for the
\* next sweep takes.
Older(c) == IF c = NoCert THEN NoCert ELSE [c EXCEPT !.life = "due"]
MonthsPass ==
    /\ edit = NoSite /\ (\A o \in Orderers : order[o] = {}) /\ ~due
    /\ pub = PubIdle /\ watch = [at |-> "poll", last |-> files]
    /\ site # NoSite /\ ~CertificateWanted(site)
    /\ site' = [site EXCEPT !.cert = Older(@), !.expires = IF @ = "none" THEN @ ELSE "due"]
    /\ files' = [files EXCEPT !.crt = Older(@), !.key = Older(@)]
    /\ watch' = [watch EXCEPT !.last.crt = Older(@), !.last.key = Older(@)]
    /\ loaded' = [loaded EXCEPT !.cert = Older(@)]
    /\ UNCHANGED <<edit, order, due, edits, faults, pub>>

DaemonCrashes == Crash /\ pub' = PubIdle /\ UNCHANGED <<files, watch, loaded>>

\* One that finds the mutex held waits for it, as if it came later.
TimerPublish == TimerPublishes /\ pub = PubIdle /\ UNCHANGED fileVars

PublishStep ==
    \/ StartPublish \/ WriteCrt \/ WriteKey \/ WriteConf \/ RemoveFiles \/ PublishFails

WatchStep == Poll \/ Reload

SiteNext ==
    \/ CertStep /\ UNCHANGED fileVars
    \/ TimerPublish \/ PublishStep \/ WatchStep \/ DaemonCrashes \/ MonthsPass

SiteInit == CertInit /\ FileInit

\* A handler and an order come to an end, the timers of the sweep and of the crawler refresh
\* are set again, the watcher polls and minutes pass.  A publish that is waiting gets the mutex.
SiteSpec ==
    /\ SiteInit /\ [][SiteNext]_siteVars
    /\ WF_siteVars(UpdateWrite /\ UNCHANGED fileVars)
    /\ WF_siteVars(OrderStep("button") /\ UNCHANGED fileVars)
    /\ WF_siteVars(SweepStep /\ UNCHANGED fileVars)
    /\ WF_siteVars(TimerPublish)
    /\ WF_siteVars(Later /\ UNCHANGED fileVars)
    /\ WF_siteVars(PublishStep) /\ WF_siteVars(WatchStep)

-----------------------------------------------------------------------------
(* Properties. *)

SiteTypeOK ==
    /\ CertTypeOK
    /\ pub \in [at : {"idle", "crt", "key", "conf", "remove", "removeCerts"},
                take : [names : SUBSET Names, cert : Certs \cup {NoCert}]]
    /\ files \in [conf : [names : SUBSET Names, tls : BOOLEAN],
                  crt : Certs \cup {NoCert}, key : Certs \cup {NoCert}]
    /\ watch \in [at : {"poll", "test"}, last : [conf : [names : SUBSET Names,
                  tls : BOOLEAN], crt : Certs \cup {NoCert}, key : Certs \cup {NoCert}]]
    /\ loaded \in [names : SUBSET Names, cert : Certs \cup {NoCert}]

Automatic == site # NoSite /\ site.mode = "auto" /\ edit = NoSite

\* A site that is automatic and no longer edited ends up with a certificate for all its domains,
\* whatever orders fail and old rows were written back before (domainsNotCovered: otherwise
\* "nothing ever asks for a new one"; ValidateSite: "the sweep would retry each one hourly").
CertificateCovers ==
    <>[]Automatic => <>[](site # NoSite /\ site.domains \subseteq site.cert.names)

\* As its certificates keep expiring, nginx serves such a site under a fresh one that names its
\* domains again and again, whatever publishes are cut short and changes the watcher skips.
CertificateServed ==
    (<>[]Automatic /\ []<>(site # NoSite /\ site.expires = "due"))
        => []<>(/\ site # NoSite /\ loaded.names = site.domains
                /\ site.domains \subseteq loaded.cert.names /\ loaded.cert.life = "fresh")
=============================================================================
