-------------------------- MODULE WorkspaceDomains --------------------------
(* The domains of a workspace. group_vars/all.yml lists them with the status *)
(* of their order and names the default one; host_vars of a device name the  *)
(* domain it serves. The page rewrites the whole list from its own copy, the *)
(* API moves the status of one entry, other pages do either, and nothing     *)
(* orders any of it. Every workspace has one device here.                    *)
EXTENDS Naturals

CONSTANTS Sites,       \* workspaces
          Localhost,   \* the domain that is always listed
          Apexes,      \* names of kind fqdn
          Subdomains,  \* names of kind subdomain, all below one of the Apexes
          NoDomain,
          MaxMoves     \* bound on what the users do

ASSUME DomainsAssumption ==
  /\ Sites # {} /\ Apexes # {} /\ MaxMoves \in Nat
  /\ Localhost \notin Apexes \cup Subdomains /\ Apexes \cap Subdomains = {}
  /\ NoDomain \notin {Localhost} \cup Apexes \cup Subdomains

VARIABLES domainFile,    \* the catalog and the default in group_vars/all.yml
          hostDomain,    \* DOMAIN_PRIMARY in the host_vars of the device
          openSite,      \* workspaceId of the page
          domainEntries, \* the page's catalog
          sitePrimary,   \* workspacePrimaryDomain
          primaryDraft,  \* primaryDomainDraft, the radio button that is on
          attached,      \* primaryDomain of the device on the page
          settingsLoad,  \* the read of group_vars of the open workspace
          catalogOps,    \* requests for the catalog in flight
          hostWrites,    \* requests for host_vars in flight
          busyDomain,    \* the domain whose buttons are off
          domainMoves,
          crossed,       \* workspaces in which two of these overlapped
          outdated       \* workspaces whose list changed elsewhere since it was read

domainsVars == <<domainFile, hostDomain, openSite, domainEntries, sitePrimary,
  primaryDraft, attached, settingsLoad, catalogOps, hostWrites, busyDomain,
  domainMoves, crossed, outdated>>

Domain == {Localhost} \cup Apexes \cup Subdomains
MaybeDomain == Domain \cup {NoDomain}
Parent == [s \in Subdomains |-> CHOOSE a \in Apexes : TRUE]
OrderStatus ==
  {"reserved", "ordered", "active", "disabled", "failed", "cancelled"}
Catalogs == [Domain -> OrderStatus \cup {"absent"}]
OpSlot == 1..2
CatalogOp == [kind : {"none", "reserve", "persist", "status"}, site : Sites,
              entries : Catalogs, primary : MaybeDomain, name : MaybeDomain,
              next : OrderStatus, result : {"sent", "done", "failed"}]

DomainsTypeOK ==
  /\ domainFile \in [Sites -> [catalog : Catalogs, primary : MaybeDomain]]
  /\ hostDomain \in [Sites -> MaybeDomain]
  /\ openSite \in Sites /\ domainEntries \in Catalogs
  /\ {sitePrimary, primaryDraft, attached, busyDomain} \subseteq MaybeDomain
  /\ settingsLoad \in {"idle", "asked"}
  /\ catalogOps \in [OpSlot -> CatalogOp]
  /\ hostWrites \subseteq [site : Sites, to : MaybeDomain]
  /\ domainMoves \in 0..MaxMoves /\ crossed \subseteq Sites /\ outdated \subseteq Sites

-----------------------------------------------------------------------------
\* What the statuses of an order lead to: ALLOWED_TRANSITIONS of the API, and
\* the buttons an administrator sees.
Lifecycle == [reserved |-> {"ordered"},
              ordered |-> {"active", "failed", "cancelled"},
              active |-> {"disabled"}, disabled |-> {"active"},
              failed |-> {"ordered", "cancelled"}, cancelled |-> {}]
StatusButtons == Lifecycle

Listed(catalog) == {d \in Domain : catalog[d] # "absent"}

\* (Defect: the rows are written without their status.)
ParsedNoStatus(catalog, primary) == LET
  implied == {Localhost, primary} \cup
    {Parent[s] : s \in (Listed(catalog) \cup {primary}) \cap Subdomains}
  IN [d \in Domain |-> IF catalog[d] # "absent" \/ d \in implied THEN "active"
                       ELSE "absent"]
\* A catalog as the page reads and writes it: the default domain, the parent
\* of a subdomain and localhost are in it, as active ones, whether listed or
\* not.
Parsed(catalog, primary) == LET
  implied == {Localhost, primary} \cup
    {Parent[s] : s \in (Listed(catalog) \cup {primary}) \cap Subdomains}
  IN [d \in Domain |-> IF catalog[d] # "absent" THEN catalog[d]
                       ELSE IF d \in implied THEN "active" ELSE "absent"]

\* normalizePrimaryDomainSelection: a domain that is not listed is none.
Selectable(value, catalog) ==
  IF value \in Listed(catalog) THEN value ELSE NoDomain

NoCatalogOp == [kind |-> "none", site |-> CHOOSE s \in Sites : TRUE,
  entries |-> [d \in Domain |-> "absent"], primary |-> NoDomain,
  name |-> NoDomain, next |-> "active", result |-> "sent"]
OpsInFlight == {i \in OpSlot : catalogOps[i].kind # "none"}
SitesInFlight ==
  {catalogOps[i].site : i \in OpsInFlight} \cup {w.site : w \in hostWrites}

\* The workspaces whose requests overlap with one that starts now.
Overlapped ==
  IF SitesInFlight = {} /\ settingsLoad = "idle" THEN {}
  ELSE SitesInFlight \cup {openSite}

Start(i, op) ==
  /\ catalogOps[i] = NoCatalogOp /\ \A j \in OpSlot : j < i => j \in OpsInFlight
  /\ catalogOps' = [catalogOps EXCEPT ![i] = op]
\* The catalog and the default that persistWorkspaceDomainSettings will write.
Rewrite(site, entries, primary) == LET next == Parsed(entries, primary) IN
  [kind |-> "persist", site |-> site, entries |-> next,
   primary |-> Selectable(primary, next), name |-> NoDomain, next |-> "active",
   result |-> "sent"]

Move == /\ domainMoves < MaxMoves /\ domainMoves' = domainMoves + 1
        /\ crossed' = crossed \cup Overlapped /\ UNCHANGED outdated
ServerUnchanged == UNCHANGED <<domainFile, hostDomain>>

-----------------------------------------------------------------------------
(* The user.                                                                 *)

\* Another workspace is opened: the drafts are reset, the settings are read
\* again, and the entries of the workspace left stay until they are there.
\* What is in flight goes on. A device without a domain is shown with
\* localhost.
OpenSite(s) ==
  /\ s # openSite /\ domainMoves < MaxMoves /\ domainMoves' = domainMoves + 1
  /\ openSite' = s /\ settingsLoad' = "asked" /\ primaryDraft' = NoDomain
  /\ attached' = IF hostDomain[s] = NoDomain THEN Localhost ELSE hostDomain[s]
  /\ crossed' = IF SitesInFlight = {} THEN crossed
                ELSE crossed \cup SitesInFlight \cup {s}
  /\ UNCHANGED <<domainEntries, sitePrimary, catalogOps, hostWrites,
                 busyDomain, outdated>>
  /\ ServerUnchanged

\* The radio button of a domain.
SelectPrimaryDomain(d) ==
  /\ Move /\ d \in Listed(domainEntries) /\ primaryDraft' = d
  /\ \E i \in OpSlot : Start(i, Rewrite(openSite, domainEntries, d))
  /\ UNCHANGED <<openSite, domainEntries, sitePrimary, attached, settingsLoad,
                 hostWrites, busyDomain>>
  /\ ServerUnchanged

\* The Remove button and the checks behind it.
Removable(d) ==
  /\ d \in Listed(domainEntries) \ {Localhost} /\ attached # d
  /\ domainEntries[d] = "disabled"
  /\ \A s \in Subdomains \cap Listed(domainEntries) : Parent[s] # d

RemoveDomain(d) == LET
  primary == IF primaryDraft = d THEN Localhost ELSE primaryDraft
  rest == [domainEntries EXCEPT ![d] = "absent"] IN
  /\ Move /\ Removable(d)
  /\ \E i \in OpSlot : Start(i, Rewrite(openSite, rest, primary))
  /\ UNCHANGED <<openSite, domainEntries, sitePrimary, primaryDraft, attached,
                 settingsLoad, hostWrites, busyDomain>>
  /\ ServerUnchanged

\* The popup adds a domain, reserved; opened from the device, it attaches it
\* without waiting for the catalog. A listed domain is attached only.
AddDomainFromPopup(d, device) == LET
  known == IF primaryDraft # NoDomain THEN primaryDraft
           ELSE IF sitePrimary # NoDomain THEN sitePrimary ELSE Localhost
  more == Parsed([domainEntries EXCEPT ![d] = "reserved"], known)
  primary == IF primaryDraft # NoDomain THEN primaryDraft ELSE d IN
  /\ Move
  /\ d \in Subdomains => Parent[d] \in Listed(domainEntries)
  /\ \/ /\ d \notin Listed(domainEntries)
        /\ \E i \in OpSlot : Start(i, Rewrite(openSite, more, primary))
     \/ /\ d \in Listed(domainEntries) /\ device
        /\ UNCHANGED catalogOps
  /\ IF device THEN /\ attached' = d
                    /\ hostWrites' = hostWrites \cup {[site |-> openSite, to |-> d]}
     ELSE UNCHANGED <<attached, hostWrites>>
  /\ UNCHANGED <<openSite, domainEntries, sitePrimary, primaryDraft,
                 settingsLoad, busyDomain>>
  /\ ServerUnchanged

\* A device is detached in the table of domains.
DetachServerDomain ==
  /\ Move /\ attached # NoDomain /\ attached' = NoDomain
  /\ hostWrites' = hostWrites \cup {[site |-> openSite, to |-> NoDomain]}
  /\ UNCHANGED <<openSite, domainEntries, sitePrimary, primaryDraft,
                 settingsLoad, catalogOps, busyDomain>>
  /\ ServerUnchanged

\* Customers reserve a name: whether it is free is asked first, and the
\* catalog that will be written is the one of this moment.
ReserveDomain(d) ==
  /\ Move /\ d \in Apexes \ Listed(domainEntries)
  /\ \A i \in OpsInFlight : catalogOps[i].kind # "reserve"
  /\ \E i \in OpSlot : Start(i,
       [kind |-> "reserve", site |-> openSite,
        entries |-> [domainEntries EXCEPT ![d] = "reserved"],
        primary |-> primaryDraft, name |-> NoDomain, next |-> "active",
        result |-> "sent"])
  /\ UNCHANGED <<openSite, domainEntries, sitePrimary, primaryDraft, attached,
                 settingsLoad, hostWrites, busyDomain>>
  /\ ServerUnchanged

\* The buttons of an order: the API is asked to move it.
TransitionStatus(d, next) ==
  /\ Move /\ d \in Listed(domainEntries) /\ busyDomain # d
  /\ next \in StatusButtons[domainEntries[d]] /\ busyDomain' = d
  /\ \E i \in OpSlot : Start(i,
       [kind |-> "status", site |-> openSite,
        entries |-> NoCatalogOp.entries, primary |-> NoDomain, name |-> d,
        next |-> next, result |-> "sent"])
  /\ UNCHANGED <<openSite, domainEntries, sitePrimary, primaryDraft, attached,
                 settingsLoad, hostWrites>>
  /\ ServerUnchanged

-----------------------------------------------------------------------------
(* The API.                                                                  *)

\* transition_domain_status takes what leads on from the status in the file.
StatusAccepted(now, next) ==
  now # "absent" /\ next \in Lifecycle[now] \cup {now}

\* Somebody else writes the file: nothing tells the page.
Elsewhere(s, d, status) ==
  /\ domainMoves < MaxMoves /\ domainMoves' = domainMoves + 1
  /\ domainFile' = [domainFile EXCEPT ![s].catalog[d] = status]
  /\ crossed' = IF \/ s = openSite /\ settingsLoad = "asked"
                   \/ \E i \in OpsInFlight : catalogOps[i].site = s
                THEN crossed \cup {s} ELSE crossed
  /\ UNCHANGED <<hostDomain, openSite, domainEntries, sitePrimary, primaryDraft,
       attached, settingsLoad, catalogOps, hostWrites, busyDomain>>

\* The order is moved on another page; only an administrator's can make it
\* active or failed.
MovedElsewhere(s, d, next) ==
  /\ StatusAccepted(domainFile[s].catalog[d], next) /\ Elsewhere(s, d, next)
  /\ outdated' = outdated \cup ({s} \cap {openSite})

\* The file is saved in the editor or by the Users tab, restored from the
\* history, or rewritten from the copy of another page.
RewrittenElsewhere(s, d, status) ==
  Elsewhere(s, d, status) /\ outdated' = outdated \cup {s}

\* The file is replaced, its other keys as they were read before.
PersistApplied(i) == LET op == catalogOps[i] IN
  /\ op.kind = "persist" /\ op.result = "sent"
  /\ domainFile' = [domainFile EXCEPT ![op.site] =
       [catalog |-> op.entries, primary |-> op.primary]]
  /\ catalogOps' = [catalogOps EXCEPT ![i].result = "done"]
  /\ UNCHANGED crossed

StatusApplied(i) == LET op == catalogOps[i]
                        now == domainFile[op.site].catalog[op.name] IN
  /\ op.kind = "status" /\ op.result = "sent"
  /\ IF StatusAccepted(now, op.next)
     THEN /\ domainFile' = [domainFile EXCEPT ![op.site].catalog[op.name] = op.next]
          /\ catalogOps' = [catalogOps EXCEPT ![i].result = "done"]
     ELSE /\ catalogOps' = [catalogOps EXCEPT ![i].result = "failed"]
          /\ UNCHANGED domainFile
  /\ UNCHANGED crossed

\* A request fails before it changed the file; a device attached to a domain
\* that was not added is not detached again.
CatalogRequestFails(i) == LET op == catalogOps[i] IN
  /\ op.kind \in {"persist", "status"} /\ op.result = "sent"
  /\ catalogOps' = [catalogOps EXCEPT ![i].result = "failed"]
  /\ UNCHANGED <<domainFile, crossed>>

ApiStep(i) ==
  /\ PersistApplied(i) \/ StatusApplied(i) \/ CatalogRequestFails(i)
  /\ UNCHANGED <<hostDomain, openSite, domainEntries, sitePrimary,
       primaryDraft, attached, settingsLoad, hostWrites, busyDomain, domainMoves,
       outdated>>

\* host_vars of the device are written; a failure is not noticed.
HostWritten(w) ==
  /\ w \in hostWrites /\ hostWrites' = hostWrites \ {w}
  /\ hostDomain' \in {hostDomain, [hostDomain EXCEPT ![w.site] = w.to]}
  /\ UNCHANGED <<domainFile, openSite, domainEntries, sitePrimary, primaryDraft,
       attached, settingsLoad, catalogOps, busyDomain, domainMoves, crossed, outdated>>

-----------------------------------------------------------------------------
(* Answers.                                                                  *)

\* The effects of new entries: the radio button follows the saved default, and
\* a device without a domain is attached to it, in host_vars too if React has
\* run the update by then.
EntriesChanged ==
  /\ primaryDraft' = Selectable(sitePrimary', domainEntries')
  /\ IF attached = NoDomain
     THEN /\ attached' = Selectable(sitePrimary', domainEntries')
          /\ \/ hostWrites' = hostWrites \cup {[site |-> openSite, to |-> attached']}
             \/ UNCHANGED hostWrites
     ELSE UNCHANGED <<attached, hostWrites>>

\* The settings of the open workspace are there; when they cannot be read the
\* page goes on with localhost alone.
SettingsLoaded == LET file == domainFile[openSite]
                      seen == Parsed(file.catalog, file.primary) IN
  /\ settingsLoad = "asked" /\ settingsLoad' = "idle"
  /\ \/ /\ domainEntries' = seen
        /\ sitePrimary' = Selectable(file.primary, seen) /\ UNCHANGED crossed
     \/ /\ domainEntries' = Parsed(NoCatalogOp.entries, Localhost)
        /\ sitePrimary' = Localhost /\ crossed' = crossed \cup {openSite}
  /\ EntriesChanged /\ outdated' = outdated \ {openSite}
  /\ UNCHANGED <<openSite, catalogOps, busyDomain, domainMoves>>
  /\ ServerUnchanged

\* The name is free, and the catalog is written as it was when it was asked
\* for, or it is not.
ReservationChecked(i) == LET op == catalogOps[i] IN
  /\ op.kind = "reserve"
  /\ catalogOps' =
       [catalogOps EXCEPT ![i] = Rewrite(op.site, op.entries, op.primary)]
  /\ UNCHANGED <<openSite, domainEntries, sitePrimary, primaryDraft, attached,
       settingsLoad, hostWrites, busyDomain, domainMoves, crossed, outdated>>
  /\ ServerUnchanged
NameTaken(i) ==
  /\ catalogOps[i].kind = "reserve"
  /\ catalogOps' = [catalogOps EXCEPT ![i] = NoCatalogOp]
  /\ UNCHANGED <<openSite, domainEntries, sitePrimary, primaryDraft, attached,
       settingsLoad, hostWrites, busyDomain, domainMoves, crossed, outdated>>
  /\ ServerUnchanged

\* The answer of the API changes the entries of the workspace that is open;
\* after a write of the whole list they are what the file has.
CatalogAnswered(i) == LET op == catalogOps[i] IN
  /\ op.kind \in {"persist", "status"} /\ op.result = "done"
  /\ catalogOps' = [catalogOps EXCEPT ![i] = NoCatalogOp]
  /\ IF op.kind = "persist"
     THEN /\ domainEntries' = op.entries /\ sitePrimary' = op.primary
          /\ outdated' = outdated \ {op.site} /\ UNCHANGED busyDomain
     ELSE /\ domainEntries' = [domainEntries EXCEPT ![op.name] =
                IF @ = "absent" THEN @ ELSE op.next]
          /\ busyDomain' = NoDomain /\ UNCHANGED <<sitePrimary, outdated>>
  /\ EntriesChanged
  /\ UNCHANGED <<openSite, settingsLoad, domainMoves, crossed>> /\ ServerUnchanged

\* An error, or an answer that is lost, leaves the page as it is, the radio
\* button on what the user chose.
CatalogRefused(i) == LET op == catalogOps[i] IN
  /\ op.kind \in {"persist", "status"} /\ op.result \in {"failed", "done"}
  /\ catalogOps' = [catalogOps EXCEPT ![i] = NoCatalogOp]
  /\ busyDomain' = IF op.kind = "status" THEN NoDomain ELSE busyDomain
  /\ crossed' = IF op.result = "done" THEN crossed \cup {op.site} ELSE crossed
  /\ UNCHANGED <<openSite, domainEntries, sitePrimary, primaryDraft, attached,
       settingsLoad, hostWrites, domainMoves, outdated>>
  /\ ServerUnchanged

-----------------------------------------------------------------------------
HomeSite == CHOOSE s \in Sites : TRUE
OwnApex == CHOOSE a \in Apexes : TRUE
Listing(status, sub, primary) == [primary |-> primary, catalog |->
  [d \in Domain |-> IF d = Localhost THEN "active" ELSE IF d = OwnApex THEN status
                    ELSE IF d \in Subdomains THEN sub ELSE "absent"]]

DomainsInit ==
  /\ \E status \in {"reserved", "active", "disabled"},
        sub \in {"absent", "reserved"}, primary \in {Localhost, OwnApex} :
       /\ domainFile = [s \in Sites |-> IF s = HomeSite
            THEN Listing(status, sub, primary)
            ELSE Listing("absent", "absent", Localhost)]
       /\ hostDomain = [s \in Sites |-> IF s = HomeSite THEN primary ELSE Localhost]
  /\ openSite = HomeSite /\ domainEntries = domainFile[HomeSite].catalog
  /\ sitePrimary = domainFile[HomeSite].primary /\ primaryDraft = sitePrimary
  /\ attached = hostDomain[HomeSite] /\ settingsLoad = "idle"
  /\ catalogOps = [i \in OpSlot |-> NoCatalogOp] /\ hostWrites = {}
  /\ busyDomain = NoDomain /\ domainMoves = 0 /\ crossed = {} /\ outdated = {}

DomainsNext ==
  \/ \E s \in Sites : OpenSite(s)
  \/ \E d \in Domain : \/ SelectPrimaryDomain(d) \/ RemoveDomain(d)
                       \/ \E device \in BOOLEAN : AddDomainFromPopup(d, device)
                       \/ ReserveDomain(d)
                       \/ \E next \in OrderStatus : TransitionStatus(d, next)
  \/ DetachServerDomain \/ SettingsLoaded
  \/ \E i \in OpSlot : \/ ApiStep(i) \/ ReservationChecked(i) \/ NameTaken(i)
                       \/ CatalogAnswered(i) \/ CatalogRefused(i)
  \/ \E w \in hostWrites : HostWritten(w)
  \/ \E s \in Sites, d \in Domain \ {Localhost} :
       \/ \E next \in OrderStatus : MovedElsewhere(s, d, next)
       \/ \E status \in OrderStatus \cup {"absent"} : RewrittenElsewhere(s, d, status)

DomainsSpec == DomainsInit /\ [][DomainsNext]_domainsVars

-----------------------------------------------------------------------------
\* The status of a domain moves along the life cycle of an order and no other
\* way (ALLOWED_TRANSITIONS, domains.py), though the page rewrites the whole
\* list from its copy; except where requests of a workspace overlapped, an
\* answer was lost, its settings could not be read, or the list was changed
\* elsewhere since the page read it: the page then takes an active domain back
\* to ordered. The copy is good again when the page has read the list or its
\* own write of the whole list is answered.
StatusFollowsOrder ==
  [][\A s \in Sites \ (crossed' \cup outdated'), d \in Domain :
       LET was == domainFile[s].catalog[d]
           is == domainFile'[s].catalog[d]
       IN "absent" \notin {was, is} => is \in Lifecycle[was] \cup {was}]_domainsVars
=============================================================================
