----------------------------- MODULE SavedSites -----------------------------
(***************************************************************************)
(* The saved sites of freescp-app (src/site_manager.rs): the sites file,   *)
(* the credentials kept beside it (src/secrets.rs: the keyring, the        *)
(* keyring service of the program's predecessor, the plain fallback file), *)
(* the Site Manager dialog that edits both (its table, the site editor and *)
(* the editor's list of alternate routes), and the site a quick connect    *)
(* saves (src/connect.rs).  Every handler runs on the UI thread, so each   *)
(* is one step; the keyring may come and go, and the program may die while *)
(* it writes the sites file.                                               *)
(*                                                                         *)
(* A site keeps its id, name, host (standing for the endpoint and the      *)
(* protocol) and alternate routes; the key passphrase is handled like the  *)
(* password and left out; names are compared as they are written.          *)
(***************************************************************************)
EXTENDS Naturals, Sequences, FiniteSets, SequencesExt, Subsequences

CONSTANTS
  SiteFiles,     \* the sites files the program may start with
  Vaults,        \* the keyring contents it may start with
  PrefChoices,   \* the preferences it may run with
  NameOrder,     \* every site name, in alphabetical order
  SiteHosts,     \* the hosts a user types, each also a site's default name
  SiteIds,       \* bound: the ids new_site_id may mint, and those of the file
  SiteAliases,   \* the hosts named in ~/.ssh/config, as a sequence
  RouteLabels,   \* the labels of alternate routes
  MaxRouteRows,  \* bound: routes in the editor
  MaxSiteSteps,  \* bound: what the user does
  MaxOutages,    \* bound: times the keyring comes or goes
  MaxTears       \* bound: crashes while the sites file is written

NoText == ""
NoId == NoText
SiteNames == {NameOrder[i] : i \in DOMAIN NameOrder}
Items == {"password", "proxypass"}
Typed == {NoText, "typed"}
SecretValues == Typed \cup {"old"}

VARIABLES
  sitesFile,  \* [torn, list]: sites.toml; a torn file does not parse
  vault,      \* [up, ring, legacy, plain]: where secrets are kept
  sitePrefs,  \* [deleteSecrets, fallback]: the preferences the code asks
  table,      \* [rows, row, ascending]: the dialog's list and its selection
  editor,     \* the site editor and its route sub-editor
  hostKeys,   \* the hosts with an entry in known_hosts
  minted,     \* the ids in use, or once in use
  given,      \* history: what the user last saved for a site, by id
  steady,     \* history: the keyring never went away and no write was cut
  steps

siteVars == <<sitesFile, vault, sitePrefs, table, editor, hostKeys, minted,
              given, steady, steps>>

SiteKeys == {<<"site-id", i, item>> : i \in SiteIds \cup {NoId}, item \in Items}
              \cup {<<"site", n, item>> : n \in SiteNames, item \in Items}
VaultType == [up : BOOLEAN, ring : [SiteKeys -> SecretValues],
              legacy : [SiteKeys -> SecretValues], plain : [SiteKeys -> SecretValues]]
SiteRecords == [id : SiteIds \cup {NoId}, name : SiteNames, host : SiteHosts \cup {NoText},
          routes : Seq([label : RouteLabels \cup SiteNames, host : SiteHosts])]
\* Names are one site's each, and ids, where there are any.
SitesApart(list) ==
  \A i, j \in DOMAIN list :
    i # j => list[i].name # list[j].name
             /\ (list[i].id = list[j].id => list[i].id = NoId)

ASSUME SitesAssumption ==
  /\ NoId \notin SiteIds
  /\ SiteHosts \subseteq SiteNames /\ SiteAliases \in Seq(SiteHosts) /\ NameOrder \in Seq(SiteNames)
  /\ \A list \in SiteFiles : list \in Seq(SiteRecords) /\ SitesApart(list)
  /\ Vaults \subseteq VaultType
  /\ MaxSiteSteps \in Nat

IdKey(id, item) == <<"site-id", id, item>>
NameKey(name, item) == <<"site", name, item>>

-----------------------------------------------------------------------------
(* secrets.rs *)

FallbackAllowed == sitePrefs.fallback
PlainGet(v, key) == v.plain[key]
PlainStore(v, key, value) == [v EXCEPT !.plain[key] = value]
FallbackOrErr(v, key, value) ==
  IF FallbackAllowed THEN PlainStore(v, key, value) ELSE v

\* get_secret_primary: the keyring, or the fallback file while it is away.
PrimarySecret(v, key) == IF v.up THEN v.ring[key]
                   ELSE IF FallbackAllowed THEN PlainGet(v, key) ELSE NoText
\* legacy_get_secret: the predecessor's service lives in the same keyring.
OldSecret(v, key) == IF v.up THEN v.legacy[key] ELSE NoText
GetSecret(v, key) ==
  IF PrimarySecret(v, key) # NoText THEN PrimarySecret(v, key) ELSE OldSecret(v, key)

\* set_secret: a secret that cannot be stored is reported and left as it was.
SetSecret(v, key, value) ==
  IF v.up THEN [PlainStore(v, key, NoText) EXCEPT !.ring[key] = value]
  ELSE FallbackOrErr(v, key, value)
RemoveSecret(v, key) ==
  [PlainStore(v, key, NoText) EXCEPT !.ring[key] = IF v.up THEN NoText ELSE @]
RemoveSecrets(v, keys) ==
  [v EXCEPT !.ring = [k \in SiteKeys |-> IF v.up /\ k \in keys THEN NoText ELSE @[k]],
            !.plain = [k \in SiteKeys |-> IF k \in keys THEN NoText ELSE @[k]]]

\* What reading secrets does to the vault: those found only in the
\* predecessor's service are copied over.
Migrated(v, keys) ==
  LET found == {k \in keys : PrimarySecret(v, k) = NoText /\ OldSecret(v, k) # NoText} IN
  [v EXCEPT !.ring = [k \in SiteKeys |-> IF k \in found THEN v.legacy[k] ELSE v.ring[k]],
            !.plain = [k \in SiteKeys |-> IF k \in found THEN NoText ELSE v.plain[k]]]

\* Mutant: the name's secret is preferred to the id's.
SiteSecretByName(v, s, item) ==
  IF GetSecret(v, NameKey(s.name, item)) # NoText THEN GetSecret(v, NameKey(s.name, item))
  ELSE GetSecret(v, IdKey(s.id, item))
\* get_site_secret: by the site's id, else by its name.
SiteSecret(v, s, item) ==
  IF GetSecret(v, IdKey(s.id, item)) # NoText THEN GetSecret(v, IdKey(s.id, item))
  ELSE GetSecret(v, NameKey(s.name, item))
\* The keys it reads: by name what there is not by id.
Looked(v, s) ==
  {IdKey(s.id, item) : item \in Items}
    \cup {NameKey(s.name, item) :
            item \in {it \in Items : GetSecret(v, IdKey(s.id, it)) = NoText}}

-----------------------------------------------------------------------------
(* sites.toml *)

\* load_sites_file: a file that does not parse is an empty list.
SiteList == IF sitesFile.torn THEN <<>> ELSE sitesFile.list

\* load_sites reads every site's secrets, so it migrates what it finds.
LoadSites(v, list) == Migrated(v, UNION {Looked(v, list[i]) : i \in DOMAIN list})

SiteAt(list, name) == SelectInSeq(list, LAMBDA s : s.name = name)
SiteWithId(list, id) == SelectInSeq(list, LAMBDA s : s.id = id)
NewSiteId(used) == CHOOSE id \in SiteIds : id \notin used

\* entry_from_options: what a save makes of the options, whatever routes
\* they carry.
EntryFromOptions(id, name, opt) ==
  [id |-> id, name |-> name, host |-> opt.host, routes |-> <<>>]
\* save_site_inner up to save_sites_file: the entry edited, else the one of
\* that name, else a new one.
Saved(list, name, opt, existing) ==
  LET at == IF existing # NoId /\ SiteWithId(list, existing) # 0
            THEN SiteWithId(list, existing) ELSE SiteAt(list, name)
      id == IF at # 0 /\ list[at].id # NoId THEN list[at].id ELSE NewSiteId(minted)
      entry == EntryFromOptions(id, name, opt)
  IN [list |-> IF at # 0 THEN [list EXCEPT ![at] = entry] ELSE Append(list, entry),
      id |-> id]

\* ... and its second half, persist_secret and remove_secret_item: an empty
\* password stays as it was, an empty proxy password is removed.
Persisted(v, id, opt) ==
  LET w == IF opt.password = NoText THEN v ELSE SetSecret(v, IdKey(id, "password"), opt.password)
  IN IF opt.proxypass = NoText THEN RemoveSecret(w, IdKey(id, "proxypass"))
     ELSE SetSecret(w, IdKey(id, "proxypass"), opt.proxypass)

\* Mutant: the site's id names what is deleted.
WithoutItsId(list, name) ==
  LET ids == {list[i].id : i \in {j \in DOMAIN list : list[j].name = name}}
  IN Keep(list, {i \in DOMAIN list : list[i].id \notin ids})

\* delete_site.
Without(list, name) == Keep(list, {i \in DOMAIN list : list[i].name # name})
\* An alias is its site's name and host.
AliasSite(id, alias) == [id |-> id, name |-> alias, host |-> alias, routes |-> <<>>]
\* upsert_imported_sites over ssh_alias_to_site: existing names win, the
\* other aliases get ids of their own.
NewAliases(list) ==
  Keep(SiteAliases, {k \in DOMAIN SiteAliases :
                       /\ SiteAt(list, SiteAliases[k]) = 0
                       /\ \A j \in 1..(k - 1) : SiteAliases[j] # SiteAliases[k]})
NewSiteIds(list) ==
  {ids \in [DOMAIN NewAliases(list) -> SiteIds \ minted] : IsInjective(ids)}
Imported(list) ==
  LET ids == CHOOSE f \in NewSiteIds(list) : TRUE IN
  [list |-> list \o [n \in DOMAIN NewAliases(list) |-> AliasSite(ids[n], NewAliases(list)[n])],
   used |-> minted \cup {ids[n] : n \in DOMAIN ids}]

-----------------------------------------------------------------------------
(* The table. *)

NameRank(name) == CHOOSE i \in DOMAIN NameOrder : NameOrder[i] = name
SortedRows(list, ascending) ==
  LET rank(i) == NameRank(list[i].name)
      order == {p \in (DOMAIN list) \X (DOMAIN list) :
                  IF rank(p[1]) = rank(p[2]) THEN p[1] <= p[2]
                  ELSE ascending <=> rank(p[1]) < rank(p[2])}
      row(s) == [id |-> s.id, name |-> s.name]
  IN [n \in DOMAIN list |-> row(list[Ordered(DOMAIN list, order)[n]])]

SelectedId == table.rows[table.row].id
RowWithId(rows, id) == SelectInSeq(rows, LAMBDA r : r.id = id)

\* Mutant: the selection stays where it was in the list.
RefreshedInPlace(list, ascending) ==
  [rows |-> SortedRows(list, ascending), ascending |-> ascending, row |-> table.row]
\* refresh_rows: the rows again, and the selection restored by its id.
Refreshed(list, ascending) ==
  LET rows == SortedRows(list, ascending) IN
  [rows |-> rows, ascending |-> ascending,
   row |-> IF table.row = 0 THEN 0
           ELSE RowWithId(rows, SelectedId)]

-----------------------------------------------------------------------------
(* The editor. *)

ClosedEditor == [open |-> FALSE, isAdd |-> FALSE, id |-> NoId, name |-> NoText,
                 host |-> NoText, password |-> NoText, proxypass |-> NoText, routes |-> <<>>,
                 sub |-> "closed", editing |-> 0, merge |-> FALSE]
BlankEditor == [ClosedEditor EXCEPT !.open = TRUE, !.editing = editor.editing]
Populated(s) ==
  [BlankEditor EXCEPT !.id = s.id, !.name = s.name, !.host = s.host,
                      !.password = SiteSecret(vault, s, "password"),
                      !.proxypass = SiteSecret(vault, s, "proxypass"),
                      !.routes = s.routes]
RouteRow(label, host) == [label |-> label, host |-> host]
RouteFromSite(s) == RouteRow(s.name, s.host)
HasLabel(routes, label, but) ==
  \E i \in DOMAIN routes : i # but /\ routes[i].label = label

\* The options the editor's fields make: a jump host leaves no proxy, and
\* so no proxy password.
EditorOptions(host, password, proxypass, jump) ==
  [host |-> host, password |-> password,
   proxypass |-> IF jump THEN NoText ELSE proxypass, routes |-> editor.routes]

Acts == steps < MaxSiteSteps /\ steps' = steps + 1
Gave(id, opt) == [i \in (DOMAIN given) \cup {id} |-> IF i = id THEN opt ELSE given[i]]
KeepSites == UNCHANGED <<sitesFile, sitePrefs, hostKeys, minted, given, steady>>

-----------------------------------------------------------------------------
SitesInit ==
  /\ sitesFile \in [torn : {FALSE}, list : SiteFiles]
  /\ vault \in Vaults
  /\ sitePrefs \in PrefChoices
  /\ table = [rows |-> SortedRows(sitesFile.list, TRUE), row |-> 0, ascending |-> TRUE]
  /\ editor = ClosedEditor
  /\ hostKeys = SiteHosts
  /\ minted = {sitesFile.list[i].id : i \in DOMAIN sitesFile.list} \ {NoId}
  /\ given = <<>>
  /\ steady = vault.up
  /\ steps = 0

SelectRow(i) ==
  /\ Acts
  /\ table' = [table EXCEPT !.row = i]
  /\ vault' = LoadSites(vault, SiteList)
  /\ UNCHANGED editor /\ KeepSites

SortRequested ==
  /\ Acts
  /\ table' = Refreshed(SiteList, ~table.ascending)
  /\ vault' = LoadSites(vault, SiteList)
  /\ UNCHANGED editor /\ KeepSites

NewRequested ==
  /\ Acts
  /\ editor' = [BlankEditor EXCEPT !.isAdd = TRUE]
  /\ UNCHANGED <<vault, table>> /\ KeepSites

\* A row whose site is gone opens an empty editor.
EditRequested ==
  /\ table.row # 0 /\ Acts
  /\ LET at == SiteAt(SiteList, table.rows[table.row].name) IN
     editor' = IF at = 0 THEN BlankEditor ELSE Populated(SiteList[at])
  /\ vault' = LoadSites(vault, SiteList)
  /\ UNCHANGED table /\ KeepSites

RouteAddRequested ==
  /\ editor.open /\ Acts
  /\ editor' = [editor EXCEPT !.sub = "add"]
  /\ UNCHANGED <<vault, table>> /\ KeepSites

RouteEditRequested(i) ==
  /\ editor.open /\ Acts
  /\ editor' = [editor EXCEPT !.sub = "edit", !.editing = i]
  /\ UNCHANGED <<vault, table>> /\ KeepSites

RouteRemoveRequested(i) ==
  /\ editor.open /\ Acts
  /\ editor' = [editor EXCEPT !.routes = RemoveAt(@, i)]
  /\ UNCHANGED <<vault, table>> /\ KeepSites

\* The label must be new among the others; a row that is gone is added again.
RouteSaveRequested(label, host) ==
  /\ editor.open /\ editor.sub # "closed" /\ Acts
  /\ LET at == IF editor.sub = "edit" /\ editor.editing \in DOMAIN editor.routes
               THEN editor.editing ELSE 0
     IN /\ ~HasLabel(editor.routes, label, at)
        /\ at = 0 => Len(editor.routes) < MaxRouteRows
        /\ editor' = [editor EXCEPT
             !.routes = IF at = 0 THEN Append(@, RouteRow(label, host))
                        ELSE [@ EXCEPT ![at] = RouteRow(label, host)],
             !.sub = "closed", !.editing = 0]
  /\ UNCHANGED <<vault, table>> /\ KeepSites

RouteEditorCancelled ==
  /\ editor.open /\ editor.sub # "closed" /\ Acts
  /\ editor' = [editor EXCEPT !.sub = "closed", !.editing = 0]
  /\ UNCHANGED <<vault, table>> /\ KeepSites

MergeOpenRequested ==
  /\ editor.open /\ Acts
  /\ \E i \in DOMAIN SiteList : SiteList[i].id # editor.id
  /\ editor' = [editor EXCEPT !.merge = TRUE]
  /\ vault' = LoadSites(vault, SiteList)
  /\ UNCHANGED table /\ KeepSites

MergeCancelled ==
  /\ editor.open /\ editor.merge /\ Acts
  /\ editor' = [editor EXCEPT !.merge = FALSE]
  /\ UNCHANGED <<vault, table>> /\ KeepSites

\* remove_site_known_hosts: by host, though another site may share it.
HostKeysWithout(gone) == hostKeys \ {s.host : s \in gone}

\* What deleting a site takes with it.
Deleted(name) ==
  LET gone == {SiteList[i] : i \in {j \in DOMAIN SiteList : SiteList[j].name = name}}
      keys == {IdKey(s.id, item) : s \in gone, item \in Items}
                \cup {NameKey(name, item) : item \in Items}
      without == IF sitePrefs.deleteSecrets THEN RemoveSecrets(vault, keys) ELSE vault
  IN /\ sitesFile' = [torn |-> FALSE, list |-> Without(SiteList, name)]
     /\ vault' = LoadSites(without, Without(SiteList, name))
     /\ table' = Refreshed(Without(SiteList, name), table.ascending)
     /\ hostKeys' = IF sitePrefs.deleteSecrets THEN HostKeysWithout(gone) ELSE hostKeys

\* The endpoint is copied as a route, and its site deleted if so asked (a
\* second copy of one name, which gets a label of its own, is left out).
MergeConfirmed(name, delete) ==
  LET source == SiteAt(SiteList, name) IN
  /\ editor.open /\ editor.merge /\ source # 0 /\ Acts
  /\ SiteList[source].id # editor.id
  /\ Len(editor.routes) < MaxRouteRows /\ ~HasLabel(editor.routes, name, 0)
  /\ editor' = [editor EXCEPT !.merge = FALSE,
                  !.routes = Append(@, RouteFromSite(SiteList[source]))]
  /\ IF delete THEN Deleted(name) /\ UNCHANGED <<sitePrefs, minted, given, steady>>
     ELSE vault' = LoadSites(vault, SiteList) /\ UNCHANGED table /\ KeepSites

DeleteRequested ==
  /\ table.row # 0 /\ Acts
  /\ SiteAt(SiteList, table.rows[table.row].name) # 0
  /\ Deleted(table.rows[table.row].name)
  /\ editor' = [editor EXCEPT !.open = FALSE]
  /\ UNCHANGED <<sitePrefs, minted, given, steady>>

ImportRequested ==
  LET new == Imported(SiteList) IN
  /\ Acts /\ NewSiteIds(SiteList) # {}
  /\ sitesFile' = IF new.list = SiteList THEN sitesFile
                  ELSE [torn |-> FALSE, list |-> new.list]
  /\ minted' = new.used
  /\ vault' = LoadSites(vault, new.list)
  /\ table' = Refreshed(new.list, table.ascending)
  /\ UNCHANGED <<editor, sitePrefs, hostKeys, given, steady>>

\* auto_site_name: an empty name is made of the user and host when adding.
AutoName(typed, host) == IF typed = NoText /\ editor.isAdd THEN host ELSE typed

\* Saving fails when the name is another site's.
DuplicateName(name) ==
  \E i \in DOMAIN SiteList : SiteList[i].name = name
                             /\ (editor.id # NoId => SiteList[i].id # editor.id)

SaveRefused(name) ==
  /\ editor.open /\ Acts
  /\ DuplicateName(name)
  /\ vault' = LoadSites(vault, SiteList)
  /\ UNCHANGED <<table, editor>> /\ KeepSites

\* A rename drops the secrets kept under the old name.
SaveRequested(typed, host, password, proxypass, jump) ==
  LET name == AutoName(typed, host)
      opt == EditorOptions(host, password, proxypass, jump)
      new == Saved(SiteList, name, opt, editor.id)
      old == IF editor.id = NoId THEN 0 ELSE SiteWithId(SiteList, editor.id)
      renamed == IF old # 0 /\ SiteList[old].name # name
                 THEN {NameKey(SiteList[old].name, item) : item \in Items} ELSE {}
      stored == RemoveSecrets(Persisted(LoadSites(vault, SiteList), new.id, opt), renamed)
  IN /\ editor.open /\ Acts /\ minted # SiteIds
     /\ name # NoText /\ ~DuplicateName(name)
     /\ sitesFile' = [torn |-> FALSE, list |-> new.list]
     /\ vault' = LoadSites(stored, new.list)
     /\ minted' = minted \cup {new.id}
     /\ table' = LET t == Refreshed(new.list, table.ascending) IN
                 IF editor.id = NoId THEN t
                 ELSE [t EXCEPT !.row = RowWithId(t.rows, new.id)]
     /\ editor' = [editor EXCEPT !.open = FALSE]
     /\ given' = Gave(new.id, opt)
     /\ UNCHANGED <<sitePrefs, hostKeys, steady>>

SameSavedSite(s, opt) == s.host = opt.host
DefaultQuickSiteName(opt) == opt.host

\* maybe_persist_site: an endpoint saved under another name is not saved
\* again; the table is not told.
QuickSaves(typed, host, password) ==
  LET opt == [host |-> host, password |-> password, proxypass |-> NoText, routes |-> <<>>]
      name == IF typed = NoText THEN DefaultQuickSiteName(opt) ELSE typed
      new == Saved(SiteList, name, opt, NoId)
  IN /\ Acts /\ minted # SiteIds
     /\ ~\E i \in DOMAIN SiteList : SiteList[i].name # name /\ SameSavedSite(SiteList[i], opt)
     /\ sitesFile' = [torn |-> FALSE, list |-> new.list]
     /\ vault' = Persisted(LoadSites(vault, SiteList), new.id, opt)
     /\ minted' = minted \cup {new.id}
     /\ given' = Gave(new.id, opt)
     /\ UNCHANGED <<table, editor, sitePrefs, hostKeys, steady>>

\* Connecting reads the site's secrets and closes the dialog; the next one
\* opened starts afresh.
ConnectRequested ==
  /\ table.row # 0 /\ Acts
  /\ vault' = LoadSites(vault, SiteList)
  /\ table' = [rows |-> SortedRows(SiteList, TRUE), row |-> 0, ascending |-> TRUE]
  /\ editor' = ClosedEditor
  /\ KeepSites

KeyringTurns ==
  /\ MaxOutages > 0
  /\ steady
  /\ vault' = [vault EXCEPT !.up = ~@]
  /\ steady' = FALSE
  /\ UNCHANGED <<sitesFile, sitePrefs, table, editor, hostKeys, minted, given, steps>>

\* The program dies between truncating and writing the file.
DiesWriting ==
  /\ MaxTears > 0
  /\ steady
  /\ sitesFile' = [sitesFile EXCEPT !.torn = TRUE]
  /\ table' = [rows |-> <<>>, row |-> 0, ascending |-> TRUE]
  /\ editor' = ClosedEditor
  /\ steady' = FALSE
  /\ UNCHANGED <<vault, sitePrefs, hostKeys, minted, given, steps>>

RouteClicks ==
  \/ RouteAddRequested
  \/ \E i \in DOMAIN editor.routes : RouteEditRequested(i) \/ RouteRemoveRequested(i)
  \/ \E label \in RouteLabels, host \in SiteHosts : RouteSaveRequested(label, host)
  \/ RouteEditorCancelled
  \/ MergeOpenRequested
  \/ MergeCancelled
  \/ \E name \in SiteNames, delete \in BOOLEAN : MergeConfirmed(name, delete)

SitesNext ==
  \/ \E i \in DOMAIN table.rows : SelectRow(i)
  \/ SortRequested
  \/ NewRequested
  \/ EditRequested
  \/ RouteClicks
  \/ DeleteRequested
  \/ ImportRequested
  \/ \E name \in SiteNames : SaveRefused(name)
  \/ \E name \in SiteNames \cup {NoText}, password \in Typed \cup {editor.password},
        proxypass \in Typed \cup {editor.proxypass}, jump \in BOOLEAN,
        host \in (IF editor.isAdd THEN SiteHosts ELSE {editor.host}) :
       SaveRequested(name, host, password, proxypass, jump)
  \/ \E name \in SiteNames \cup {NoText}, host \in SiteHosts, password \in Typed :
       QuickSaves(name, host, password)
  \/ ConnectRequested
  \/ KeyringTurns
  \/ DiesWriting

SitesSpec == SitesInit /\ [][SitesNext]_siteVars

-----------------------------------------------------------------------------
SitesTypeOK ==
  /\ sitesFile.list \in Seq(SiteRecords) /\ sitesFile.torn \in BOOLEAN
  /\ vault \in VaultType
  /\ table.row \in 0..Len(table.rows)
  /\ editor.sub \in {"closed", "add", "edit"}
  /\ DOMAIN given \subseteq minted /\ minted \subseteq SiteIds
  /\ hostKeys \subseteq SiteHosts /\ steady \in BOOLEAN /\ steps \in 0..MaxSiteSteps

\* While the keyring stays and no write is cut, a site connects with the
\* password the user last saved for it, whatever was renamed, imported,
\* migrated or deleted meanwhile (get_site_secret over save_site_inner,
\* delete_site and the migration).
LastSavedIsUsed ==
  steady => \A i \in DOMAIN SiteList :
    LET s == SiteList[i] IN
    (s.id \in DOMAIN given /\ given[s.id].password # NoText) =>
      SiteSecret(vault, s, "password") = given[s.id].password

\* A save, an import, a merge or a deletion changes or removes at most one
\* saved site, and ids and names stay theirs alone: the others are what
\* they were (save_site_inner, delete_site, upsert_imported_sites).
OneSiteAtATime ==
  [][~sitesFile'.torn /\ ~sitesFile.torn =>
       LET kept == {i \in DOMAIN sitesFile.list :
                      \E j \in DOMAIN sitesFile'.list :
                        sitesFile'.list[j] = sitesFile.list[i]}
       IN \A i, j \in DOMAIN sitesFile.list : i \notin kept /\ j \notin kept => i = j
    ]_siteVars

\* Alternate routes are added by editing the saved site in the manager
\* (entry_from_options's comment): what the editor showed is what is saved.
RoutesAreSaved ==
  \A i \in DOMAIN SiteList :
    SiteList[i].id \in DOMAIN given =>
      SiteList[i].routes = given[SiteList[i].id].routes
=============================================================================
