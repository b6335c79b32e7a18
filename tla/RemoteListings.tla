--------------------------- MODULE RemoteListings ---------------------------
(***************************************************************************)
(* How a directory listing is read from the server's answer: FTP's MLSD,   *)
(* its fallback to LIST in two dialects (freescp-core/src/backends/ftp.rs, *)
(* list_impl and the parsers under it), and WebDAV's PROPFIND (webdav.rs,  *)
(* parse_propfind_response and list).  The directory has some entries; the *)
(* server describes them in any of the forms the parsers distinguish, and  *)
(* may leave lines no parser reads.                                        *)
(***************************************************************************)
EXTENDS Naturals, Sequences, SequencesExt, FiniteSets, Subsequences

CONSTANT Entries0         \* the entries a directory may have

Dots == {".", ".."}
ASSUME EntriesAssumption == IsFiniteSet(Entries0) /\ Entries0 \cap Dots = {}

VARIABLES listed,         \* [by, has, dirs]: the protocol, the entries, which are directories
          answers,        \* what the server answers: the primary reply and the fallback
          listing         \* what the call returns

listingVars == <<listed, answers, listing>>

Entry(n) == [name |-> n, isDir |-> n \in listed.dirs]
Uncalled == [is |-> "uncalled", entries |-> <<>>]
Failed == [is |-> "failed", entries |-> <<>>]
Returned(entries) == [is |-> "ok", entries |-> entries]

(***************************************************************************)
(* Answers.  A line describes an entry in some style, or is one of the     *)
(* lines around the entries.                                               *)
(***************************************************************************)
Line(style, n) == [style |-> style, name |-> n]
Refused == <<Line("refused", "")>>
Missing == <<Line("missing", "")>>      \* 404
\* facts with and without a type; "." and ".." as names and as cdir, pdir
MlsdStyles == {"facts", "untyped"}
MlsdNoise == {Line("blank", ""), Line("facts", "."), Line("cdir", ".")}
\* ls lines that the library's parser reads, that only the own parser reads, DOS lines
\* with a size or <DIR>, and lines nobody reads
ListStyles == {"ls", "oddLs", "dos", "junk"}
ListNoise == {Line("blank", ""), Line("total", ""), Line("oddLs", "."), Line("dos", "..")}

Answers(styles, noise) ==
    LET s == SetToSeq(listed.has)
        described == {[i \in 1..Len(s) |-> Line(f[i], s[i])] : f \in [1..Len(s) -> styles]}
        beside == {<<>>} \cup {<<l>> : l \in noise}
    IN  {Refused} \cup {a[1] \o a[2] : a \in described \X beside}

\* a response names its path in some form of href, and says what it is in its
\* propstats or by a slash at the end; the directory itself and paths below its
\* children may be among the responses, and a child may be described twice
Hrefs == {"child", "self", "below"}
Response(href, n, slash, status, collection) ==
    [href |-> href, name |-> n, slash |-> slash, status |-> status, collection |-> collection]
Responses(n) ==
    { r \in [href : {"child"}, name : {n}, slash : BOOLEAN, status : {200, 404}, collection : BOOLEAN] :
        /\ r.slash => n \in listed.dirs
        /\ r.collection = (n \in listed.dirs /\ ~r.slash) }
DavAnswers0 ==
    LET s == SetToSeq(listed.has)
        all == UNION {Responses(n) : n \in listed.has}
        described == {f \in [1..Len(s) -> all] : \A i \in 1..Len(s) : f[i] \in Responses(s[i])}
        beside == {<<>>, <<Response("self", "", TRUE, 200, TRUE)>>} \cup {<<r>> : r \in all}
                  \cup {<<Response("below", n, FALSE, 200, FALSE)>> : n \in listed.dirs}
    IN  {Refused, Missing} \cup {a[1] \o a[2] : a \in described \X beside}

ListingInit ==
    /\ listed \in [by : {"ftp", "webdav"}, has : SUBSET Entries0, dirs : SUBSET Entries0]
    /\ listed.dirs \subseteq listed.has
    /\ answers \in IF listed.by = "ftp"
                     THEN Answers(MlsdStyles, MlsdNoise) \X Answers(ListStyles, ListNoise)
                     ELSE DavAnswers0 \X {Refused}
    /\ listing = Uncalled

ListingTypeOK ==
    /\ listing.is \in {"uncalled", "failed", "ok"}
    /\ \A i \in DOMAIN listing.entries : listing.entries[i] \in [name : Entries0, isDir : BOOLEAN]

(***************************************************************************)
(* The parsers: each returns what it makes of a line.                      *)
(***************************************************************************)
Emitted(l) == [is |-> "emitted", entry |-> Entry(l.name)]
Skipped == [is |-> "skipped"]
Unread == [is |-> "failed"]

\* a line without a type fact fails, and with it the whole MLSD answer
ParseMlsdLine(l) ==
    CASE l.style = "blank" \/ l.name \in Dots \/ l.style = "cdir" -> Skipped
      [] l.style = "untyped" /\ l.name \notin Dots -> Unread
      [] OTHER -> Emitted(l)

ParseUnixListLine(l) ==
    IF l.style \notin {"ls", "oddLs"} THEN Unread ELSE IF l.name \in Dots THEN Skipped ELSE Emitted(l)

ParseDosListLine(l) ==
    IF l.style # "dos" THEN Unread ELSE IF l.name \in Dots THEN Skipped ELSE Emitted(l)

\* the library's parser, which reads the ls lines it knows
SuppaftpLine(l) == IF l.style = "ls" THEN Emitted(l) ELSE Unread

\* blank lines and the total are passed over; the first parser that reads another
\* line decides
ParseListLine(l) ==
    LET outcomes == <<SuppaftpLine(l), ParseUnixListLine(l), ParseDosListLine(l)>>
        reads == {i \in 1..3 : outcomes[i].is # "failed"}
    IN  IF l.style \in {"blank", "total"} THEN Skipped
        ELSE IF reads = {} THEN Unread ELSE outcomes[CHOOSE i \in reads : \A j \in reads : i <= j]

EntriesOf(outcomes) ==
    LET shown == Keep(outcomes, {i \in DOMAIN outcomes : outcomes[i].is = "emitted"})
    IN  [i \in DOMAIN shown |-> shown[i].entry]
Some(outcomes, is) == \E i \in DOMAIN outcomes : outcomes[i].is = is

\* all or nothing
ParseMlsd(lines) ==
    LET outcomes == [i \in DOMAIN lines |-> ParseMlsdLine(lines[i])]
    IN  IF Some(outcomes, "failed") THEN Failed ELSE Returned(EntriesOf(outcomes))

\* unread lines spoil the listing only when nothing else was read
ParseList(lines) ==
    LET outcomes == [i \in DOMAIN lines |-> ParseListLine(lines[i])]
    IN  IF Some(outcomes, "failed") /\ ~Some(outcomes, "emitted")
          THEN Failed ELSE Returned(EntriesOf(outcomes))

\* MLSD, and LIST when MLSD was refused or not understood
ListFtp ==
    LET mlsd == IF answers[1] = Refused THEN Failed ELSE ParseMlsd(answers[1])
    IN  IF mlsd.is = "ok" THEN mlsd
        ELSE IF answers[2] = Refused THEN Failed ELSE ParseList(answers[2])

(***************************************************************************)
(* PROPFIND.                                                               *)
(***************************************************************************)
\* a slash at the end makes a directory, else a propstat of status 2xx says so
Resource(r) == [href |-> r.href, name |-> r.name,
                isDir |-> r.slash \/ (r.status = 200 /\ r.collection)]

\* one resource a path, where it is first described: later descriptions of the same
\* path are merged into it
SamePath(all, i) == {j \in DOMAIN all : all[j].href = all[i].href /\ all[j].name = all[i].name}
Merge(all) ==
    Keep([i \in DOMAIN all |-> [all[i] EXCEPT !.isDir = \E j \in SamePath(all, i) : all[j].isDir]],
         {i \in DOMAIN all : \A j \in SamePath(all, i) : i <= j})

ParsePropfind(responses) == Merge([i \in DOMAIN responses |-> Resource(responses[i])])

\* a missing directory is an empty one; the directory itself and what lies deeper
\* are no children; an answer without any resource is an error
ListDav ==
    IF answers[1] = Refused THEN Failed
    ELSE IF answers[1] = Missing THEN Returned(<<>>)
    ELSE LET resources == ParsePropfind(answers[1])
             children == Keep(resources, {i \in DOMAIN resources : resources[i].href = "child"})
         IN  IF resources = <<>> THEN Failed
             ELSE Returned([i \in DOMAIN children |->
                              [name |-> children[i].name, isDir |-> children[i].isDir]])

List ==
    /\ listing = Uncalled
    /\ listing' = IF listed.by = "ftp" THEN ListFtp ELSE ListDav
    /\ UNCHANGED <<listed, answers>>

ListingNext == List
ListingSpec == ListingInit /\ [][ListingNext]_listingVars

(***************************************************************************)
(* Properties.                                                             *)
(***************************************************************************)
Shown == {listing.entries[i].name : i \in DOMAIN listing.entries}

(* A listing shows entries of the directory only, each once; it shows      *)
(* nothing of a directory that holds something only when WebDAV says the   *)
(* directory is missing (a removal that saw an empty listing would leave   *)
(* the entries to fail it); and it shows them all when every line it was   *)
(* read from is understood.                                                *)
ListingIsExact ==
    listing.is = "ok" =>
       /\ Shown \subseteq listed.has
       /\ Cardinality(Shown) = Len(listing.entries)
       /\ (Shown = {} /\ listed.has # {}) => answers[1] = Missing
       /\ Shown = listed.has \/ answers[1] = Missing
          \/ \E i \in DOMAIN answers[2] : answers[2][i].style = "junk"
=============================================================================
