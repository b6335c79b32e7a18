----------------------------- MODULE SshConnect -----------------------------
(***************************************************************************)
(* SSH connects over one known_hosts file: freescp-core's known_hosts.rs,  *)
(* ssh_transport.rs, jumphost.rs and proxy.rs, the connect of the SCP      *)
(* backend (backends/scp.rs), and the removal of a deleted site's entry    *)
(* (site_manager.rs).                                                      *)
(*                                                                         *)
(* A connect opens its transport, reads the file when the server offers    *)
(* its key, may ask the user (for up to 120 s: an unanswered prompt is a   *)
(* rejection), saves (a read, then an atomic replacement), and tries the   *)
(* methods of authentication.  Connects run in parallel on the threads of  *)
(* the runtime, removals on the event loop; nothing locks the file.        *)
(*                                                                         *)
(* A host stands for one host and port.  Left out: fingerprints, the       *)
(* encoding of keys and hashes, and which bytes a proxy exchanges.         *)
(***************************************************************************)
EXTENDS Integers, Sequences, SequencesExt, Subsequences

CONSTANTS
    Dialers,        \* connects in flight
    SshHosts,       \* hosts (with their ports)
    HostTokens,     \* host -> tokens that name it; HostToken[h] is the stored one
    HostToken,
    HostKeys,       \* keys a server may present
    UnparsedKey,    \* key material the library cannot parse
    KnownFiles,     \* initial known_hosts files
    DialOptions,    \* the options connects are made with
    MaxDials        \* bound on the connects, removals and key changes that begin

VARIABLES
    knownHosts,     \* the file: [state, lines]
    serverKey,      \* the key each server presents
    dial,           \* per dialer: [at, opt, key, draft, base]
    remover,        \* the event loop removing an entry: [at, host, draft, base]
    dials,          \* how many have begun
    accepted,       \* history: <<host, key>> saved, not removed or overwritten since
    vouched         \* history: <<host, key>> in the first file, or accepted by the user

sshVars == <<knownHosts, serverKey, dial, remover, dials, accepted, vouched>>

SshTokens == UNION {HostTokens[h] : h \in SshHosts}
KnownLines == [names : SUBSET SshTokens, hashed : BOOLEAN, key : HostKeys \cup {UnparsedKey}]
FileStates == {"present", "absent", "unreadable"}
Policies == {"Strict", "AcceptNew", "Off"}
AuthMethods == {"keyboard", "password", "key", "agent"}

ASSUME SshAssumption ==
    /\ UnparsedKey \notin HostKeys
    /\ \A h \in SshHosts : HostToken[h] \in HostTokens[h]
    /\ \A g, h \in SshHosts : g # h => HostTokens[g] \cap HostTokens[h] = {}
    /\ SshHosts # {} /\ DialOptions # {}
    /\ \A o \in DialOptions : o.host \in SshHosts /\ o.hash \in BOOLEAN
    /\ KnownFiles \subseteq [state : FileStates, lines : Seq(KnownLines)]
    /\ MaxDials \in Nat

----------------------------------------------------------------------------
(* The file (known_hosts.rs). *)

\* Mutant: hashed tokens are compared as they are written.
NamesPlain(line, h) == ~line.hashed /\ line.names \cap HostTokens[h] # {}

Names(line, h) == line.names \cap HostTokens[h] # {}

\* Entries whose key cannot be parsed are invisible; markers are not looked at.
Verdict(lines, h, k) ==
    LET seen == {l \in ToSet(lines) : Names(l, h) /\ l.key # UnparsedKey} IN
    IF \E l \in seen : l.key = k THEN "Match"
    ELSE IF seen # {} THEN "Mismatch" ELSE "Missing"

\* What a reader sees; the strict reader refuses a missing file.
LoadKnownHosts(strict) ==
    CASE knownHosts.state = "present" -> [ok |-> TRUE, lines |-> knownHosts.lines]
      [] knownHosts.state = "absent" -> [ok |-> ~strict, lines |-> <<>>]
      [] knownHosts.state = "unreadable" -> [ok |-> FALSE, lines |-> <<>>]

NewLine(h, k, hash) == [names |-> {HostToken[h]}, hashed |-> hash, key |-> k]

\* save_host: a hashed entry is appended; a plain one replaces the first line
\* that has the same plain token, whatever its key.
SavedLines(lines, h, k, hash) ==
    LET same == {i \in DOMAIN lines : ~lines[i].hashed /\ HostToken[h] \in lines[i].names} IN
    IF hash \/ same = {} THEN Append(lines, NewLine(h, k, hash))
    ELSE [lines EXCEPT ![CHOOSE i \in same : \A j \in same : i <= j] = NewLine(h, k, hash)]

RemovedLines(lines, h) == Keep(lines, {i \in DOMAIN lines : ~Names(lines[i], h)})

----------------------------------------------------------------------------
SshInit ==
    /\ knownHosts \in KnownFiles
    /\ serverKey \in [SshHosts -> HostKeys]
    /\ dial = [d \in Dialers |->
                 [at |-> "idle", opt |-> CHOOSE o \in DialOptions : TRUE,
                  key |-> UnparsedKey, draft |-> <<>>, base |-> <<>>]]
    /\ remover = [at |-> "idle", host |-> CHOOSE h \in SshHosts : TRUE,
                  draft |-> <<>>, base |-> <<>>]
    /\ dials = 0
    /\ accepted = {}
    /\ vouched = {p \in SshHosts \X HostKeys : Verdict(knownHosts.lines, p[1], p[2]) = "Match"}

Goes(d, to) == dial' = [dial EXCEPT ![d].at = to]
Ends(d, to) == dial' = [dial EXCEPT ![d].at = to, ![d].draft = <<>>, ![d].base = <<>>]

\* connect_and_auth: the SFTP transport refuses a proxy with a jump host, the
\* SCP one takes the jump host.
Dial(d) ==
    /\ dial[d].at \in {"idle", "connected", "failed"} /\ dials < MaxDials
    /\ dials' = dials + 1
    /\ \E o \in DialOptions :
         dial' = [dial EXCEPT ![d] =
            [at |-> IF o.proxy /\ o.jump /\ o.backend # "scp" THEN "failed" ELSE "transport",
             opt |-> o, key |-> UnparsedKey, draft |-> <<>>, base |-> <<>>]]
    /\ UNCHANGED <<knownHosts, serverKey, remover, accepted, vouched>>

\* The jump process exits, the proxy refuses, the handshake times out.
TransportFails(d) ==
    /\ dial[d].at = "transport"
    /\ Ends(d, "failed")
    /\ UNCHANGED <<knownHosts, serverKey, remover, dials, accepted, vouched>>

\* check_server_key up to the question, for the policy and the file as it is
\* now.  An unreadable file is an empty one to AcceptNew, but not over SCP.
AfterReading(o, k) ==
    LET read == LoadKnownHosts(o.policy = "Strict")
        verdict == Verdict(read.lines, o.host, k) IN
    CASE o.policy = "Off" -> "auth"
      [] o.policy # "Off" /\ ~read.ok /\ (o.policy = "Strict" \/ o.backend = "scp") -> "failed"
      [] OTHER -> CASE verdict = "Match" -> "auth"
                    [] verdict = "Missing" /\ o.policy = "AcceptNew" -> "prompt"
                    [] OTHER -> "failed"

KeyOffered(d) ==
    LET o == dial[d].opt
        k == serverKey[o.host] IN
    /\ dial[d].at = "transport"
    /\ dial' = [dial EXCEPT ![d].at = AfterReading(o, k), ![d].key = k]
    /\ UNCHANGED <<knownHosts, serverKey, remover, dials, accepted, vouched>>

\* The user's decision, or the time-out.
HostKeyAnswered(d) ==
    /\ dial[d].at = "prompt"
    /\ \E to \in {"failed", "auth", "save"} :
         /\ Goes(d, to)
         /\ vouched' = IF to = "failed" THEN vouched
                       ELSE vouched \cup {<<dial[d].opt.host, dial[d].key>>}
    /\ UNCHANGED <<knownHosts, serverKey, remover, dials, accepted>>

\* Persisting failed: SFTP asks again, without offering to save; SCP goes on.
AfterFailedSave(o) == IF o.backend = "scp" THEN "auth" ELSE "confirm"

SaveReads(d) ==
    LET o == dial[d].opt
        read == LoadKnownHosts(FALSE) IN
    /\ dial[d].at = "save"
    /\ IF read.ok
       THEN dial' = [dial EXCEPT ![d].at = "write", ![d].base = read.lines,
                        ![d].draft = SavedLines(read.lines, o.host, dial[d].key, o.hash)]
       ELSE Goes(d, AfterFailedSave(o))
    /\ UNCHANGED <<knownHosts, serverKey, remover, dials, accepted, vouched>>

\* What an agent that read base and replaces the file leaves of the history.
Surviving(base) == IF knownHosts.lines = base THEN accepted ELSE {}
Replaced(h, hash) == IF hash THEN {} ELSE {p \in accepted : p[1] = h}

\* write_atomic: temporary file, fsync, rename.
SaveWrites(d) ==
    LET o == dial[d].opt IN
    /\ dial[d].at = "write"
    /\ knownHosts' = [state |-> "present", lines |-> dial[d].draft]
    /\ accepted' = (Surviving(dial[d].base) \ Replaced(o.host, o.hash)) \cup {<<o.host, dial[d].key>>}
    /\ Ends(d, "auth")
    /\ UNCHANGED <<serverKey, remover, dials, vouched>>

SaveFails(d) ==
    /\ dial[d].at = "write"
    /\ Ends(d, AfterFailedSave(dial[d].opt))
    /\ UNCHANGED <<knownHosts, serverKey, remover, dials, accepted, vouched>>

ConfirmUnsaved(d) ==
    /\ dial[d].at = "confirm"
    /\ \E to \in {"failed", "auth"} : Goes(d, to)
    /\ UNCHANGED <<knownHosts, serverKey, remover, dials, accepted, vouched>>

----------------------------------------------------------------------------
(* Authentication. *)

\* The methods a connect tries, in the order of its backend.  SCP has no agent,
\* and stops at the first of key, password (then keyboard), keyboard it has.
Chain(o) ==
    IF o.backend = "scp"
    THEN IF "key" \in o.creds THEN <<"key">>
         ELSE IF "password" \in o.creds THEN <<"password", "keyboard">>
         ELSE SelectSeq(<<"keyboard">>, LAMBDA m : m \in o.creds)
    ELSE SelectSeq(<<"keyboard", "password", "key", "agent">>,
            LAMBDA m : m = "agent" \/ m \in o.creds \/ (m = "keyboard" /\ "password" \in o.creds))

\* AuthMethods that end the attempt: success, or a prompt cancelled, an unusable
\* key file, a transport failure (only a password's is passed over).
AuthOutcome(o, works, aborts) ==
    LET c == Chain(o)
        decisive == {i \in DOMAIN c : c[i] \in works \cup aborts} IN
    IF decisive = {} THEN "failed"
    ELSE LET first == c[CHOOSE i \in decisive : \A j \in decisive : i <= j] IN
         IF first \in aborts THEN "failed" ELSE "connected"

Authenticate(d) ==
    /\ dial[d].at = "auth"
    /\ \E works \in SUBSET AuthMethods, aborts \in SUBSET {"keyboard", "key"} :
         Ends(d, AuthOutcome(dial[d].opt, works, aborts))
    /\ UNCHANGED <<knownHosts, serverKey, remover, dials, accepted, vouched>>

----------------------------------------------------------------------------
(* The user deletes a site: its entry is removed; only an existing file is   *)
(* touched, and only when something matches.                                 *)
RemoveReads ==
    /\ remover.at = "idle" /\ dials < MaxDials
    /\ dials' = dials + 1
    /\ \E h \in SshHosts :
         remover' = IF knownHosts.state = "present"
                       /\ RemovedLines(knownHosts.lines, h) # knownHosts.lines
                    THEN [at |-> "write", host |-> h, base |-> knownHosts.lines,
                          draft |-> RemovedLines(knownHosts.lines, h)]
                    ELSE remover
    /\ UNCHANGED <<knownHosts, serverKey, dial, accepted, vouched>>

RemoveWrites ==
    /\ remover.at = "write"
    /\ knownHosts' = [state |-> "present", lines |-> remover.draft]
    /\ accepted' = {p \in Surviving(remover.base) : p[1] # remover.host}
    /\ remover' = [remover EXCEPT !.at = "idle", !.draft = <<>>, !.base = <<>>]
    /\ UNCHANGED <<serverKey, dial, dials, vouched>>

\* The world: a server is given a new key.
ServerRekeyed ==
    /\ dials < MaxDials
    /\ dials' = dials + 1
    /\ \E h \in SshHosts, k \in HostKeys : serverKey' = [serverKey EXCEPT ![h] = k]
    /\ UNCHANGED <<knownHosts, dial, remover, accepted, vouched>>

SshNext ==
    \/ \E d \in Dialers :
         \/ Dial(d) \/ TransportFails(d) \/ KeyOffered(d) \/ HostKeyAnswered(d)
         \/ SaveReads(d) \/ SaveWrites(d) \/ SaveFails(d) \/ ConfirmUnsaved(d)
         \/ Authenticate(d)
    \/ RemoveReads \/ RemoveWrites \/ ServerRekeyed

SshSpec == SshInit /\ [][SshNext]_sshVars

----------------------------------------------------------------------------
(* Properties. *)

SshTypeOK ==
    /\ knownHosts \in [state : FileStates, lines : Seq(KnownLines)]
    /\ serverKey \in [SshHosts -> HostKeys]
    /\ dial \in [Dialers -> [at : {"idle", "transport", "prompt", "save", "write", "confirm",
                                   "auth", "connected", "failed"},
                             opt : DialOptions, key : HostKeys \cup {UnparsedKey},
                             draft : Seq(KnownLines), base : Seq(KnownLines)]]
    /\ remover \in [at : {"idle", "write"}, host : SshHosts,
                    draft : Seq(KnownLines), base : Seq(KnownLines)]
    /\ dials \in 0..MaxDials
    /\ accepted \subseteq SshHosts \X HostKeys /\ vouched \subseteq SshHosts \X HostKeys

(***************************************************************************)
(* A key the user accepted for good is found again by every later connect, *)
(* whatever other connects accept and the user removes meanwhile, as long  *)
(* as no other writer replaced the file from an older reading (save_host,  *)
(* remove_host).                                                           *)
(***************************************************************************)
AcceptedIsKnown ==
    \A p \in accepted : Verdict(knownHosts.lines, p[1], p[2]) = "Match"

(***************************************************************************)
(* No session is opened over a host key that the file did not hold for its *)
(* host and the user did not accept for it, unless its policy is Off, and  *)
(* no key comes into the file by another way: not by the saves and         *)
(* removals of others, by an older reading written back, by a file that    *)
(* cannot be read, by a failed save, or by a server that is given another  *)
(* key while the user is asked (check_server_key, save_host, remove_host). *)
(***************************************************************************)
KeysAreVouchedFor ==
    /\ \A h \in SshHosts, k \in HostKeys :
         Verdict(knownHosts.lines, h, k) = "Match" => <<h, k>> \in vouched
    /\ \A d \in Dialers :
         dial[d].at \in {"auth", "connected"} /\ dial[d].opt.policy # "Off"
             => <<dial[d].opt.host, dial[d].key>> \in vouched
=============================================================================
