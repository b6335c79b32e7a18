------------------------------ MODULE ProxyDial ------------------------------
(***************************************************************************)
(* A TCP connection dialled through a proxy: the handshakes of             *)
(* freescp-core/src/proxy.rs (the SSH transports, with tokio-socks for     *)
(* SOCKS5) and the blocking ones of backends/ftp.rs (control and data      *)
(* connections of FTP).  When a dial succeeds the stream is handed to SSH  *)
(* or FTP as it is, so the handshake must have taken every byte of the     *)
(* proxy's replies and not one byte of what the target sent behind them.   *)
(*                                                                         *)
(* A byte is a record of what it stands for; a header line, an address or  *)
(* a banner is as many bytes as the properties tell apart.                 *)
(***************************************************************************)
EXTENDS Naturals, Sequences

CONSTANTS Dials,        \* the implementations: "core" (proxy.rs), "ftp" (ftp.rs)
          HeadLimit,    \* the header cap of HTTP CONNECT (8192 in the code)
          BannerLength  \* how many bytes the target may send unasked

ASSUME DialAssumption == HeadLimit \in Nat \ {0} /\ BannerLength \in Nat

VARIABLES dialling,     \* [by, kind, creds]: who dials, through what, with credentials?
          awaited,      \* the reply the dialler reads, or how the dial ended
          owed,         \* a request is written and the proxy has not answered it
          head,         \* the HTTP header as read so far
          wire,         \* bytes sent to the dialler and not read yet
          closed,       \* the proxy closed its side
          script,       \* the replies the proxy still has to send
          banner        \* bytes the target has sent through the tunnel

proxyVars == <<dialling, awaited, owed, head, wire, closed, script, banner>>

Byte(is, n) == [is |-> is, n |-> n]
Bytes(is, count) == [i \in 1..count |-> Byte(is, 0)]
DialEnded == {"open", "refused", "denied", "invalid", "eof", "timeout"}

(***************************************************************************)
(* What a proxy may answer.                                                *)
(***************************************************************************)
\* the method a SOCKS5 proxy picks: with credentials core offers the password
\* method alone and ftp both; without them both offer no authentication
Methods(d) == (IF ~d.creds THEN {"noAuth"}
               ELSE IF d.by = "core" THEN {"password"}
               ELSE {"noAuth", "password"}) \cup {"noMethod", "strange"}

\* the bound address behind a SOCKS5 verdict: a name announces its length, a port follows
Address(type) == CASE type = "ip4" -> Bytes("address", 1 + 1)
                   [] type = "ip6" -> Bytes("address", 2 + 1)
                   [] type = "name" -> <<Byte("length", 1)>> \o Bytes("address", 1 + 1)
                   [] OTHER -> <<>>

SocksReplies(m, a, v, t) ==
    <<<<Byte("version", 5), Byte(m, 0)>>>>
    \o (IF m = "password" THEN <<<<Byte("version", 1), Byte(a, 0)>>>> ELSE <<>>)
    \o <<<<Byte("version", 5), Byte(v, 0), Byte("reserved", 0), Byte(t, 0)>> \o Address(t)>>
SocksScripts(d) ==
    { SocksReplies(m, a, v, t) :
        m \in Methods(d), a \in {"welcome", "wrong"}, v \in {"granted", "rejected"},
        t \in {"ip4", "ip6", "name", "odd"} }

\* a status line, some header bytes and the blank line
HttpReply(s, k) == <<Byte(s, 0)>> \o Bytes("header", k) \o <<Byte("blank", 0)>>
HttpScripts ==
    { <<HttpReply(s, k)>> : s \in {"200", "newer200", "407", "500", "junk"}, k \in 0..HeadLimit }

DialTypeOK ==
    /\ dialling \in [by: Dials, kind: {"socks5", "http"}, creds: BOOLEAN]
    /\ awaited \in {"method", "auth", "verdict", "head"} \cup DialEnded
    /\ Len(head) \in 0..(HeadLimit + 1)
    /\ {owed, closed} \subseteq BOOLEAN /\ banner \in 0..BannerLength

DialInit ==
    /\ dialling \in [by: Dials, kind: {"socks5", "http"}, creds: BOOLEAN]
    /\ script \in IF dialling.kind = "socks5" THEN SocksScripts(dialling) ELSE HttpScripts
    /\ awaited = IF dialling.kind = "socks5" THEN "method" ELSE "head"
    /\ owed = TRUE /\ head = <<>> /\ wire = <<>> /\ closed = FALSE /\ banner = 0

(***************************************************************************)
(* The proxy and, behind it, the target.                                   *)
(***************************************************************************)
\* the proxy answers the request it was sent, whole or cut short by its end
ProxyAnswers ==
    /\ owed /\ ~closed /\ script # <<>> /\ awaited \notin DialEnded
    /\ \E cut \in 0..Len(Head(script)):
        /\ wire' = wire \o SubSeq(Head(script), 1, cut)
        /\ closed' = (cut < Len(Head(script)))
    /\ script' = Tail(script) /\ owed' = FALSE
    /\ UNCHANGED <<dialling, awaited, head, banner>>

\* behind the last reply the target (or an error page) may speak at once
TargetSpeaks ==
    /\ script = <<>> /\ ~closed /\ banner < BannerLength
    /\ banner' = banner + 1
    /\ wire' = Append(wire, Byte("banner", 0))
    /\ UNCHANGED <<dialling, awaited, owed, head, closed, script>>

(***************************************************************************)
(* The dialler.                                                            *)
(***************************************************************************)
Take(count) == /\ Len(wire) >= count
               /\ wire' = SubSeq(wire, count + 1, Len(wire))

\* the dialler goes on to another reply, writing the request for it, or ends
GoesTo(next) == /\ awaited' = next
                /\ owed' = (next \notin DialEnded)
                /\ UNCHANGED <<dialling, head, closed, script, banner>>

\* the method the proxy chose: an unknown one ends the dial
ReadMethod ==
    /\ awaited = "method" /\ Take(2)
    /\ GoesTo(CASE wire[2].is = "noAuth" -> "verdict"
                [] wire[2].is = "password" -> "auth"
                [] wire[2].is = "noMethod" -> "denied"
                [] OTHER -> "invalid")

\* the verdict on the credentials
ReadAuth ==
    /\ awaited = "auth" /\ Take(2)
    /\ GoesTo(IF wire[2].is = "welcome" THEN "verdict" ELSE "denied")

\* how many bytes the address of a granted request takes, its port included
AddressBytes(type, len) == CASE type = "ip4" -> 2 [] type = "ip6" -> 3 [] OTHER -> 1 + len + 1

\* the verdict decides before the address is read; an unknown address type ends the dial
ReadVerdict ==
    /\ awaited = "verdict" /\ Len(wire) >= 4
    /\ \/ wire[2].is = "rejected" /\ Take(4) /\ GoesTo("refused")
       \/ wire[2].is = "granted" /\ wire[4].is = "odd" /\ Take(4) /\ GoesTo("invalid")
       \/ /\ wire[2].is = "granted" /\ wire[4].is # "odd" /\ Len(wire) >= 5
          /\ Take(4 + AddressBytes(wire[4].is, wire[5].n))
          /\ GoesTo("open")

\* what a complete header means: core takes the 200 of any HTTP version, ftp of 1.x alone
HeadVerdict(status) ==
    IF status = "200" THEN "open"
    ELSE IF dialling.by = "ftp" THEN "denied"
    ELSE CASE status = "newer200" -> "open"
           [] status = "407" -> "denied"
           [] status = "junk" -> "invalid"
           [] OTHER -> "refused"

\* the cap: core reads HeadLimit bytes at most, ftp notices one byte later
HeadTooLong(n) == IF dialling.by = "core" THEN n >= HeadLimit ELSE n > HeadLimit

\* one byte of the header, so that nothing behind the blank line is taken
ReadHeadByte ==
    /\ awaited = "head" /\ Take(1)
    /\ head' = Append(head, wire[1])
    /\ awaited' = IF wire[1].is = "blank" THEN HeadVerdict(head'[1].is)
                  ELSE IF HeadTooLong(Len(head')) THEN "invalid" ELSE "head"
    /\ UNCHANGED <<dialling, owed, closed, script, banner>>

DialReads == ReadMethod \/ ReadAuth \/ ReadVerdict \/ ReadHeadByte

\* the read under way lacks bytes
Starved == Len(wire) < IF awaited = "head" THEN 1
                       ELSE IF awaited \in {"method", "auth"} THEN 2
                       ELSE IF Len(wire) < 4 \/ wire[2].is = "rejected" \/ wire[4].is = "odd" THEN 4
                       ELSE IF Len(wire) < 5 THEN 5
                       ELSE 4 + AddressBytes(wire[4].is, wire[5].n)

\* the stream ended inside a reply
ProxyGone ==
    /\ awaited \notin DialEnded /\ closed /\ Starved
    /\ wire' = <<>> /\ GoesTo("eof")

\* core bounds the whole handshake with one timer, ftp every single read
DialTimesOut ==
    /\ awaited \notin DialEnded
    /\ dialling.by = "ftp" => Starved
    /\ UNCHANGED wire /\ GoesTo("timeout")

DialNext == ProxyAnswers \/ TargetSpeaks \/ DialReads \/ ProxyGone \/ DialTimesOut

DialSpec == DialInit /\ [][DialNext]_proxyVars

(***************************************************************************)
(* Properties.                                                             *)
(***************************************************************************)
(* What a successful dial hands on is exactly what the target has sent: no *)
(* byte of the proxy's replies is left in front of it (the address of a    *)
(* SOCKS5 verdict is read by its announced length) and no byte of the      *)
(* target's banner was taken with the HTTP header (proxy.rs:              *)
(* read_http_connect_response, ftp.rs: http_connect).                      *)
TunnelIsClean == awaited = "open" => wire = Bytes("banner", banner)
=============================================================================
