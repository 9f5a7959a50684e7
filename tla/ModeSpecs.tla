------------------------------ MODULE ModeSpecs ------------------------------
(***************************************************************************)
(* How the web client writes the modes of the proxy as specifications, and *)
(* reads the specifications the server announces (web/src/js/modes).       *)
(*                                                                         *)
(* A server entry has the fields of every mode; "" stands for whatever is  *)
(* falsy: undefined, the empty text, and the ports 0 and NaN.  A number is *)
(* its decimal numeral.  An error is "none"                                *)
(* while the entry never had one, which is not the same as "cleared": the  *)
(* entry has the property then.                                            *)
(***************************************************************************)
EXTENDS Integers, Sequences, FiniteSetsExt, TLC

\* The types of modes, in the order in which they are sent.
ModeTypes == <<"regular", "local", "wireguard", "reverse", "transparent", "socks5",
               "upstream", "dns">>

Protocols == {"https", "http"}

Entry(id, type, active, host, port, protocol, data) ==
    [id |-> id, type |-> type, active |-> active, error |-> "none",
     host |-> host, port |-> port, protocol |-> protocol, data |-> data]

\* The entry of a mode that was never configured.
DefaultReverseState(id) == Entry(id, "reverse", FALSE, "", "", "https", "")

-----------------------------------------------------------------------------
\* Faulty variant: the host is left out.
IncludePort(modeNameAndData, m) ==
    modeNameAndData \o (IF m.port = "" THEN "" ELSE "@" \o m.port)

\* includeListenAddress: a host is nothing without a port.
IncludeListenAddress(modeNameAndData, m) ==
    modeNameAndData \o (IF m.port = "" THEN ""
                        ELSE IF m.host = "" THEN "@" \o m.port
                        ELSE "@" \o m.host \o ":" \o m.port)

\* getSpec of each mode: a local mode listens nowhere.
RegularSpec(m)     == IncludeListenAddress("regular", m)
LocalSpec(m)       == IF m.data = "" THEN "local" ELSE "local:" \o m.data
WireguardSpec(m)   ==
    IncludeListenAddress(IF m.data = "" THEN "wireguard" ELSE "wireguard:" \o m.data, m)
ReverseSpec(m)     == IncludeListenAddress("reverse:" \o m.protocol \o "://" \o m.data, m)
TransparentSpec(m) == IncludeListenAddress("transparent", m)
SocksSpec(m)       == IncludeListenAddress("socks5", m)
UpstreamSpec(m)    == IncludeListenAddress("upstream:" \o m.data, m)
DnsSpec(m)         == IncludeListenAddress("dns", m)

GetSpec(m) ==
    CASE m.type = "regular"     -> RegularSpec(m)
      [] m.type = "local"       -> LocalSpec(m)
      [] m.type = "wireguard"   -> WireguardSpec(m)
      [] m.type = "reverse"     -> ReverseSpec(m)
      [] m.type = "transparent" -> TransparentSpec(m)
      [] m.type = "socks5"      -> SocksSpec(m)
      [] m.type = "upstream"    -> UpstreamSpec(m)
      [] m.type = "dns"         -> DnsSpec(m)

-----------------------------------------------------------------------------
Found(text, sep) ==
    {i \in 1..(Len(text) - Len(sep) + 1) : SubSeq(text, i, i + Len(sep) - 1) = sep}
SplitAt(text, i, sep) ==
    <<SubSeq(text, 1, i - 1), SubSeq(text, i + Len(sep), Len(text))>>

\* At the last separator; without one, everything is after it.
RPartition(text, sep) ==
    LET found == Found(text, sep)
    IN  IF found = {} THEN <<"", text>> ELSE SplitAt(text, Max(found), sep)
\* At the first separator; without one, everything is before it.
Partition(text, sep) ==
    LET found == Found(text, sep)
    IN  IF found = {} THEN <<text, "">> ELSE SplitAt(text, Min(found), sep)

\* parseInt: the numeral the text begins with.
IsNumeral(text) ==
    \A i \in 1..Len(text) :
        SubSeq(text, i, i) \in {"0", "1", "2", "3", "4", "5", "6", "7", "8", "9"}
ParseInt(text) ==
    LET digits  == SubSeq(text, 1, Max({i \in 0..Len(text) : IsNumeral(SubSeq(text, 1, i))}))
        nonzero == {i \in 1..Len(digits) : SubSeq(digits, i, i) # "0"}
    IN  IF digits = "" THEN "NaN"
        ELSE IF nonzero = {} THEN "0" ELSE SubSeq(digits, Min(nonzero), Len(digits))

Value(numeral) ==
    LET digit(c) == CHOOSE d \in 0..9 : ToString(d) = c
        value[n \in 0..Len(numeral)] ==
            IF n = 0 THEN 0 ELSE 10 * value[n - 1] + digit(SubSeq(numeral, n, n))
    IN  value[Len(numeral)]

\* A port, written without zeros in front.
IsPort(text) == IsNumeral(text) /\ ParseInt(text) = text /\ Len(text) <= 5 /\ Value(text) <= 65535

\* NAME[:DATA][@[HOST:]PORT], where an "@" at the beginning separates nothing.
Split(spec) ==
    LET cut == RPartition(spec, "@")
    IN  IF cut[1] = "" THEN [head |-> cut[2], listenAt |-> ""]
        ELSE [head |-> cut[1], listenAt |-> cut[2]]
Address(listenAt) ==
    IF Found(listenAt, ":") = {} THEN <<"", listenAt>> ELSE RPartition(listenAt, ":")

\* parseSpec.  It throws for a port that is no port number, which the client does not
\* meet: it parses what the server runs, and the server refuses those (Valid).
ParseSpec(spec) ==
    LET split == Split(spec)
        name == Partition(split.head, ":")
        address == IF split.listenAt = "" THEN <<"", "">> ELSE Address(split.listenAt)
    IN  [spec |-> spec, name |-> name[1], data |-> name[2], host |-> address[1],
         port |-> IF address[2] = "" THEN "" ELSE ParseInt(address[2])]

\* parseRaw of each mode: what was announced is active.
Truthy(number) == IF number \in {"0", "NaN"} THEN "" ELSE number
Port(p) == Truthy(p.port)
RawListener(p, id) == Entry(id, p.name, TRUE, p.host, Port(p), "", "")
RawLocal(p, id)    == Entry(id, p.name, TRUE, "", "", "", p.data)
RawWireguard(p, id) == Entry(id, p.name, TRUE, p.host, Port(p), "", p.data)
RawUpstream(p, id) == Entry(id, p.name, TRUE, p.host, Port(p), "", p.data)
RawReverse(p, id)  ==
    LET dest == Partition(p.data, "://")
    IN  IF dest[2] = "" THEN Entry(id, p.name, TRUE, p.host, Port(p), "https", dest[1])
        ELSE Entry(id, p.name, TRUE, p.host, Port(p), dest[1], dest[2])

ParseRaw(p, id) ==
    CASE p.name = "local"     -> RawLocal(p, id)
      [] p.name = "reverse"   -> RawReverse(p, id)
      [] p.name = "wireguard" -> RawWireguard(p, id)
      [] p.name = "upstream"  -> RawUpstream(p, id)
      [] p.name \in {"regular", "transparent", "socks5", "dns"} -> RawListener(p, id)

\* A specification the client would write in the same way.
Canonical(spec) == GetSpec(ParseRaw(ParseSpec(spec), 0)) = spec

-----------------------------------------------------------------------------
(* The server's validation (proxy/mode_specs.py: parse and __post_init__;  *)
(* addons/proxyserver.py: configure).  int() and parseInt take plain       *)
(* digits alike; the signs, spaces and other digits int() takes are left   *)
(* out, and so is what makes a host name or a process list valid.          *)

\* server_spec.parse: [SCHEME://]HOST, of the schemes the client offers.
IsServerSpec(data) ==
    LET dest == Partition(data, "://")
    IN  IF Found(data, "://") = {} THEN data # "" ELSE dest[1] \in Protocols /\ dest[2] # ""

\* Where a mode listens is nothing, or ends in a port number; some modes may not do
\* without data, some may not have any.
Valid(spec) ==
    LET p == ParseSpec(spec)
        listenAt == Split(spec).listenAt
    IN  /\ listenAt # "" => IsNumeral(Address(listenAt)[2]) /\ IsPort(p.port)
        /\ CASE p.name \in {"reverse", "upstream"} -> IsServerSpec(p.data)
             [] p.name \in {"local", "wireguard"} -> TRUE
             [] p.name \in {"regular", "transparent", "socks5", "dns"} -> p.data = ""

\* The addresses a mode listens on: TCP at 8080 unless it says otherwise.
DefaultPort(name) ==
    CASE name = "socks5" -> "1080" [] name = "dns" -> "53" [] name = "wireguard" -> "51820"
      [] name = "local" -> "" [] OTHER -> "8080"
Transports(p) ==
    CASE p.name = "wireguard" -> {"udp"}
      [] p.name = "dns" -> {"tcp", "udp"}
      [] p.name = "reverse" /\ Partition(p.data, "://")[1] # "http" -> {"tcp", "udp"}
      [] OTHER -> {"tcp"}
ListenAddresses(spec) ==
    LET p == ParseSpec(spec)
        port == IF p.port = "" THEN DefaultPort(p.name) ELSE p.port
    IN  IF port = "" THEN {} ELSE {<<p.host, port, t>> : t \in Transports(p)}

\* The list of modes the server takes: every one valid, no address twice, and a
\* transparent one only if the platform has it.
Acceptable(specs, transparent) ==
    /\ \A i \in DOMAIN specs : Valid(specs[i])
    /\ \A i, j \in DOMAIN specs : i # j => ListenAddresses(specs[i]) \cap ListenAddresses(specs[j]) = {}
    /\ (\E i \in DOMAIN specs : ParseSpec(specs[i]).name = "transparent") => transparent
=============================================================================
