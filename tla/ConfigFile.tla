----------------------------- MODULE ConfigFile -----------------------------
(* The configuration file: ConfigFileParser (configfileparser.cpp), with what   *)
(* makes a listen block and a bridge block valid (listener.cpp, bridgeconfig.cpp) *)
(* and the names bridges share. Whatever the reason, loading throws or it does     *)
(* not; a set that holds one result, or none when it throws, stands for that.    *)
EXTENDS Integers, Sequences, FiniteSets, SequencesExt, TLC

CONSTANTS
    Malformed,      \* texts that are no topic filter, network or client id prefix
    Slashed,        \* texts that end with a slash
    Shares,         \* topic filters that start with $share
    Cpus            \* get_nprocs()

(* Data. A number is <<millions, rest>>: the limits of the options go past what a *)
(* number here can be.                                                        *)
Text(t) == [text |-> t]
Number(millions, rest) == [number |-> <<millions, rest>>]
Small(n) == Number(0, n)
IsNumber(v) == "number" \in DOMAIN v
LessEq(a, b) == a[1] < b[1] \/ (a[1] = b[1] /\ a[2] <= b[2])
Within(v, low, high) == IsNumber(v) /\ LessEq(low, v.number) /\ LessEq(v.number, high)

Zero == <<0, 0>>
MaxUint16 == <<0, 65535>>
MinInt == <<-2148, 516352>>
MaxInt == <<2147, 483647>>
MaxUint32 == <<4294, 967295>>
AnyHigh == <<1000000, 0>>       \* what a negative number becomes in an unsigned long

(* The lines of a file, as the regular expressions of the parser tell them apart. *)
Option(key, values) == [is |-> "option", key |-> key, values |-> values, indented |-> FALSE]
Start(name) == [is |-> "start", name |-> name]
End == [is |-> "end"]
Comment == [is |-> "comment"]
Nonsense == [is |-> "nonsense"]         \* or longer than 256 characters
One(key, t) == Option(key, <<Text(t)>>)
Num(key, n) == Option(key, <<Small(n)>>)

(* What a disk holds, for those parts that loading looks at: the lines of each     *)
(* file and the files of each directory; which files can be read, which files and  *)
(* directories be written, which certificates go with which keys, which files and  *)
(* directories hold certificate authorities.                                    *)
Disk(lines, dirs, readable, writable, pairs, authorities) ==
    [lines |-> lines, dirs |-> dirs, readable |-> readable, writable |-> writable,
     pairs |-> pairs, authorities |-> authorities]

-----------------------------------------------------------------------------
(* Options: what a value may be and what is stored of it.                       *)
Kind(type) == [type |-> type]
Each(keys, kind) == [k \in keys |-> kind]
Words(keys, words) == Each(keys, [type |-> "choice", of |-> [w \in words |-> w]])
Signed(keys, low, high) == Each(keys, [type |-> "signed", low |-> low, high |-> high])
Ranged(keys, low, high) == Each(keys, [type |-> "ranged", low |-> low, high |-> high])

\* access(2), stat(2) and the size of checkFileExistsAndReadable are one: readable.
checkFileExistsAndReadable(v, d) == v \in d.readable
checkFileOrItsDirWritable(v, d) == v \in d.writable
checkDirExists(v, d) == v \in DOMAIN d.dirs

stringTruthiness(v) ==
    {TRUE : w \in {v} \cap {Text("yes"), Text("true"), Text("on")}}
    \union {FALSE : w \in {v} \cap {Text("no"), Text("false"), Text("off")}}

\* full_stoi, and what its caller then refuses.
full_stoi(v, low, high) == {x \in {v} : Within(x, MinInt, MaxInt) /\ Within(x, low, high)}
full_stoul(v) == IF IsNumber(v) THEN {IF LessEq(Zero, v.number) THEN v ELSE [number |-> AnyHigh]} ELSE {}
\* A negative number wraps round and is out of the range.
value_to_int_ranged(v, low, high) == {x \in full_stoul(v) : Within(x, low, high)}

isPowerOfTwo(n) == n \in {2^i : i \in 0..30}
\* The power of two that is negative is one too: n & (n - 1) overflows.
IsBufferSize(v) == Within(v, MinInt, MaxInt) /\ \/ v.number = MinInt
                                                \/ /\ v.number[1] \in 0..2146
                                                   /\ isPowerOfTwo((v.number[1] * 1000000) + v.number[2])

\* int to uint32_t, of which only 0 is refused.
IntAsUnsigned(v) ==
    IF LessEq(Zero, v.number) THEN v
    ELSE LET rest == v.number[2] + 967296
         IN  [number |-> <<v.number[1] + 4294 + (rest \div 1000000), rest % 1000000>>]

WithQos(values) ==
    IF Len(values) = 1 THEN {[topic |-> values[1], qos |-> Small(0)]}
    ELSE {[topic |-> values[1], qos |-> q] : q \in value_to_int_ranged(values[2], Zero, <<0, 2>>)}

\* What persistence_data_to_save turns on and off, from left to right.
AllStates == {"sessions_and_subscriptions", "retained_messages", "bridge_info"}
ToSave(values) ==
    LET flags(v) == IF v.flag = "all" THEN AllStates ELSE {v.flag}
        saved[i \in 0..Len(values)] ==
            IF i = 0 THEN {}
            ELSE IF values[i].on THEN saved[i - 1] \union flags(values[i])
            ELSE saved[i - 1] \ flags(values[i])
    IN  IF \A i \in DOMAIN values : "flag" \in DOMAIN values[i]
                                       /\ values[i].flag \in AllStates \union {"all"}
        THEN {saved[Len(values)]} ELSE {}

NumbersRead(kind, v) ==
    CASE kind.type = "signed" -> full_stoi(v, kind.low, kind.high)
      [] kind.type = "ranged" -> value_to_int_ranged(v, kind.low, kind.high)
      [] kind.type = "octal" -> full_stoul(v)
      [] kind.type = "wrapped" -> {IntAsUnsigned(x) : x \in full_stoi(v, MinInt, MaxInt) \ {Small(0)}}
      [] kind.type = "buffer" -> {x \in {v} : IsBufferSize(x)}
      [] kind.type = "expiry" -> value_to_int_ranged(v, Zero, MaxUint32) \ {Small(n) : n \in 1..59}
      [] kind.type = "count" -> IF v = Text("auto") THEN {Small(Cpus)} ELSE full_stoul(v)
      [] kind.type = "size" -> {x \in full_stoul(v) : LessEq(x.number, <<1073, 741824>>)}

TextsRead(kind, v, d) ==
    CASE kind.type = "text" -> {v}
      [] kind.type = "flag" -> stringTruthiness(v)
      [] kind.type = "yes" -> {TRUE}
      [] kind.type = "choice" ->
            {kind.of[w] : w \in {x \in DOMAIN kind.of : Text(x) = v}}
      [] kind.type = "file" -> {x \in {v} : checkFileExistsAndReadable(x, d)}
      [] kind.type = "log" -> {x \in {v} : checkFileOrItsDirWritable(x, d)}
      [] kind.type = "storage" -> {x \in {v} : x \in d.writable}
      [] kind.type = "dir" -> {x \in {v} : checkDirExists(x, d)}
      [] kind.type = "network" -> {v} \ Malformed
      [] kind.type = "prefix" -> {v} \ Malformed
      [] kind.type = "slashed" -> {v} \cap Slashed
      [] kind.type = "haproxy" ->
            {x \in {"client_verification", "client_verification_with_authn"} : Text(x) = v}
            \union {IF on THEN "on" ELSE "unchanged" : on \in stringTruthiness(v)}

NumberKinds == {"signed", "ranged", "octal", "wrapped", "buffer", "expiry", "count", "size"}
Read(kind, values, d) ==
    CASE kind.type = "topic" -> {x \in WithQos(values) : values[1] \notin Malformed}
      [] kind.type = "save" -> ToSave(values)
      [] kind.type \in NumberKinds -> NumbersRead(kind, values[1])
      [] OTHER -> TextsRead(kind, values[1], d)
ExpectedValues(kind, values) ==
    CASE kind.type = "save" -> Len(values)
      [] kind.type = "topic" /\ Len(values) > 1 -> 2
      [] OTHER -> 1

Lists == {"only_allow_from", "deny_from", "subscribe", "publish", "websocket_set_real_ip_from"}
Given(block, key, default) == IF key \in DOMAIN block THEN block[key] ELSE default
Store(block, key, x) ==
    IF key = "haproxy" /\ x = "unchanged" THEN block
    ELSE (key :> IF key \in Lists THEN Append(Given(block, key, <<>>), x) ELSE x) @@ block

validListenKeys ==
    {"port", "protocol", "fullchain", "privkey", "inet_protocol", "inet4_bind_address",
     "inet6_bind_address", "unix_socket_path", "unix_socket_user", "unix_socket_group",
     "unix_socket_mode", "haproxy", "client_verification_ca_file", "client_verification_ca_dir",
     "client_verification_still_do_authn", "allow_anonymous", "tcp_nodelay", "minimum_tls_version",
     "overload_mode", "acme_redirect_url", "drop_on_absent_certificate", "max_buffer_size", "max_qos",
     "mqtt3_qos_exceed_action", "only_allow_from", "deny_from"}

ListenOptions ==
    Words({"protocol"}, {"mqtt", "websockets", "acme"})
    @@ Signed({"port"}, MinInt, MaxInt)
    @@ Each({"fullchain", "privkey", "inet4_bind_address", "inet6_bind_address", "unix_socket_path",
             "unix_socket_user", "unix_socket_group", "acme_redirect_url"}, Kind("text"))
    @@ Words({"inet_protocol"}, {"ip4", "ip6", "ip4_ip6", "unix"})
    @@ Each({"unix_socket_mode"}, Kind("octal"))
    @@ Each({"haproxy"}, Kind("haproxy"))
    @@ Each({"client_verification_ca_file"}, Kind("file"))
    @@ Each({"client_verification_ca_dir"}, Kind("dir"))
    @@ Each({"client_verification_still_do_authn", "allow_anonymous", "tcp_nodelay",
             "drop_on_absent_certificate"}, Kind("flag"))
    @@ Words({"minimum_tls_version"}, {"tlsv1.3", "tlsv1.2", "tlsv1.1"})
    @@ Words({"overload_mode"}, {"log", "close_new_clients"})
    @@ Each({"max_buffer_size"}, Kind("size"))
    @@ Signed({"max_qos"}, Zero, <<0, 2>>)
    @@ Words({"mqtt3_qos_exceed_action"}, {"disconnect", "drop"})
    @@ Each({"only_allow_from", "deny_from"}, Kind("network"))

validBridgeKeys ==
    {"local_username", "remote_username", "remote_password", "remote_clean_start",
     "remote_session_expiry_interval", "remote_retain_available", "local_clean_start",
     "local_session_expiry_interval", "subscribe", "publish", "clientid_prefix", "use_saved_clientid",
     "inet_protocol", "address", "fullchain", "privkey", "ca_file", "ca_dir", "port", "tls",
     "protocol_version", "bridge_protocol_bit", "keepalive", "max_outgoing_topic_aliases",
     "max_incoming_topic_aliases", "tcp_nodelay", "local_prefix", "remote_prefix",
     "minimum_tls_version", "connection_count", "max_buffer_size"}

BridgeLinkOptions ==
    Each({"local_username", "remote_username", "remote_password", "address"}, Kind("text"))
    @@ Each({"remote_clean_start", "local_clean_start", "bridge_protocol_bit"}, Kind("flag"))
    @@ Ranged({"remote_session_expiry_interval", "local_session_expiry_interval"}, Zero, MaxUint32)
    @@ Each({"subscribe", "publish"}, Kind("topic"))
    @@ Each({"clientid_prefix"}, Kind("prefix"))
    @@ Ranged({"port"}, Zero, MaxUint16)
    @@ Words({"protocol_version"}, {"mqtt3.1", "mqtt3.1.1", "mqtt5"})
    @@ Ranged({"keepalive"}, <<0, 10>>, MaxUint16)
    @@ Words({"tls"}, {"unverified", "on", "off"})

\* The value of tcp_nodelay is not read.
BridgeOtherOptions ==
    Each({"fullchain", "privkey", "ca_file"}, Kind("file"))
    @@ Each({"ca_dir"}, Kind("dir"))
    @@ Ranged({"max_incoming_topic_aliases", "max_outgoing_topic_aliases"}, Zero, MaxUint16)
    @@ Words({"inet_protocol"}, {"ip4", "ip6", "ip4_ip6"})
    @@ Each({"use_saved_clientid", "remote_retain_available"}, Kind("flag"))
    @@ Each({"tcp_nodelay"}, Kind("yes"))
    @@ Each({"local_prefix", "remote_prefix"}, Kind("slashed"))
    @@ Words({"minimum_tls_version"}, {"tlsv1.3", "tlsv1.2", "tlsv1.1"})
    @@ Each({"connection_count"}, Kind("count"))
    @@ Each({"max_buffer_size"}, Kind("size"))
BridgeOptions == BridgeLinkOptions @@ BridgeOtherOptions

validKeys ==
    {"plugin", "plugin_serialize_init", "plugin_serialize_auth_checks", "plugin_timer_period",
     "log_file", "quiet", "allow_unsafe_clientid_chars", "allow_unsafe_username_chars",
     "client_initial_buffer_size", "max_packet_size", "max_qos", "mqtt3_qos_exceed_action", "log_debug",
     "log_subscriptions", "log_publishes", "log_level", "mosquitto_password_file",
     "mosquitto_acl_file", "allow_anonymous", "rlimit_nofile", "expire_sessions_after_seconds",
     "thread_count", "storage_dir", "max_qos_msg_pending_per_client",
     "max_qos_bytes_pending_per_client", "wills_enabled", "retained_messages_mode",
     "retained_messages_node_limit", "retained_messages_node_creation_limit_enforcement_mode",
     "retained_messages_node_creation_limit_enforcement_depth", "retained_messages_node_creation_limit",
     "retained_message_max_payload_size", "expire_retained_messages_after_seconds",
     "retained_message_node_lifetime", "expire_retained_messages_time_budget_ms",
     "websocket_set_real_ip_from", "shared_subscription_targeting", "max_incoming_topic_alias_value",
     "max_outgoing_topic_alias_value", "client_max_write_buffer_size",
     "retained_messages_delivery_limit", "include_dir", "rebuild_subscription_tree_interval_seconds",
     "minimum_wildcard_subscription_depth", "max_topic_split_depth", "wildcard_subscription_deny_mode",
     "zero_byte_username_is_anonymous", "overload_mode", "max_event_loop_drift",
     "set_retained_message_defer_timeout", "set_retained_message_defer_timeout_spread",
     "save_state_interval", "subscription_node_lifetime", "subscription_identifiers_enabled",
     "persistence_data_to_save", "max_string_length"}

ClientOptions ==
    Each({"plugin"}, Kind("file"))
    @@ Each({"log_file"}, Kind("log"))
    @@ Each({"quiet", "allow_unsafe_clientid_chars", "allow_unsafe_username_chars",
             "plugin_serialize_init", "plugin_serialize_auth_checks", "log_debug", "log_subscriptions",
             "log_publishes"}, Kind("flag"))
    @@ Each({"client_initial_buffer_size"}, Kind("buffer"))
    @@ Signed({"max_packet_size"}, MinInt, <<268, 435455>>)
    @@ Ranged({"max_qos"}, Zero, <<0, 2>>)
    @@ Words({"mqtt3_qos_exceed_action"}, {"disconnect", "drop"})
    @@ ("log_level" :> [type |-> "choice",
            of |-> [w \in {"debug", "info", "notice", "warning", "error", "none"} |->
                        IF w = "error" THEN "warning" ELSE w]])

SessionOptions ==
    Each({"mosquitto_password_file", "mosquitto_acl_file"}, Kind("file"))
    @@ Each({"allow_anonymous", "wills_enabled"}, Kind("flag"))
    @@ Signed({"rlimit_nofile"}, <<0, 1>>, MaxInt)
    @@ Each({"expire_sessions_after_seconds"}, Kind("expiry"))
    @@ Signed({"plugin_timer_period", "thread_count"}, Zero, MaxInt)
    @@ Each({"storage_dir"}, Kind("storage"))
    @@ Ranged({"max_qos_msg_pending_per_client"}, <<0, 32>>, MaxUint16)
    @@ Ranged({"max_qos_bytes_pending_per_client"}, <<0, 4096>>, MaxUint32)
    @@ Ranged({"max_incoming_topic_alias_value", "max_outgoing_topic_alias_value"}, Zero, MaxUint16)
    @@ Words({"retained_messages_mode"},
             {"enabled", "enabled_without_persistence", "enabled_without_retaining", "downgrade", "drop",
              "disconnect_with_error"})

StoreOptions ==
    Each({"expire_retained_messages_after_seconds"}, Kind("wrapped"))
    @@ Signed({"retained_message_node_lifetime"}, Zero, MaxInt)
    @@ Each({"websocket_set_real_ip_from"}, Kind("network"))
    @@ Words({"shared_subscription_targeting"}, {"round_robin", "sender_hash", "first"})
    @@ Ranged({"client_max_write_buffer_size"}, <<0, 4096>>, MaxUint32)
    @@ Ranged({"retained_messages_node_limit", "retained_messages_node_creation_limit",
               "retained_message_max_payload_size"}, <<0, 1>>, MaxUint32)
    @@ Words({"retained_messages_node_creation_limit_enforcement_mode"}, {"reject", "log"})
    @@ Ranged({"retained_messages_node_creation_limit_enforcement_depth"}, Zero, MaxUint16)
    @@ Ranged({"minimum_wildcard_subscription_depth", "max_topic_split_depth"}, Zero, MaxUint16)
    @@ Words({"wildcard_subscription_deny_mode"}, {"deny_all", "deny_retained_only"})
    @@ Each({"zero_byte_username_is_anonymous"}, Kind("flag"))

LoopOptions ==
    Words({"overload_mode"}, {"log", "close_new_clients"})
    @@ Signed({"max_event_loop_drift"}, <<0, 500>>, MaxInt)
    @@ Signed({"set_retained_message_defer_timeout", "set_retained_message_defer_timeout_spread",
               "subscription_node_lifetime"}, Zero, MaxInt)
    @@ Signed({"save_state_interval"}, <<0, 300>>, MaxInt)
    @@ Each({"subscription_identifiers_enabled"}, Kind("flag"))
    @@ Each({"persistence_data_to_save"}, Kind("save"))
    @@ Ranged({"max_string_length"}, Zero, MaxUint16)
RootOptions == ClientOptions @@ SessionOptions @@ StoreOptions @@ LoopOptions

\* Keys that start with plugin_opt_.
PluginKeys == {"plugin_opt_a", "plugin_opt_b"}

\* A line of a block: a key that nothing reads is valid where it is known.
Applied(valid, options, block, l, d) ==
    LET kind == options[l.key]
    IN  IF l.key \notin valid \/ ~(DOMAIN options \subseteq valid) THEN {}
        ELSE IF l.key \notin DOMAIN options THEN {b \in {block} : Len(l.values) = 1}
        ELSE IF Len(l.values) # ExpectedValues(kind, l.values) THEN {}
        ELSE {Store(block, l.key, x) : x \in Read(kind, l.values, d)}

-----------------------------------------------------------------------------
(* Blocks.                                                                    *)
NoText == Text("")
IsSsl(b) == {"fullchain", "privkey"} \cap DOMAIN b # {}
CertOf(b) == Given(b, "fullchain", NoText)
KeyOf(b) == Given(b, "privkey", NoText)
ChecksClients(b) == {"client_verification_ca_file", "client_verification_ca_dir"} \cap DOMAIN b # {}
testSsl(b, d) == <<CertOf(b), KeyOf(b)>> \in d.pairs
testSslVerifyLocations(b, keys, d) == \A k \in keys \cap DOMAIN b : b[k] \in d.authorities

DropListener(b, d) ==
    /\ Given(b, "drop_on_absent_certificate", FALSE) /\ IsSsl(b)
    /\ KeyOf(b) \notin d.readable /\ CertOf(b) \notin d.readable

\* The port that isValid fills in.
DefaultPort(b) ==
    LET protocol == Given(b, "protocol", "mqtt")
    IN  CASE IsSsl(b) -> IF protocol = "websockets" THEN 4443 ELSE 8883
          [] ~IsSsl(b) /\ protocol = "acme" -> 80
          [] ~IsSsl(b) /\ protocol = "websockets" -> 8080
          [] OTHER -> 1883
WithPort(b, default) == IF Given(b, "port", Small(0)) = Small(0) THEN ("port" :> Small(default)) @@ b ELSE b

ListenerIsValid(b, d) ==
    LET protocol == Given(b, "inet_protocol", "ip4_ip6")
        has(keys) == keys \cap DOMAIN b # {}
    IN  /\ IF IsSsl(b)
           THEN /\ ~has({"acme_redirect_url"})
                /\ DropListener(b, d) \/ ({CertOf(b), KeyOf(b)} \subseteq d.readable /\ testSsl(b, d))
                /\ testSslVerifyLocations(
                       b, {"client_verification_ca_file", "client_verification_ca_dir"}, d)
           ELSE ~Given(b, "drop_on_absent_certificate", FALSE)
        /\ protocol # "unix" => ~has({"unix_socket_path"})
        /\ protocol = "unix" =>
               /\ has({"unix_socket_path"}) /\ ~IsSsl(b)
               /\ ~has({"inet4_bind_address", "inet6_bind_address", "acme_redirect_url"})
        /\ ChecksClients(b) => IsSsl(b)
        /\ Within(WithPort(b, DefaultPort(b)).port, <<0, 1>>, <<0, 65534>>)
        /\ Given(b, "protocol", "mqtt") = "acme" => has({"acme_redirect_url"})
        /\ ChecksClients(b) => Given(b, "haproxy", "off") \in {"off", "on"}

CountOf(b) == Given(b, "connection_count", Small(1)).number
TopicsOf(b) == Given(b, "subscribe", <<>>) \o Given(b, "publish", <<>>)

BridgeIsValid(b, d) ==
    LET has(keys) == keys \cap DOMAIN b # {}
    IN  /\ has({"privkey"}) <=> has({"fullchain"})
        /\ Given(b, "tls", "off") # "off" =>
               /\ IsSsl(b) => testSsl(b, d)
               /\ testSslVerifyLocations(b, {"ca_file", "ca_dir"}, d)
        /\ has({"address"}) /\ TopicsOf(b) # <<>>
        /\ ~({"ca_dir", "ca_file"} \subseteq DOMAIN b)
        /\ Given(b, "protocol_version", "mqtt3.1.1") # "mqtt5" /\ has({"remote_password"})
               => has({"remote_username"})
        /\ LessEq(<<0, 2>>, CountOf(b)) =>
               /\ Given(b, "protocol_version", "mqtt3.1.1") = "mqtt5"
               /\ \A i \in DOMAIN TopicsOf(b) : TopicsOf(b)[i].topic \notin Shares

PrefixOf(b) == Given(b, "clientid_prefix", Text("fmqbridge")).text

\* What either of them says; the first one where both do.
FirstOf(f, g) == [x \in DOMAIN f \union DOMAIN g |-> IF x \in DOMAIN f THEN f[x] ELSE g[x]]

\* One configuration for each of the connections of a bridge.
Multiply(b, shareName) ==
    LET count == CountOf(b)[2]
        group == count > 1
    IN  [i \in 1..count |->
            [config |-> FirstOf([connection_count |-> Small(1)], b),
             prefix |-> IF group THEN PrefixOf(b) \o "_" \o ToString(i - 1) ELSE PrefixOf(b),
             share |-> IF group THEN shareName ELSE "",
             group |-> group]]

-----------------------------------------------------------------------------
(* The lines.                                                                  *)
Files(d) == DOMAIN d.lines

\* The files that a line of a file stands for; a line that is indented includes none.
IncludedBy(l, d) ==
    IF l.is = "option" /\ l.key = "include_dir" /\ ~l.indented
    THEN IF l.values[1] \in DOMAIN d.dirs THEN d.dirs[l.values[1]] ELSE <<NoText>>
    ELSE <<>>

\* All lines, those of a directory after the line that includes it. What cannot be read
\* stands there as a line that makes the first pass throw. No directory includes itself.
readFileRecursively(path, d) ==
    LET all[depth \in 0..Cardinality(Files(d)), f \in Files(d) \union {NoText}] ==
            IF depth = 0 \/ f \notin Files(d) \/ f \notin d.readable THEN <<Nonsense>>
            ELSE FlattenSeq([i \in DOMAIN d.lines[f] |->
                     LET l == d.lines[f][i]
                         files == IncludedBy(l, d)
                     IN  <<l>> \o FlattenSeq([j \in DOMAIN files |-> all[depth - 1, files[j]]])])
    IN  all[Cardinality(Files(d)), path]

Count(lines, what) == Cardinality({i \in DOMAIN lines : lines[i].is = what})
FirstPass(lines) ==
    /\ Count(lines, "nonsense") = 0
    /\ Count(lines, "start") = Count(lines, "end")

Parsed(root, plugin, listeners, bridges) ==
    [levels |-> <<"root">>, block |-> <<>>, root |-> root, plugin |-> plugin,
     listeners |-> listeners, bridges |-> bridges]

StartBlock(p, l) ==
    {[q EXCEPT !.levels = Append(@, l.name), !.block = <<>>] :
        q \in {x \in {p} : l.name \in {"listen", "bridge"} /\ Last(p.levels) = "root"}}

EndBlock(p, d) ==
    LET up == [p EXCEPT !.levels = Front(@)]
    IN  CASE Last(p.levels) = "listen" ->
                {IF DropListener(p.block, d) THEN x
                 ELSE [x EXCEPT !.listeners = Append(@, WithPort(p.block, DefaultPort(p.block)))] :
                    x \in {y \in {up} : ListenerIsValid(p.block, d)}}
          [] Last(p.levels) = "bridge" ->
                {[x EXCEPT !.bridges = Append(@,
                      WithPort(p.block, IF Given(p.block, "tls", "off") = "off" THEN 1883 ELSE 8883))] :
                    x \in {y \in {up} : BridgeIsValid(p.block, d)}}
          [] OTHER -> {}

OptionLine(p, l, d) ==
    CASE Last(p.levels) = "listen" ->
            {[p EXCEPT !.block = b] : b \in Applied(validListenKeys, ListenOptions, p.block, l, d)}
      [] Last(p.levels) = "bridge" ->
            {[p EXCEPT !.block = b] : b \in Applied(validBridgeKeys, BridgeOptions, p.block, l, d)}
      [] Last(p.levels) = "root" /\ l.key \in PluginKeys ->
            {[p EXCEPT !.plugin = (l.key :> v) @@ @] : v \in {x \in {l.values[1]} : Len(l.values) = 1}}
      [] OTHER -> {[p EXCEPT !.root = b] : b \in Applied(validKeys, RootOptions, p.root, l, d)}

\* Once the file is known to be well formed, its lines are processed.
SecondPass(lines, d) ==
    LET step(p, l) == CASE l.is = "start" -> StartBlock(p, l)
                        [] l.is = "end" -> EndBlock(p, d)
                        [] l.is = "option" -> OptionLine(p, l, d)
                        [] OTHER -> {p}
        after[i \in 0..Len(lines)] ==
            IF i = 0 THEN {Parsed(<<>>, <<>>, <<>>, <<>>)}
            ELSE UNION {step(p, lines[i]) : p \in after[i - 1]}
    IN  after[Len(lines)]

checkUniqueBridgeNames(bridges) ==
    \A i, j \in DOMAIN bridges : PrefixOf(bridges[i]) = PrefixOf(bridges[j]) => i = j

ParsedFile(path, d) ==
    LET lines == readFileRecursively(path, d)
    IN  IF FirstPass(lines) THEN {p \in SecondPass(lines, d) : checkUniqueBridgeNames(p.bridges)} ELSE {}

-----------------------------------------------------------------------------
(* The names that the connections of a bridge share (BridgeClientGroupIds): those  *)
(* that are known, and the file where they are kept.                             *)
NoFile == [state |-> "absent", names |-> <<>>]
HasStorage(root) == "storage_dir" \in DOMAIN root

\* A test reads the file too, but takes nothing from it. A corrupt file makes it throw.
loadShareNames(names, file, root, real) ==
    IF HasStorage(root) /\ file.state = "corrupt" THEN {}
    ELSE {IF HasStorage(root) /\ real THEN FirstOf(file.names, names) ELSE names}

\* Each bridge that has no name yet gets a random one: the next number.
WithShareNames(names, bridges, next) ==
    LET new == {i \in DOMAIN bridges : PrefixOf(bridges[i]) \notin DOMAIN names}
        number(p) == next + Cardinality({j \in new : \E i \in new : j <= i /\ PrefixOf(bridges[i]) = p})
    IN  FirstOf(names, [p \in {PrefixOf(bridges[i]) : i \in new} |-> "share" \o ToString(number(p))])

\* No vector can hold so many.
TooMany(b) == LessEq(<<1000, 0>>, CountOf(b))

\* What loadFile gives when it does not throw: the settings, the names and their file.
Loaded(p, names, file, test) ==
    [names |-> names,
     file |-> IF ~test /\ HasStorage(p.root) THEN [state |-> "good", names |-> names] ELSE file,
     settings |->
        [root |-> p.root, plugin |-> p.plugin, listeners |-> p.listeners,
         bridges |-> FlattenSeq([i \in DOMAIN p.bridges |->
                         Multiply(p.bridges[i], names[PrefixOf(p.bridges[i])])])]]

\* parsed is what ParsedFile gives.
loadFile(parsed, names, file, next, test) ==
    UNION {{Loaded(p, WithShareNames(n, p.bridges, next), file, test) :
               n \in loadShareNames(names, file, p.root, ~test)} :
        p \in {q \in parsed : \A i \in DOMAIN q.bridges : ~TooMany(q.bridges[i])}}

-----------------------------------------------------------------------------
(* Each option of an accepted file is in the block that its place says, each block *)
(* is kept, and nothing of one block gets into another: however the files include  *)
(* each other, whatever comes between and however often a key is given            *)
(* (configfileparser.cpp:435-512).                                            *)
EnclosingBlock(lines, i) ==
    LET starts == {s \in 1..i : lines[s].is = "start" /\ \A e \in s..i : lines[e].is # "end"}
    IN  IF starts = {} THEN 0 ELSE CHOOSE s \in starts : TRUE
KeysOf(lines, s) ==
    {lines[i].key : i \in {j \in DOMAIN lines : lines[j].is = "option" /\ EnclosingBlock(lines, j) = s}}
BlockStarts(lines, name) ==
    {i \in DOMAIN lines : lines[i].is = "start" /\ lines[i].name = name}
\* The keys of the n-th of these blocks.
KeysOfNth(lines, starts, n) ==
    KeysOf(lines, CHOOSE s \in starts : Cardinality({t \in starts : t <= s}) = n)
KeysAre(block, keys, options) ==
    DOMAIN block \ {"port", "haproxy"} = (keys \cap DOMAIN options) \ {"port", "haproxy"}

BlocksAreKept(path, d) ==
    LET lines == readFileRecursively(path, d)
        listens == BlockStarts(lines, "listen")
        bridges == BlockStarts(lines, "bridge")
    IN  \A p \in ParsedFile(path, d) :
            /\ KeysAre(p.root, KeysOf(lines, 0), RootOptions)
            /\ DOMAIN p.plugin = KeysOf(lines, 0) \cap PluginKeys
            /\ Len(p.bridges) = Cardinality(bridges)
            /\ \A i \in DOMAIN p.bridges :
                   KeysAre(p.bridges[i], KeysOfNth(lines, bridges, i), BridgeOptions)
            /\ \A i \in DOMAIN p.listeners : \E s \in listens :
                   KeysAre(p.listeners[i], KeysOf(lines, s), ListenOptions)
            /\ \A s \in listens :
                   "drop_on_absent_certificate" \in KeysOf(lines, s)
                   \/ \E i \in DOMAIN p.listeners :
                          KeysAre(p.listeners[i], KeysOf(lines, s), ListenOptions)
            /\ Len(p.listeners) <= Cardinality(listens)
=============================================================================
