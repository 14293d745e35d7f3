----------------------------- MODULE MCMainLoop -----------------------------
(* Configurations for the main thread: ones that differ in what a reload has to   *)
(* follow (listeners, certificates, bridges, timers), ones that cannot be loaded,  *)
(* and ones whose lines are spread over files or stand at the limits.             *)
EXTENDS MainLoop

Conf == Text("conf")
Section(name, options) == <<Start(name)>> \o options \o <<End>>
Bridge(prefix, count) ==
    Section("bridge", <<One("clientid_prefix", prefix), One("protocol_version", "mqtt5"),
        One("address", "remote"), Option("subscribe", <<Text("a"), Small(1)>>), Num("connection_count", count)>>)
MCDisk(lines) ==
    Disk([f \in {Conf, Text("inc1"), Text("inc2")} |->
             CASE f = Conf -> lines
               [] f = Text("inc1") -> <<Num("max_qos", 1), Start("listen")>>
               [] f = Text("inc2") -> <<Num("port", 1884), End, One("plugin_opt_a", "x")>>],
         (Text("dir") :> <<Text("inc1"), Text("inc2")>>),
         {Conf, Text("inc1"), Text("inc2"), Text("chain"), Text("key"), Text("other")},
         {Text("store")}, {<<Text("chain"), Text("key")>>}, {Text("ca")})
At(disk) == [disk |-> disk, busy |-> {}, corrupt |-> FALSE]
Storage == <<One("storage_dir", "store")>>
Tls(key) == Section("listen", <<One("fullchain", "chain"), One("privkey", key)>>)
Base == MCDisk(Storage \o Section("listen", <<Num("port", 1883)>>)
               \o Bridge("a", 1) \o Bridge("b", 1) \o Bridge("c", 2))
MCSituation ==
    [base |-> At(Base),
     timers |-> At(MCDisk(Storage \o <<Num("save_state_interval", 300)>>
            \o Section("listen", <<One("inet_protocol", "ip4"), One("overload_mode", "close_new_clients"),
                                   One("deny_from", "net")>>)
            \o Bridge("b", 1) \o Bridge("c", 2))),
     secure |-> At(MCDisk(Storage \o Tls("key"))),
     broken |-> At(MCDisk(Storage \o Tls("other"))),
     invalid |-> At(MCDisk(Storage \o <<One("max_qos", "much")>>)),
     corrupt |-> [At(Base) EXCEPT !.corrupt = TRUE],
     busy |-> [At(Base) EXCEPT !.busy = {Small(1883)}],
     include |-> At(MCDisk(<<One("include_dir", "dir"), Num("max_qos", 0)>> \o Bridge("b", 1) \o Bridge("c", 3)))]
MCFewEdits == {"base", "broken"}
MCFewSituations == Restrict(MCSituation, MCFewEdits)

MCMainSituation == MCSituation @@
    [limits |-> At(MCDisk(<<Option("persistence_data_to_save", <<[flag |-> "all", on |-> TRUE],
                                [flag |-> "bridge_info", on |-> FALSE]>>),
            One("log_level", "error"), One("allow_anonymous", "off"), One("allow_anonymous", "on"),
            Option("client_initial_buffer_size", <<Number(-2148, 516352)>>),
            Option("expire_retained_messages_after_seconds", <<Number(-1, 999999)>>),
            Option("max_qos_bytes_pending_per_client", <<Number(4294, 967295)>>),
            Num("expire_sessions_after_seconds", 0), Num("max_string_length", 0), Comment>>
            \o Section("listen", <<Num("port", 65534), One("haproxy", "on"), One("haproxy", "off"),
                                   Num("max_buffer_size", 0)>>))),
     dropped |-> At(MCDisk(
            Section("listen", <<One("fullchain", "none"), One("privkey", "none"),
                                One("drop_on_absent_certificate", "yes")>>)
            \o Section("listen", <<One("inet_protocol", "unix"), One("unix_socket_path", "socket")>>)
            \o Section("bridge", <<One("address", "remote"), One("tls", "unverified"), One("ca_file", "other"),
                                   Option("publish", <<Text("a")>>), One("local_prefix", "prefix/")>>))),
     nested |-> At(MCDisk(<<Start("listen")>> \o Bridge("b", 1) \o <<End>>)),
     twice |-> At(MCDisk(Bridge("b", 1) \o Bridge("b", 2))),
     negative |-> At(MCDisk(<<Option("max_qos_bytes_pending_per_client", <<Number(-1, 999999)>>)>>))]
MCEdits == {"base", "timers", "broken"}
MCMalformed == {Text("bad")}
MCSlashed == {Text("prefix/")}
MCShares == {Text("$share/g/t")}
=============================================================================
