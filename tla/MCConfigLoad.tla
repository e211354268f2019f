---------------------------- MODULE MCConfigLoad ----------------------------
(***************************************************************************)
(* Instances of ConfigLoad for TLC.  The client's file leaves out or sets  *)
(* one group of keys at a time, under every profile and both versions, and *)
(* lists every mapping already; the server's is the plain one, or that of  *)
(* a gaming profile, with any padding, and has a mapping to be added.      *)
(***************************************************************************)
EXTENDS ConfigLoad

MCEnds == {"server", "client"}
MCServer == {"server"}
MCPorts == {443, 8443}
MCCuts == {3, 10}

Plain(mode, ports) ==
  {[EmptyFile EXCEPT !.version = v, !.mode = mode, !.psk = Key, !.profile = p,
                     !.maps = ports] :
     v \in {0, 2}, p \in {"", "speed", "gaming", "latency", "streaming", "lowcpu"}}

\* The groups: keep-alive, buffers, padding, the pool of a path, the session timeout,
\* the version of smux.
Variants(f) ==
  {[f EXCEPT !.keepAlive = k, !.jitter = j] : k \in {1, 25}, j \in {0, 10}}
    \cup {[f EXCEPT !.maxRecv = r, !.maxStream = s] :
            r, s \in {0, 512, 3000}}
    \cup {[f EXCEPT !.randomPadding = r, !.obfuscation = o] : r, o \in BOOLEAN}
    \cup {[f EXCEPT !.pool = n] : n \in {1, 8}}
    \cup {[f EXCEPT !.timeout = n, !.advTimeout = m] : n \in {0, 15, 60}, m \in {0, 15}}
    \cup {[f EXCEPT !.smux = n] : n \in {1, 3}}

\* The server differs from its peers in what both ends must agree about.
Server ==
  {[f EXCEPT !.randomPadding = r, !.obfuscation = o] :
     f \in {g \in Plain("server", {443}) : g.profile \in {"", "latency"}},
     r, o \in BOOLEAN}

MCFiles ==
  [e \in MCEnds |->
     IF e = "client" THEN UNION {Variants(f) : f \in Plain(e, MCPorts)}
     ELSE {f \in Server : f.profile = "" \/ (f.randomPadding /\ ~f.obfuscation)}]
=============================================================================
