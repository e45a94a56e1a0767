------------------------------ MODULE ServerName ------------------------------
(***************************************************************************)
(* The name of the server (services/server_identity.py): the host name of  *)
(* the system, the loopback names of /etc/hosts, and the settings that     *)
(* remember what was applied.  A change writes the hosts file, then the    *)
(* host name, then four settings; any of these may fail or be the last.    *)
(* One change at a time.  Samba reads the new name when it is restarted,   *)
(* whose failure is a warning; it has no part here.                        *)
(***************************************************************************)
EXTENDS Naturals

CONSTANTS Hosts,        \* host names
          NoName,       \* the empty string
          MaxNameMoves  \* bound: changes by the program, and by others

ASSUME NameAssumption == MaxNameMoves \in Nat

VARIABLES hostname,  \* the host name
          hosts,     \* the names of the loopback addresses in /etc/hosts
          meta,      \* server_name, hostname_managed, original_ and applied_hostname
          req,       \* the change under way
          nameTorn,  \* a change was cut short, or not undone, or not made here
          nameMoves

nameVars == <<hostname, hosts, meta, req, nameTorn, nameMoves>>

NameIdle == [pc |-> "idle", new |-> NoName, old |-> NoName, content |-> {}]

NameAt(pc) == req.pc = pc

NameGoto(pc) == req' = [req EXCEPT !.pc = pc]

NameMove == nameMoves < MaxNameMoves /\ nameMoves' = nameMoves + 1

update_server_name(n) ==
  /\ NameAt("idle") /\ NameMove
  /\ req' = [pc |-> "hosts", new |-> n, old |-> hostname, content |-> hosts]
  /\ UNCHANGED <<hostname, hosts, meta, nameTorn>>

\* Mutant: the new name is written only in place of the old one.
Replaced(names, old, new) ==
  IF old \in names THEN (names \ {old}) \cup {new} ELSE names

(* update_hosts_content: the new name takes the place of the old one; a    *)
(* file without either gets a line.                                        *)
Renamed(names, old, new) ==
  IF old \in names THEN (names \ {old}) \cup {new} ELSE names \cup {new}

UpdateHosts ==
  /\ NameAt("hosts")
  /\ hosts' = Renamed(hosts, req.old, req.new)
  /\ NameGoto("hostname")
  /\ UNCHANGED <<hostname, meta, nameTorn, nameMoves>>

(* hostnamectl may do its work and then time out. *)
SetHostname ==
  /\ NameAt("hostname")
  /\ \/ hostname' = req.new /\ NameGoto("original") /\ UNCHANGED nameTorn
     \/ UNCHANGED hostname /\ NameGoto("restore") /\ UNCHANGED nameTorn
     \/ hostname' = req.new /\ NameGoto("restore") /\ nameTorn' = TRUE
  /\ UNCHANGED <<hosts, meta, nameMoves>>

(* hostnamectl failed: the hosts file is written back, if that works. *)
RestoreHosts ==
  /\ NameAt("restore")
  /\ \/ hosts' = req.content /\ UNCHANGED nameTorn
     \/ UNCHANGED hosts /\ nameTorn' = TRUE
  /\ req' = NameIdle
  /\ UNCHANGED <<hostname, meta, nameMoves>>

NameSet(pc, next, m) == NameAt(pc) /\ meta' = m /\ NameGoto(next)

(* _persist_hostname_metadata: the original name is that of the first      *)
(* change, until a save of the whole configuration forgets it.             *)
SaveMetadata ==
  /\ \/ NameSet("original", "server", IF meta.managed THEN meta
                                  ELSE [meta EXCEPT !.original = req.old])
     \/ NameSet("server", "managed", [meta EXCEPT !.server = req.new])
     \/ NameSet("managed", "applied", [meta EXCEPT !.managed = TRUE])
  /\ UNCHANGED <<hostname, hosts, nameTorn, nameMoves>>

SaveApplied ==
  /\ NameAt("applied")
  /\ meta' = [meta EXCEPT !.applied = req.new]
  /\ req' = NameIdle /\ nameTorn' = FALSE
  /\ UNCHANGED <<hostname, hosts, nameMoves>>

(* A write fails, or the web service stops. *)
NameCutShort ==
  /\ ~NameAt("idle")
  /\ req' = NameIdle /\ nameTorn' = TRUE
  /\ UNCHANGED <<hostname, hosts, meta, nameMoves>>

(* create_systemd_config_file writes config.conf without the three keys. *)
RewriteConfig ==
  /\ NameAt("idle") /\ NameMove
  /\ meta' = [meta EXCEPT !.managed = FALSE, !.original = NoName, !.applied = NoName]
  /\ UNCHANGED <<hostname, hosts, req, nameTorn>>

(* The operator changes the host name, with or without the hosts file. *)
Operator(n) ==
  /\ NameAt("idle") /\ NameMove
  /\ hostname' = n
  /\ hosts' \in {hosts, {n}}
  /\ nameTorn' = TRUE
  /\ UNCHANGED <<meta, req>>

NameInit ==
  /\ hostname \in Hosts /\ hosts = {hostname}
  /\ meta = [server |-> NoName, managed |-> FALSE, original |-> NoName, applied |-> NoName]
  /\ req = NameIdle /\ nameTorn = FALSE /\ nameMoves = 0

NameNext ==
  \/ \E n \in Hosts : update_server_name(n) \/ Operator(n)
  \/ UpdateHosts \/ SetHostname \/ RestoreHosts \/ SaveMetadata \/ SaveApplied
  \/ NameCutShort \/ RewriteConfig

NameSpec == NameInit /\ [][NameNext]_nameVars

(***************************************************************************)
(* Properties.                                                             *)
(***************************************************************************)
(* The type of every variable. *)
NameTypeOK ==
  /\ hostname \in Hosts /\ hosts \in SUBSET Hosts
  /\ meta \in [server : Hosts \cup {NoName}, managed : BOOLEAN,
               original : Hosts \cup {NoName}, applied : Hosts \cup {NoName}]
  /\ req.pc \in {"idle", "hosts", "hostname", "restore", "original", "server", "managed",
                 "applied"}
  /\ nameTorn \in BOOLEAN /\ nameMoves \in 0..MaxNameMoves

(* After a change that succeeded, or failed and was undone, the server can *)
(* resolve its own name and the settings name the host, whatever an        *)
(* earlier change that was cut short, or the operator, had left behind.    *)
NamesAgree ==
  NameAt("idle") /\ ~nameTorn =>
    /\ hostname \in hosts
    /\ meta.managed => meta.server = hostname /\ meta.applied = hostname
=============================================================================
