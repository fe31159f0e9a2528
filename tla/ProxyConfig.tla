---------------------------- MODULE ProxyConfig ----------------------------
(***************************************************************************)
(* The settings of the proxy in table config (db_manager.py) and the tool  *)
(* that changes them (proxy_config.py): one user, one command at a time.   *)
(* The main service reads the settings when it starts mitmdump; the tool   *)
(* asks for that with the command RESTART.                                 *)
(*                                                                         *)
(* A row of type "option" was set by setopt and may be deleted by delopt;  *)
(* a row of type "setting" may not.  upstream_server is the one key with a *)
(* meaning for the service that has no row at first, so that setopt takes  *)
(* it for an option.                                                       *)
(***************************************************************************)
EXTENDS Naturals

CONSTANTS
    Ports, DefaultPort,   \* ports of the proxy, DEFAULT_CONFIG["proxy_port"]
    Servers, None,        \* upstream servers; no server
    MaxChanges            \* bound on the commands that change the settings

ASSUME ConfigAssumption ==
    /\ DefaultPort \in Ports
    /\ None \notin Servers
    /\ MaxChanges \in Nat

VARIABLES
    conf,      \* proxy_port, upstream_enable and the row of upstream_server
    enabling,  \* cmd_upstream has written the server and not yet the switch
    dirty,     \* history: settings have changed since the last RESTART sent
    changes    \* commands that have changed the settings

configVars == <<conf, enabling, dirty, changes>>

Types  == {"absent", "setting", "option"}
Config == [port : Ports, enable : BOOLEAN, server : Servers \cup {None}, type : Types]

\* The default rows of _initialize_db, or whatever earlier commands made of
\* them; "upstream enable" and delopt leave the switch on without a server.
ConfigInit ==
    /\ conf \in Config /\ (conf.type = "absent" <=> conf.server = None)
    /\ enabling = FALSE
    /\ dirty = FALSE
    /\ changes = 0

\* A command's first statement; it begins only when the one before is over.
Write(new) ==
    /\ changes < MaxChanges /\ ~enabling
    /\ conf' = new
    /\ dirty' = TRUE
    /\ changes' = changes + 1

\* cmd_port; the tool refuses a port that is taken.
CmdPort(taken) ==
    /\ \E p \in Ports \ taken : Write([conf EXCEPT !.port = p])
    /\ UNCHANGED enabling

\* cmd_upstream with a URL: the server first, then the switch.
CmdUpstream ==
    /\ \E s \in Servers : Write([conf EXCEPT !.server = s, !.type = "setting"])
    /\ enabling' = TRUE

CmdUpstreamSwitch ==
    /\ enabling
    /\ conf' = [conf EXCEPT !.enable = TRUE]
    /\ dirty' = TRUE
    /\ enabling' = FALSE
    /\ UNCHANGED changes

\* "upstream enable" needs a server, "upstream disable" does not.
CmdUpstreamEnable ==
    /\ conf.server # None
    /\ Write([conf EXCEPT !.enable = TRUE])
    /\ UNCHANGED enabling

CmdUpstreamDisable ==
    /\ Write([conf EXCEPT !.enable = FALSE])
    /\ UNCHANGED enabling

\* "setopt upstream_server=s", refused for a setting.
CmdSetopt ==
    /\ conf.type # "setting"
    /\ \E s \in Servers : Write([conf EXCEPT !.server = s, !.type = "option"])
    /\ UNCHANGED enabling

\* Mutant: the value is deleted and the row stays.
CmdDeloptKeepsRow ==
    /\ conf.type = "option"
    /\ Write([conf EXCEPT !.server = None])
    /\ UNCHANGED enabling

\* "delopt upstream_server", refused for a setting.
CmdDelopt ==
    /\ conf.type = "option"
    /\ Write([conf EXCEPT !.server = None, !.type = "absent"])
    /\ UNCHANGED enabling

ConfigStep(taken) ==
    \/ CmdPort(taken)
    \/ CmdUpstream \/ CmdUpstreamSwitch \/ CmdUpstreamEnable \/ CmdUpstreamDisable
    \/ CmdSetopt \/ CmdDelopt

\* What mitmdump is to be started with; "instead" says that the port is the
\* default one because the configured one was taken.
Command == [port : Ports, instead : BOOLEAN, enable : BOOLEAN, server : Servers \cup {None}]

\* A command that follows the settings.
Follows(c) ==
    /\ c.instead \/ c.port = conf.port
    /\ c.enable = conf.enable
    /\ c.server = IF conf.enable THEN conf.server ELSE None

\* The settings have their types; a row is absent exactly when it has no value.
ConfigTypeOK ==
    /\ conf \in Config
    /\ (conf.type = "absent") <=> (conf.server = None)
    /\ {enabling, dirty} \subseteq BOOLEAN
    /\ changes \in 0 .. MaxChanges

=============================================================================
