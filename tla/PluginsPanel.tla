---------------------------- MODULE PluginsPanel ----------------------------
(***************************************************************************)
(* The list of the plugins and their switches (components/settings/        *)
(* PluginsPanel.tsx).  A switch asks for the opposite of what the list     *)
(* shows, or, of a plugin without a row, opens its configuration; the list *)
(* is fetched again when the answer has come.  What a plugin then does is  *)
(* PluginRegistry's; what is typed into a configuration is ConfigEditor's. *)
(***************************************************************************)
EXTENDS Integers, FiniteSets

CONSTANTS
  Plugins,
  Unconfigured, \* those without a row
  MaxCalls      \* bound: switches thrown

VARIABLES
  plugins,        \* of the server: each is "new", without a row, "off" or "on"
  shown, query,   \* the query's data; idle, asked, or the answer
  calls,          \* requests under way, numbered: what was asked and of what
  latest,         \* the last call of enableMut and disableMut
  configuring,    \* configPlugin
  thrown,         \* calls made
  missed          \* history: the list was last asked for in vain, or not at all
                  \* after a change

vars == <<plugins, shown, query, calls, latest, configuring, thrown, missed>>

Ops   == {"enable", "disable"}
Idle  == [at |-> "idle"]
Asked == [at |-> "asked"]
None  == "none"

Init ==
  /\ plugins \in [Plugins -> {"new", "off", "on"}]
  /\ \A p \in Plugins : plugins[p] = "new" <=> p \in Unconfigured
  /\ shown = plugins /\ query = Idle
  /\ calls = {} /\ latest = [o \in Ops |-> 0]
  /\ configuring = None
  /\ thrown = 0 /\ missed = FALSE

-----------------------------------------------------------------------------
(* isBusy: the last call of a kind hides those before it.                  *)
Busy(p) == \E c \in calls : c.of = p /\ c.n = latest[c.op]

(* togglePlugin.                                                           *)
Toggle(p) ==
  /\ ~Busy(p) /\ configuring = None /\ thrown < MaxCalls
  /\ LET op == IF shown[p] = "on" THEN "disable" ELSE "enable" IN
     IF shown[p] = "new"
     THEN configuring' = p /\ UNCHANGED <<calls, latest, thrown>>
     ELSE /\ thrown' = thrown + 1
          /\ calls' = calls \cup {[n |-> thrown', op |-> op, of |-> p, at |-> "asked"]}
          /\ latest' = [latest EXCEPT ![op] = thrown'] /\ UNCHANGED configuring
  /\ UNCHANGED <<plugins, shown, query, missed>>

(* "Configurar".                                                           *)
Configure(p) ==
  /\ configuring = None /\ configuring' = p
  /\ UNCHANGED <<plugins, shown, query, calls, latest, thrown, missed>>

(* refetch, which joins a fetch that is under way, though its answer may   *)
(* be older than the change.                                               *)
Refetched ==
  /\ query' = IF query = Idle THEN Asked ELSE query
  /\ missed' = (query.at = "answer")

(* The editor is left, or update_plugin_config has made or changed a row.  *)
Configured ==
  /\ configuring # None /\ configuring' = None
  /\ \/ /\ plugins' = [plugins EXCEPT ![configuring] = IF @ = "new" THEN "off" ELSE @]
        /\ Refetched
     \/ UNCHANGED <<plugins, query, missed>>
  /\ UNCHANGED <<shown, calls, latest, thrown>>

(* enable_plugin, disable_plugin: done, refused, or, of a plugin that does *)
(* not load, committed and failed.                                         *)
Served(c) ==
  /\ c \in calls /\ c.at = "asked"
  /\ \E end \in {"done", "failed"} \cup (IF c.op = "enable" THEN {"unloadable"} ELSE {}) :
       /\ calls' = (calls \ {c}) \cup {[c EXCEPT !.at = end]}
       /\ plugins' = IF end = "failed" THEN plugins
                     ELSE [plugins EXCEPT ![c.of] = IF c.op = "enable" THEN "on" ELSE "off"]
  /\ UNCHANGED <<shown, query, latest, configuring, thrown, missed>>

(* Variant: the list is not asked for.                                     *)
OnServedQuiet(c) ==
  /\ c \in calls /\ c.at # "asked" /\ calls' = calls \ {c}
  /\ UNCHANGED <<plugins, shown, query, latest, configuring, thrown, missed>>

(* onSuccess and onError, of which only the first asks for the list.       *)
OnServed(c) ==
  /\ c \in calls /\ c.at # "asked" /\ calls' = calls \ {c}
  /\ IF c.at = "done" THEN Refetched
     ELSE missed' = (missed \/ c.at = "unloadable") /\ UNCHANGED query
  /\ UNCHANGED <<plugins, shown, latest, configuring, thrown>>

Focus ==
  /\ query = Idle /\ query' = Asked /\ missed' = FALSE
  /\ UNCHANGED <<plugins, shown, calls, latest, configuring, thrown>>

Serve ==
  /\ query = Asked
  /\ \/ query' = [at |-> "answer", plugins |-> plugins] /\ UNCHANGED missed
     \/ query' = Idle /\ missed' = TRUE
  /\ UNCHANGED <<plugins, shown, calls, latest, configuring, thrown>>

OnList ==
  /\ query.at = "answer" /\ query' = Idle
  /\ shown' = query.plugins
  /\ UNCHANGED <<plugins, calls, latest, configuring, thrown, missed>>

Next ==
  \/ \E p \in Plugins : Toggle(p) \/ Configure(p)
  \/ \E c \in calls : Served(c) \/ OnServed(c)
  \/ Configured \/ Focus \/ Serve \/ OnList

Spec == Init /\ [][Next]_vars

-----------------------------------------------------------------------------
(* Once every call is answered, the switches stand as the plugins do,      *)
(* unless the list was last asked for in vain or, when a plugin did not    *)
(* load, was not asked for.                                                *)
StandsSo == calls = {} /\ query = Idle /\ ~missed => shown = plugins

-----------------------------------------------------------------------------
(* What the code does not do; each is refuted by a demonstration.          *)

AlwaysStandsSo == calls = {} /\ query = Idle => shown = plugins

(* A plugin is busy while a call of it is under way.                       *)
BusyTold == \A c \in calls : Busy(c.of)
=============================================================================
