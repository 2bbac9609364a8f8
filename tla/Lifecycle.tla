----------------------------- MODULE Lifecycle -----------------------------
(* The life of the application (src/app.rs): start, reloads through the     *)
(* management API, the listeners, and termination.                          *)
(*                                                                          *)
(* A reload is a request of the API.  It arrives through the WebUI's own    *)
(* server or through an HTTP listener, and requests run side by side.       *)
(* Every lock the code awaits separates two steps.  A listener that is shut *)
(* down aborts the requests that came through it, at the next lock they     *)
(* have to wait for.  A panic ends a reload where it is, and a start ends   *)
(* with it.                                                                 *)
EXTENDS Naturals, FiniteSets, Absent

CONSTANTS
    Reloaders,      \* requests that may run at the same time
    ConfFiles,      \* contents of the configuration file, see ConfFile
    ServerIds,      \* bound: servers at a time (numbers)
    MaxReloads      \* bound: reloads of one run of the process

\* valid: it parses; fails: the listeners whose certificate cannot be loaded
\* and those whose address cannot be bound.
ConfFile == [valid : BOOLEAN, webui : STRING, binds : SUBSET STRING,
             noCert : SUBSET STRING, noAddr : SUBSET STRING]

ASSUME LifecycleAssumption ==
    /\ ConfFiles \subseteq ConfFile /\ ServerIds \subseteq Nat /\ MaxReloads \in Nat
    /\ \A c \in ConfFiles : c.noCert \cup c.noAddr \subseteq c.binds

Server == [id : ServerIds, bind : STRING]

ASSUME LifeNullAssumption == Null \notin ConfFiles \cup Server

VARIABLES
    appCfg,         \* AppState::cfg, Null while the process is down
    appHandler,     \* the configuration of the dispatcher's handler
    ownListeners,   \* the configuration own_listeners::set was called for
    listeners,      \* AppState::listeners: what is served under which key
    servers,        \* the servers that run
    closing,        \* the servers a spawned task is about to shut down
    cacheLock,      \* who holds the lock of AppState::cache
    task,           \* the reloads; "init" is the start
    reloads,        \* how many there were since the start
    undisturbed,    \* history: the last reload ran alone and to its end
    aborted         \* history: a request was aborted

confVars == <<appCfg, appHandler, ownListeners>>
serveVars == <<listeners, servers, closing>>
lifeHistory == <<reloads, undisturbed, aborted>>
lifeVars == <<confVars, serveVars, cacheLock, task, lifeHistory>>

NoTask == [step |-> "none", via |-> Null, orphan |-> FALSE, cfg |-> Null, todo |-> {},
           shut |-> {}, inHand |-> Null]

Tasks == Reloaders \cup {"init"}

Active == {t \in Tasks : task[t].step # "none"}

Step(t, step) == task' = [task EXCEPT ![t].step = step]

Stopped(t) == task' = [task EXCEPT ![t] = NoTask]

LifeInit ==
    /\ appCfg = Null /\ appHandler = Null /\ ownListeners = Null
    /\ listeners = {} /\ servers = {} /\ closing = {}
    /\ cacheLock = Null
    /\ task = [t \in Tasks |-> NoTask]
    /\ reloads = 0 /\ undisturbed = FALSE /\ aborted = FALSE

\* serve, App::new: the process starts with a configuration that parses.
Start ==
    /\ appCfg = Null
    /\ \E file \in ConfFiles : file.valid /\ appCfg' = file
    /\ task' = [task EXCEPT !["init"] = [NoTask EXCEPT !.step = "cfg"]]
    /\ undisturbed' = TRUE /\ reloads' = 0
    /\ UNCHANGED <<appHandler, ownListeners, serveVars, cacheLock, aborted>>

\* The end of the process, after terminate or a failed start.
Down ==
    /\ appCfg' = Null /\ appHandler' = Null /\ ownListeners' = Null
    /\ listeners' = {} /\ servers' = {} /\ closing' = {}
    /\ cacheLock' = Null
    /\ task' = [t \in Tasks |-> NoTask]
    /\ reloads' = 0 /\ undisturbed' = FALSE /\ aborted' = FALSE

Terminate == appCfg # Null /\ task["init"].step = "none" /\ Down

-----------------------------------------------------------------------------
Acceptable(new) == new.valid /\ new.webui = appCfg.webui

ReloadBegins(t) ==
    /\ appCfg # Null /\ task["init"].step = "none" /\ task[t].step = "none" /\ t # "init"
    /\ \E file \in ConfFiles, via \in {Null} \cup {s \in servers : s.bind = "http"} :
         /\ Acceptable(file)
         /\ task' = [task EXCEPT ![t] = [NoTask EXCEPT !.step = "write", !.via = via, !.cfg = file]]
    /\ reloads < MaxReloads /\ reloads' = reloads + 1
    /\ undisturbed' = (Active = {})
    /\ UNCHANGED <<confVars, serveVars, cacheLock, aborted>>

WriteCfg(t) ==
    /\ task[t].step = "write"
    /\ appCfg' = task[t].cfg
    /\ task' = [task EXCEPT ![t].step = "cfg", ![t].cfg = Null]
    /\ UNCHANGED <<appHandler, ownListeners, serveVars, cacheLock, lifeHistory>>

\* update_middleware_handler: the configuration is read before the lock of
\* the cache is taken.
ReadCfg(t) ==
    /\ task[t].step = "cfg"
    /\ task' = [task EXCEPT ![t].step = "lock", ![t].cfg = appCfg]
    /\ ownListeners' = appCfg
    /\ UNCHANGED <<appCfg, appHandler, serveVars, cacheLock, lifeHistory>>

LockCache(t) ==
    /\ task[t].step = "lock" /\ cacheLock = Null
    /\ cacheLock' = t
    /\ Step(t, "build")
    /\ UNCHANGED <<confVars, serveVars, lifeHistory>>

BuildHandler(t) ==
    /\ task[t].step = "build"
    /\ appHandler' = task[t].cfg
    /\ cacheLock' = Null
    /\ task' = [task EXCEPT ![t].step = "compare", ![t].cfg = Null]
    /\ UNCHANGED <<appCfg, ownListeners, serveVars, lifeHistory>>

-----------------------------------------------------------------------------
\* update_listeners: what is to be bound and shut down, by key.
ToBind(cfg) == cfg.binds \ {s.bind : s \in listeners}

\* Listeners are shut down only to be replaced.
ToShutReplaced(cfg) == {s.bind : s \in listeners} \cap ToBind(cfg)

ToShut(cfg) == {s.bind : s \in listeners} \ cfg.binds

CompareListeners(t) ==
    /\ task[t].step = "compare"
    /\ task' = [task EXCEPT ![t].step = "shut", ![t].cfg = appCfg,
                            ![t].todo = ToBind(appCfg), ![t].shut = ToShut(appCfg)]
    /\ UNCHANGED <<confVars, serveVars, cacheLock, lifeHistory>>

ShutOld(t) ==
    LET old == {s \in listeners : s.bind \in task[t].shut}
    IN /\ task[t].step = "shut"
       /\ listeners' = listeners \ old
       /\ closing' = closing \cup old
       /\ Step(t, "bind")
       /\ UNCHANGED <<confVars, servers, cacheLock, lifeHistory>>

\* serve: a certificate that cannot be loaded is logged, an address that
\* cannot be bound is a panic.
ServeNew(t, bind) ==
    /\ task[t].step = "bind" /\ bind \in task[t].todo
    /\ \/ /\ bind \notin task[t].cfg.noCert \cup task[t].cfg.noAddr
          /\ \E id \in ServerIds :
               LET s == [id |-> id, bind |-> bind]
               IN /\ \A o \in servers : o.id # id
                  /\ \A less \in ServerIds : less < id => \E o \in servers : o.id = less
                  /\ servers' = servers \cup {s}
                  /\ task' = [task EXCEPT ![t].step = "insert", ![t].inHand = s,
                                          ![t].todo = @ \ {bind}]
          /\ UNCHANGED <<confVars, listeners, closing, cacheLock, lifeHistory>>
       \/ /\ bind \in task[t].cfg.noCert
          /\ task' = [task EXCEPT ![t].todo = @ \ {bind}]
          /\ UNCHANGED <<confVars, serveVars, cacheLock, lifeHistory>>
       \/ /\ bind \in task[t].cfg.noAddr
          /\ IF t = "init" THEN Down
             ELSE /\ Stopped(t)
                  /\ undisturbed' = FALSE
                  /\ UNCHANGED <<confVars, serveVars, cacheLock, reloads, aborted>>

\* The server of an earlier insertion is not shut down.
InsertListenerOver(t) ==
    /\ task[t].step = "insert"
    /\ listeners' = {s \in listeners : s.bind # task[t].inHand.bind} \cup {task[t].inHand}
    /\ task' = [task EXCEPT ![t].step = "bind", ![t].inHand = Null]
    /\ UNCHANGED <<confVars, servers, closing, cacheLock, lifeHistory>>

InsertListener(t) ==
    LET previous == {s \in listeners : s.bind = task[t].inHand.bind}
    IN /\ task[t].step = "insert"
       /\ listeners' = (listeners \ previous) \cup {task[t].inHand}
       /\ closing' = closing \cup previous
       /\ task' = [task EXCEPT ![t].step = "bind", ![t].inHand = Null]
       /\ UNCHANGED <<confVars, servers, cacheLock, lifeHistory>>

ReloadDone(t) ==
    /\ task[t].step = "bind" /\ task[t].todo = {}
    /\ Stopped(t)
    /\ UNCHANGED <<confVars, serveVars, cacheLock, lifeHistory>>

\* ServerHandle::shutdown: the server's loop ends, and its set of connections
\* is dropped with the requests they serve.
Shutdown(s) ==
    /\ s \in closing
    /\ closing' = closing \ {s} /\ servers' = servers \ {s}
    /\ task' = [t \in Tasks |-> [task[t] EXCEPT !.orphan = @ \/ (task[t].via = s /\ s # Null)]]
    /\ UNCHANGED <<confVars, listeners, cacheLock, lifeHistory>>

\* A lock is waited for only if another request uses it.
Abort(t) ==
    /\ task[t].orphan /\ Active # {t}
    /\ Stopped(t)
    /\ cacheLock' = IF cacheLock = t THEN Null ELSE cacheLock
    /\ undisturbed' = FALSE /\ aborted' = TRUE
    /\ UNCHANGED <<confVars, serveVars, reloads>>

LifeNext ==
    \/ Start \/ Terminate
    \/ \E t \in Tasks :
         \/ ReloadBegins(t) \/ WriteCfg(t) \/ ReadCfg(t) \/ LockCache(t) \/ BuildHandler(t)
         \/ CompareListeners(t) \/ ShutOld(t) \/ InsertListener(t) \/ ReloadDone(t) \/ Abort(t)
         \/ \E bind \in task[t].todo : ServeNew(t, bind)
    \/ \E s \in closing : Shutdown(s)

LifeSpec == LifeInit /\ [][LifeNext]_lifeVars

-----------------------------------------------------------------------------
\* Once a reload that ran alone has ended, everything follows one and the
\* same configuration: the handler, the addresses taken for this server's
\* own, and the listeners.  Only a listener whose certificate cannot be loaded
\* may be missing, and it is not if it was served before.
ReloadAgrees ==
    (undisturbed /\ Active = {}) =>
      /\ appHandler = appCfg /\ ownListeners = appCfg
      /\ {s.bind : s \in listeners} \subseteq appCfg.binds
      /\ appCfg.binds \ appCfg.noCert \subseteq {s.bind : s \in listeners}

\* No server is forgotten, however reloads overlap: what runs can be shut
\* down, or is about to be, unless a request was aborted while it held one.
NoServerLeaked ==
    ~aborted => servers = listeners \cup closing \cup {task[t].inHand : t \in {u \in Tasks : task[u].inHand # Null}}

==============================================================================
