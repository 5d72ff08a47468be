-------------------------------- MODULE Main --------------------------------
(***************************************************************************)
(* One life of the process (cmd/vitrine): it reads its configuration,      *)
(* opens the store, builds the themes, starts a goroutine that listens,    *)
(* waits for that one to fail or for a signal, and drains.  A request may  *)
(* stay open for ever: the server has no ReadTimeout.  What requests do is *)
(* Vitrine's and Response's, what is in a theme ThemeRegistry's.           *)
(***************************************************************************)
EXTENDS Naturals

CONSTANTS
    Requests,
    Unset,         \* a variable of the environment that is not set
    Invalid,       \* what Load returns with an error
    Running, Killed,
    MaxSignals     \* bound: so many SIGTERMs or SIGINTs

ASSUME StatusAssumption == Running \notin {0, 1, Killed} /\ Killed # 0

minSecretLen == 32

VARIABLES
    env,        \* the environment
    cfg,        \* the result of Load
    main,       \* what the main goroutine does next
    listener,   \* the other one: "off", "starting", "listening", "closing", "ended"
    errCh,      \* "empty", an "error" and then closed, or "closed" without one
    stop,       \* how many signals are in the channel, which has room for one
    signals,    \* how many were sent
    store,      \* "none", "open", "closed"
    open,       \* the requests in progress
    exit        \* the exit status, once the process has ended

goroutines == <<main, listener, errCh, stop>>
vars == <<env, cfg, goroutines, signals, store, open, exit>>

\* The length of the secret in bytes; an empty text and no text are the same for
\* it and for the base URL, and not for the theme.  A base URL that is none is text
\* like any other.
Environments ==
    [secret : {0, minSecretLen - 1, minSecretLen}, baseURL : {"", "url", "no url"},
     dev : {Unset, "", "true", "false", "maybe"}, theme : {Unset, "", "frost"}]

Init ==
    /\ env \in Environments
    /\ cfg = Invalid
    /\ main = "load" /\ listener = "off"
    /\ errCh = "empty" /\ stop = 0 /\ signals = 0
    /\ store = "none" /\ open = {} /\ exit = Running
-----------------------------------------------------------------------------
getEnv(value, fallback) == IF value = Unset THEN fallback ELSE value

getEnvBool(value) == CASE value \in {Unset, ""} -> FALSE [] value = "true" -> TRUE [] OTHER -> FALSE

\* MUTANT of Load: a secret that is too short is accepted.
LoadAnySecret(e) ==
    IF e.secret = 0 \/ e.baseURL = "" \/ e.dev = "maybe" THEN Invalid
    ELSE [dev |-> getEnvBool(e.dev), theme |-> getEnv(e.theme, "plain")]

\* config.Load.
Load(e) ==
    IF e.secret < minSecretLen \/ e.baseURL = "" \/ e.dev = "maybe" THEN Invalid
    ELSE [dev |-> getEnvBool(e.dev), theme |-> getEnv(e.theme, "plain")]

\* os.Exit: no deferred call runs, the requests in progress are cut off.
Exit(code) ==
    /\ exit' = code
    /\ UNCHANGED <<goroutines, store, open>>

Proceed(step) == main' = step /\ UNCHANGED <<errCh, stop, open, exit>>

LoadConfig ==
    /\ main = "load"
    /\ cfg' = Load(env)
    /\ IF cfg' = Invalid THEN Exit(1) ELSE Proceed("open") /\ UNCHANGED <<listener, store>>

OpenStore ==
    /\ main = "open"
    /\ \/ Exit(1)
       \/ Proceed("build") /\ store' = "open" /\ UNCHANGED listener
    /\ UNCHANGED cfg

\* buildRegistry: in dev mode the configured theme has to be there, and a set but
\* empty VITRINE_THEME names none; otherwise the embedded theme is enough.
BuildRegistry ==
    /\ main = "build"
    /\ \/ cfg.dev /\ Exit(1)
       \/ ~ (cfg.dev /\ cfg.theme = "") /\ Proceed("go") /\ UNCHANGED <<listener, store>>
    /\ UNCHANGED cfg

Go ==
    /\ main = "go"
    /\ Proceed("notify") /\ listener' = "starting"
    /\ UNCHANGED <<cfg, store>>

\* signal.Notify.
Notify ==
    /\ main = "notify"
    /\ Proceed("select")
    /\ UNCHANGED <<cfg, listener, store>>

\* An error of the listener ends the process; a closed channel ends main.
ReceiveError ==
    /\ main = "select" /\ errCh # "empty"
    /\ IF errCh = "error" THEN Exit(1) ELSE Proceed("return") /\ UNCHANGED <<listener, store>>
    /\ UNCHANGED cfg

\* A signal: Shutdown closes the listener.
ReceiveSignal ==
    /\ main = "select" /\ stop > 0
    /\ main' = "shutdown" /\ stop' = stop - 1
    /\ listener' = IF listener = "listening" THEN "closing" ELSE listener
    /\ UNCHANGED <<cfg, errCh, store, open, exit>>

\* MUTANT of Drained: the server is closed and not shut down.
CloseServer ==
    /\ main = "shutdown" /\ listener # "closing"
    /\ Proceed("return")
    /\ UNCHANGED <<cfg, listener, store>>

\* Shutdown returns nil.
Drained ==
    /\ main = "shutdown" /\ listener # "closing" /\ open = {}
    /\ Proceed("return")
    /\ UNCHANGED <<cfg, listener, store>>

\* MUTANT of DrainTimeout: Shutdown has a context without a timeout.
DrainForever == FALSE /\ UNCHANGED vars

\* The 10 s are over.  Shutdown looks at the connections from time to time, so
\* the last request may have ended meanwhile.
DrainTimeout ==
    /\ main = "shutdown" /\ listener # "closing"
    /\ Exit(1)
    /\ UNCHANGED cfg

\* main returns, which closes the store.
Return ==
    /\ main = "return"
    /\ store' = "closed" /\ exit' = 0
    /\ UNCHANGED <<cfg, goroutines, open>>

MainStep ==
    \/ LoadConfig \/ OpenStore \/ BuildRegistry \/ Go \/ Notify
    \/ ReceiveError \/ ReceiveSignal \/ Drained \/ Return
-----------------------------------------------------------------------------
\* ListenAndServe has an error other than ErrServerClosed, at once or later.
ListenerFails ==
    /\ listener \in {"starting", "listening"}
    /\ listener' = "ended" /\ errCh' = "error"

\* It listens, unless Shutdown was faster.
Listen ==
    /\ listener = "starting"
    /\ IF main \in {"shutdown", "return"}
       THEN listener' = "ended" /\ errCh' = "closed"
       ELSE listener' = "listening" /\ UNCHANGED errCh

\* Shutdown has closed the listener: ErrServerClosed.
ListenerCloses ==
    /\ listener = "closing"
    /\ listener' = "ended" /\ errCh' = "closed"

ListenerStep ==
    /\ Listen \/ ListenerFails \/ ListenerCloses
    /\ UNCHANGED <<cfg, main, stop, store, open, exit>>

Accept(r) ==
    /\ listener = "listening"
    /\ r \notin open
    /\ open' = open \cup {r}
    /\ UNCHANGED <<cfg, goroutines, store, exit>>

Answer(r) ==
    /\ r \in open
    /\ open' = open \ {r}
    /\ UNCHANGED <<cfg, goroutines, store, exit>>

\* A signal kills the process as long as nobody has asked for it, and is dropped
\* when one is in the channel.
Signal ==
    /\ signals < MaxSignals
    /\ signals' = signals + 1
    /\ IF main \in {"load", "open", "build", "go", "notify"} THEN Exit(Killed)
       ELSE stop' = 1 /\ UNCHANGED <<main, listener, errCh, store, open, exit>>
    /\ UNCHANGED cfg

Next ==
    /\ exit = Running
    /\ UNCHANGED env
    /\ \/ /\ MainStep \/ DrainTimeout \/ ListenerStep \/ \E r \in Requests : Accept(r) \/ Answer(r)
          /\ UNCHANGED signals
       \/ Signal

\* The Go scheduler runs both goroutines and the timer fires.  Nothing is assumed
\* of the requests.
Fairness ==
    /\ WF_vars(Next /\ MainStep)
    /\ WF_vars(Next /\ ListenerStep)
    /\ WF_vars(Next /\ DrainTimeout)

Spec == Init /\ [][Next]_vars /\ Fairness
-----------------------------------------------------------------------------
\* A signal ends the process, although requests hang, the listener fails at the
\* same moment or has not started yet, and more signals come.
SignalEndsIt == signals > 0 ~> exit # Running

\* The supervisor (systemd: Restart=on-failure) does not start a process again that
\* exits with 0: it was asked to stop, has answered every request it took (README.md:
\* open requests are still served) and has closed its store.
CleanExitIsDrained ==
    exit = 0 =>
        /\ signals > 0
        /\ open = {} /\ listener # "listening"
        /\ store = "closed"

\* README.md: without what is required, or with something invalid, the process
\* aborts with exit code 1, if it is not killed before, and has taken no request.
\* Invalid are a secret that is too short and a VITRINE_DEV that is no boolean; of
\* the base URL only its absence is noticed (config.go: Load).
MisconfiguredAborts ==
    ~ (env.secret >= 32 /\ env.baseURL # "" /\ env.dev # "maybe") =>
        /\ [](open = {} /\ store = "none")
        /\ <>(exit \in {1, Killed})
=============================================================================
