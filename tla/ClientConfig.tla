---------------------------- MODULE ClientConfig ----------------------------
(***************************************************************************)
(* How a client comes by its configuration: the sections and keys of       *)
(* Client.ini (ClientConfigLoader.cpp), the ranges enforced on them        *)
(* (ClientConfigValidator.cpp), and the address given on the command line, *)
(* laid over them afterwards (GameClientApp.cpp).                          *)
(***************************************************************************)
EXTENDS ConfigText, Sequences

\* The defaults of ClientConfigDefaults.h fit their types.
ASSUME DefaultAssumption == ShortMax >= 9000 /\ LongMax >= 2000

Default ==
    [network |-> [serverIp |-> Word("127.0.0.1"), serverPort |-> 9000, transportType |-> "socket",
                  iocpWorkerThreadCount |-> 1, iocpRecvContextCount |-> 4],
     account |-> [loginName |-> Word(""), passwordHash |-> Word("")],
     timing  |-> [updateSleepInterval |-> 1, accountLoginRetryInterval |-> 1000,
                  joinRetryInterval |-> 1000, keepAliveInterval |-> 2000,
                  roomJoinInterval |-> 200, interpolationAdjustStep |-> 10],
     interpolation |-> [enabled |-> 1, defaultDelay |-> 100, minDelay |-> 0, maxDelay |-> 500],
     snapshot    |-> [assemblyTimeout |-> 500],
     simulation  |-> [tickInterval |-> 50, deltaSeconds |-> 50],
     diagnostics |-> [logLevel |-> "info", asyncLogWorkerThreadCount |-> 1]]

-----------------------------------------------------------------------------
\* The keys of each section.

TryParseClientTransportType(text) ==
    {t \in {"socket", "iocp"} : text.form = "word" /\ text.word = t}

ApplyNetworkValue(c, key, text) ==
    LET count == Positive(TryParseUnsigned(text))
    IN  CASE key = "serverip" ->
                [c EXCEPT !.network.serverIp = IF text = Word("") THEN @ ELSE text]
          [] key = "serverport" ->
                [c EXCEPT !.network.serverPort = Kept({n \in count : n <= ShortMax}, @)]
          [] key = "transporttype" ->
                [c EXCEPT !.network.transportType = Kept(TryParseClientTransportType(text), @)]
          [] key = "iocpworkerthreadcount" ->
                [c EXCEPT !.network.iocpWorkerThreadCount = Kept(count, @)]
          [] key = "iocprecvcontextcount" ->
                [c EXCEPT !.network.iocpRecvContextCount = Kept(count, @)]
          [] OTHER -> c

\* An account may be left empty; the login fails then.
ApplyAccountValue(c, key, text) ==
    CASE key = "loginname" -> [c EXCEPT !.account.loginName = text]
      [] key = "passwordhash" -> [c EXCEPT !.account.passwordHash = text]
      [] OTHER -> c

\* The field that each key of [Timing] sets.
TimingOf ==
    [updatesleepms |-> "updateSleepInterval", accountloginretryms |-> "accountLoginRetryInterval",
     joinretryms |-> "joinRetryInterval", keepalivems |-> "keepAliveInterval",
     roomjoinms |-> "roomJoinInterval", interpolationadjuststepms |-> "interpolationAdjustStep"]

PositiveMilliseconds(text) == {ToCount(n) : n \in Positive(TryParseUnsigned(text))}

ApplyTimingValue(c, key, text) ==
    IF key \in DOMAIN TimingOf
    THEN [c EXCEPT !.timing[TimingOf[key]] = Kept(PositiveMilliseconds(text), @)]
    ELSE c

ApplyInterpolationValue(c, key, text) ==
    LET delay == {ToCount(n) : n \in TryParseUnsigned(text)}
    IN  CASE key = "enabled" -> [c EXCEPT !.interpolation.enabled = Kept(TryParseBool(text), @)]
          [] key = "defaultdelayms" -> [c EXCEPT !.interpolation.defaultDelay = Kept(delay, @)]
          [] key = "mindelayms" -> [c EXCEPT !.interpolation.minDelay = Kept(delay, @)]
          [] key = "maxdelayms" -> [c EXCEPT !.interpolation.maxDelay = Kept(delay, @)]
          [] OTHER -> c

ApplySnapshotValue(c, key, text) ==
    IF key = "assemblytimeoutms"
    THEN [c EXCEPT !.snapshot.assemblyTimeout = Kept(PositiveMilliseconds(text), @)]
    ELSE c

ApplySimulationValue(c, key, text) ==
    CASE key = "tickintervalms" ->
            [c EXCEPT !.simulation.tickInterval = Kept(PositiveMilliseconds(text), @)]
      [] key = "deltaseconds" ->
            [c EXCEPT !.simulation.deltaSeconds = Kept(Positive(TryParseFloat(text)), @)]
      [] OTHER -> c

ApplyDiagnosticsValue(c, key, text) ==
    CASE key = "loglevel" -> [c EXCEPT !.diagnostics.logLevel = Kept(TryParseLogLevel(text), @)]
      [] key = "asynclogworkerthreadcount" ->
            [c EXCEPT !.diagnostics.asyncLogWorkerThreadCount =
                Kept(Positive(TryParseUnsigned(text)), @)]
      [] OTHER -> c

ApplyConfigValue(c, section, key, text) ==
    CASE section = "network" -> ApplyNetworkValue(c, key, text)
      [] section = "account" -> ApplyAccountValue(c, key, text)
      [] section = "timing" -> ApplyTimingValue(c, key, text)
      [] section = "interpolation" -> ApplyInterpolationValue(c, key, text)
      [] section = "snapshot" -> ApplySnapshotValue(c, key, text)
      [] section = "simulation" -> ApplySimulationValue(c, key, text)
      [] section = "diagnostics" -> ApplyDiagnosticsValue(c, key, text)
      [] OTHER -> c

LoadLine(loaded, line) ==
    IF line.form = "section" THEN [loaded EXCEPT !.section = line.name]
    ELSE IF loaded.section = "" \/ line.key = "" THEN loaded
    ELSE [loaded EXCEPT !.config = ApplyConfigValue(@, loaded.section, line.key, line.text)]

\* A file that cannot be opened is as good as an empty one.
Load(lines) ==
    LET loaded[k \in 0 .. Len(lines)] ==
            IF k = 0 THEN [section |-> "", config |-> Default]
            ELSE LoadLine(loaded[k - 1], lines[k])
    IN  loaded[Len(lines)].config

-----------------------------------------------------------------------------
\* ValidateAndNormalize, section by section

ValidatedNetwork(c) ==
    LET d == Default.network
    IN  [serverIp |-> IF c.serverIp = Word("") THEN d.serverIp ELSE c.serverIp,
         serverPort |-> AboveZero(c.serverPort, d.serverPort),
         transportType |-> c.transportType,
         iocpWorkerThreadCount |-> AboveZero(c.iocpWorkerThreadCount, d.iocpWorkerThreadCount),
         iocpRecvContextCount |-> AboveZero(c.iocpRecvContextCount, d.iocpRecvContextCount)]

ValidatedTiming(c) == [f \in DOMAIN c |-> AboveZero(c[f], Default.timing[f])]

\* Mutant: the default delay is brought into the range before the range is checked.
ValidatedInterpolationTooEarly(c) ==
    LET d == Default.interpolation
        reversed == c.minDelay > c.maxDelay
        notBelow == IF c.defaultDelay < c.minDelay THEN c.minDelay ELSE c.defaultDelay
    IN  [enabled |-> c.enabled,
         defaultDelay |-> IF notBelow > c.maxDelay THEN c.maxDelay ELSE notBelow,
         minDelay |-> IF reversed THEN d.minDelay ELSE c.minDelay,
         maxDelay |-> IF reversed THEN d.maxDelay ELSE c.maxDelay]

ValidatedInterpolation(c) ==
    LET d == Default.interpolation
        reversed == c.minDelay > c.maxDelay
        low == IF reversed THEN d.minDelay ELSE c.minDelay
        high == IF reversed THEN d.maxDelay ELSE c.maxDelay
        notBelow == IF c.defaultDelay < low THEN low ELSE c.defaultDelay
    IN  [enabled |-> c.enabled,
         defaultDelay |-> IF notBelow > high THEN high ELSE notBelow,
         minDelay |-> low,
         maxDelay |-> high]

ValidatedSimulation(c) == [f \in DOMAIN c |-> AboveZero(c[f], Default.simulation[f])]

Validated(c) ==
    [network       |-> ValidatedNetwork(c.network),
     account       |-> c.account,
     timing        |-> ValidatedTiming(c.timing),
     interpolation |-> ValidatedInterpolation(c.interpolation),
     snapshot      |-> [assemblyTimeout |-> AboveZero(c.snapshot.assemblyTimeout,
                                                      Default.snapshot.assemblyTimeout)],
     simulation    |-> ValidatedSimulation(c.simulation),
     diagnostics   |-> [c.diagnostics EXCEPT !.asyncLogWorkerThreadCount =
                            AboveZero(@, Default.diagnostics.asyncLogWorkerThreadCount)]]

LoadValidated(lines) == Validated(Load(lines))

\* An address or a port on the command line wins over the file.
BuildClientConfig(lines, serverIp, serverPort) ==
    [LoadValidated(lines) EXCEPT
        !.network.serverIp = IF serverIp = Word("") THEN @ ELSE serverIp,
        !.network.serverPort = IF serverPort = 0 THEN @ ELSE serverPort]

-----------------------------------------------------------------------------
\* What those who use the settings rely on.
Usable(c) ==
    /\ c.network.serverIp # Word("") /\ c.network.serverPort \in 1 .. ShortMax
    /\ c.network.iocpWorkerThreadCount > 0 /\ c.network.iocpRecvContextCount > 0
    /\ \A f \in DOMAIN c.timing : c.timing[f] > 0
    /\ c.interpolation.minDelay <= c.interpolation.defaultDelay
    /\ c.interpolation.defaultDelay <= c.interpolation.maxDelay
    /\ c.snapshot.assemblyTimeout > 0
    /\ c.simulation.tickInterval > 0 /\ c.simulation.deltaSeconds > 0
    /\ c.diagnostics.asyncLogWorkerThreadCount > 0
=============================================================================
