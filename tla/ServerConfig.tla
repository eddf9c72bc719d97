---------------------------- MODULE ServerConfig ----------------------------
(***************************************************************************)
(* How the server comes by its configuration: the sections and keys of     *)
(* Server.ini (ServerConfigLoader.cpp), the rows of dbo.server_configs     *)
(* laid over them (ServerConfigDatabaseApplier.cpp), and the ranges        *)
(* enforced at the end (ServerConfigValidator.cpp).                        *)
(***************************************************************************)
EXTENDS ConfigText, Sequences

CONSTANT HardwareThreads    \* std::thread::hardware_concurrency()

ASSUME ThreadAssumption == HardwareThreads \in 0 .. ULongMax

\* The defaults of ServerConfig.h fit their types.
ASSUME DefaultAssumption ==
    ShortMax >= 9000 /\ IntMax >= 10 /\ UIntMax >= 5489 /\ LongMax >= 100 + 50 * TicksPerMs

\* A row of dbo.server_configs.
Entries == [section : STRING, key : STRING, text : Text]
DatabaseEntry(section, key, text) == [section |-> section, key |-> key, text |-> text]

Default ==
    [network     |-> [port |-> 9000, workerThreadCount |-> 0, recvContextCount |-> 0],
     session     |-> [initialRoomId |-> 1, peerTimeout |-> 10, reconnectGracePeriod |-> 30],
     reliableUdp |-> [maxPendingPacketCount |-> 64, maxResendCount |-> 10,
                      resendInterval |-> 100],
     udpFaultSimulation |->
        [enabled |-> 0, dropRate |-> 0, duplicateRate |-> 0, reorderRate |-> 0,
         minDelay |-> 0, maxDelay |-> 0, reorderDelay |-> 100, randomSeed |-> 5489],
     tick        |-> [tickInterval |-> ToDuration(50), fixedDeltaSeconds |-> 50],
     gameRule    |-> [initialPlayerHp |-> 3, respawnDelaySeconds |-> 3000,
                      respawnInvincibilitySeconds |-> 1200, hitFlashDurationSeconds |-> 150],
     weaponRule  |-> [bulletDamage |-> 1, bulletSpeed |-> 600000, bulletLifeSeconds |-> 1500,
                      bulletRadius |-> 6000, fireCooldownSeconds |-> 150],
     database    |-> [enabled |-> 0, connectionString |-> Word(""),
                      connectionTimeoutSeconds |-> 5],
     diagnostics |-> [enableStatusLog |-> 1, statusLogInterval |-> 10, logLevel |-> "info",
                      asyncLogWorkerThreadCount |-> 1]]

Rates(values) == {v \in values : v >= 0 /\ v <= 1000}

-----------------------------------------------------------------------------
\* The keys of each section.

ApplyNetworkValue(c, key, text) ==
    CASE key = "port" ->
            [c EXCEPT !.network.port =
                Kept({n \in Positive(TryParseUnsigned(text)) : n <= ShortMax}, @)]
      [] key = "workerthreadcount" ->
            [c EXCEPT !.network.workerThreadCount = Kept(TryParseUnsigned(text), @)]
      [] key = "recvcontextcount" ->
            [c EXCEPT !.network.recvContextCount = Kept(TryParseUnsigned(text), @)]
      [] OTHER -> c

ApplySessionValue(c, key, text) ==
    LET seconds == {ToCount(n) : n \in Positive(TryParseUnsigned(text))}
    IN  CASE key = "initialroomid" ->
                [c EXCEPT !.session.initialRoomId =
                    Kept({ToInt(n) : n \in Positive(TryParseSigned(text))}, @)]
          [] key = "peertimeoutseconds" ->
                [c EXCEPT !.session.peerTimeout = Kept(seconds, @)]
          [] key = "reconnectgraceperiodseconds" ->
                [c EXCEPT !.session.reconnectGracePeriod = Kept(seconds, @)]
          [] OTHER -> c

ApplyReliableUdpValue(c, key, text) ==
    CASE key = "maxpendingpacketcount" ->
            [c EXCEPT !.reliableUdp.maxPendingPacketCount =
                Kept(Positive(TryParseUnsigned(text)), @)]
      [] key = "maxresendcount" ->
            [c EXCEPT !.reliableUdp.maxResendCount =
                Kept({ToInt(n) : n \in NonNegative(TryParseSigned(text))}, @)]
      [] key \in {"resendintervalms", "resendintervalmilliseconds"} ->
            [c EXCEPT !.reliableUdp.resendInterval =
                Kept(Positive(TryParseMilliseconds(text)), @)]
      [] OTHER -> c

ApplyUdpFaultSimulationValue(c, key, text) ==
    LET rate == Rates(TryParseFloat(text))
        delay == TryParseMilliseconds(text)
    IN  CASE key = "enabled" ->
                [c EXCEPT !.udpFaultSimulation.enabled = Kept(TryParseBool(text), @)]
          [] key = "droprate" -> [c EXCEPT !.udpFaultSimulation.dropRate = Kept(rate, @)]
          [] key = "duplicaterate" ->
                [c EXCEPT !.udpFaultSimulation.duplicateRate = Kept(rate, @)]
          [] key = "reorderrate" ->
                [c EXCEPT !.udpFaultSimulation.reorderRate = Kept(rate, @)]
          [] key \in {"mindelayms", "mindelaymilliseconds"} ->
                [c EXCEPT !.udpFaultSimulation.minDelay = Kept(delay, @)]
          [] key \in {"maxdelayms", "maxdelaymilliseconds"} ->
                [c EXCEPT !.udpFaultSimulation.maxDelay = Kept(delay, @)]
          [] key \in {"reorderdelayms", "reorderdelaymilliseconds"} ->
                [c EXCEPT !.udpFaultSimulation.reorderDelay = Kept(delay, @)]
          [] key = "randomseed" ->
                [c EXCEPT !.udpFaultSimulation.randomSeed =
                    Kept({n \in TryParseUnsigned(text) : n <= UIntMax}, @)]
          [] OTHER -> c

ApplyTickValue(c, key, text) ==
    CASE key = "tickintervalms" ->
            [c EXCEPT !.tick.tickInterval =
                Kept({ToDuration(ToCount(n)) : n \in Positive(TryParseUnsigned(text))}, @)]
      [] key = "fixeddeltaseconds" ->
            [c EXCEPT !.tick.fixedDeltaSeconds = Kept(Positive(TryParseFloat(text)), @)]
      [] OTHER -> c

ApplyGameRuleValue(c, key, text) ==
    LET seconds == NonNegative(TryParseFloat(text))
    IN  CASE key = "initialplayerhp" ->
                [c EXCEPT !.gameRule.initialPlayerHp =
                    Kept({ToInt(n) : n \in Positive(TryParseSigned(text))}, @)]
          [] key = "respawndelayseconds" ->
                [c EXCEPT !.gameRule.respawnDelaySeconds = Kept(seconds, @)]
          [] key = "respawninvincibilityseconds" ->
                [c EXCEPT !.gameRule.respawnInvincibilitySeconds = Kept(seconds, @)]
          [] key = "hitflashdurationseconds" ->
                [c EXCEPT !.gameRule.hitFlashDurationSeconds = Kept(seconds, @)]
          [] OTHER -> c

ApplyBasicWeaponRuleValue(c, key, text) ==
    LET positive == Positive(TryParseFloat(text))
    IN  CASE key = "bulletdamage" ->
                [c EXCEPT !.weaponRule.bulletDamage =
                    Kept({ToInt(n) : n \in Positive(TryParseSigned(text))}, @)]
          [] key = "bulletspeed" -> [c EXCEPT !.weaponRule.bulletSpeed = Kept(positive, @)]
          [] key = "bulletlifeseconds" ->
                [c EXCEPT !.weaponRule.bulletLifeSeconds = Kept(positive, @)]
          [] key = "bulletradius" -> [c EXCEPT !.weaponRule.bulletRadius = Kept(positive, @)]
          [] key = "firecooldownseconds" ->
                [c EXCEPT !.weaponRule.fireCooldownSeconds =
                    Kept(NonNegative(TryParseFloat(text)), @)]
          [] OTHER -> c

ApplyDatabaseValue(c, key, text) ==
    CASE key = "enabled" -> [c EXCEPT !.database.enabled = Kept(TryParseBool(text), @)]
      [] key = "connectionstring" -> [c EXCEPT !.database.connectionString = text]
      [] key = "connectiontimeoutseconds" ->
            [c EXCEPT !.database.connectionTimeoutSeconds =
                Kept({n \in Positive(TryParseUnsigned(text)) : n <= IntMax}, @)]
      [] OTHER -> c

ApplyDiagnosticsValue(c, key, text) ==
    CASE key = "enablestatuslog" ->
            [c EXCEPT !.diagnostics.enableStatusLog = Kept(TryParseBool(text), @)]
      [] key = "statuslogintervalseconds" ->
            [c EXCEPT !.diagnostics.statusLogInterval =
                Kept({ToCount(n) : n \in Positive(TryParseUnsigned(text))}, @)]
      [] key = "loglevel" ->
            [c EXCEPT !.diagnostics.logLevel = Kept(TryParseLogLevel(text), @)]
      [] key = "asynclogworkerthreadcount" ->
            [c EXCEPT !.diagnostics.asyncLogWorkerThreadCount =
                Kept(Positive(TryParseUnsigned(text)), @)]
      [] OTHER -> c

ApplyConfigValue(c, section, key, text) ==
    CASE section = "network" -> ApplyNetworkValue(c, key, text)
      [] section = "session" -> ApplySessionValue(c, key, text)
      [] section = "reliableudp" -> ApplyReliableUdpValue(c, key, text)
      [] section = "udpfaultsimulation" -> ApplyUdpFaultSimulationValue(c, key, text)
      [] section = "tick" -> ApplyTickValue(c, key, text)
      [] section = "gamerule" -> ApplyGameRuleValue(c, key, text)
      [] section = "weapon.basic" -> ApplyBasicWeaponRuleValue(c, key, text)
      [] section = "database" -> ApplyDatabaseValue(c, key, text)
      [] section = "diagnostics" -> ApplyDiagnosticsValue(c, key, text)
      [] OTHER -> c

-----------------------------------------------------------------------------
LoadLine(loaded, line) ==
    IF line.form = "section" THEN [loaded EXCEPT !.section = line.name]
    ELSE IF loaded.section = "" \/ line.key = "" THEN loaded
    ELSE [loaded EXCEPT !.config = ApplyConfigValue(@, loaded.section, line.key, line.text)]

\* A file that cannot be opened is as good as an empty one.
Load(lines) ==
    LET loaded[k \in 0 .. Len(lines)] ==
            IF k = 0 THEN [section |-> "", config |-> Default]
            ELSE LoadLine(loaded[k - 1], lines[k])
    IN  loaded[Len(lines)].config

\* What the server needs before it can ask the database stays as it is; a key
\* without a section or a name is no section's.
ApplyEntry(c, entry) ==
    IF entry.section \in {"", "network", "database"} \/ entry.key = "" THEN c
    ELSE ApplyConfigValue(c, entry.section, entry.key, entry.text)

ApplyEntries(c, entries) ==
    LET applied[k \in 0 .. Len(entries)] ==
            IF k = 0 THEN c ELSE ApplyEntry(applied[k - 1], entries[k])
    IN  applied[Len(entries)]

-----------------------------------------------------------------------------
\* ValidateAndNormalize, section by section

ResolveWorkerThreadCount(n) ==
    IF n # 0 THEN n ELSE IF HardwareThreads = 0 THEN 1 ELSE HardwareThreads

ResolveRecvContextCount(n, workers) ==
    LET twice == (2 * workers) % (ULongMax + 1)
    IN  IF n # 0 THEN n ELSE IF twice # 0 THEN twice ELSE 1

ValidatedNetwork(c) ==
    LET workers == ResolveWorkerThreadCount(c.workerThreadCount)
    IN  [port |-> IF c.port = 0 THEN Default.network.port ELSE c.port,
         workerThreadCount |-> workers,
         recvContextCount |-> ResolveRecvContextCount(c.recvContextCount, workers)]

Rate(v, default) == IF v = Infinity \/ v < 0 \/ v > 1000 THEN default ELSE v

ValidatedSession(c) ==
    LET d == Default.session
    IN  [initialRoomId |-> AboveZero(c.initialRoomId, d.initialRoomId),
         peerTimeout |-> AboveZero(c.peerTimeout, d.peerTimeout),
         reconnectGracePeriod |-> AboveZero(c.reconnectGracePeriod, d.reconnectGracePeriod)]

ValidatedReliableUdp(c) ==
    LET d == Default.reliableUdp
    IN  [maxPendingPacketCount |-> AboveZero(c.maxPendingPacketCount, d.maxPendingPacketCount),
         maxResendCount |-> NotBelowZero(c.maxResendCount, d.maxResendCount),
         resendInterval |-> AboveZero(c.resendInterval, d.resendInterval)]

\* Mutant: the bounds of the delay keep the order in which they were given.
ValidatedFaultsUnordered(c) ==
    LET d == Default.udpFaultSimulation
    IN  [c EXCEPT !.dropRate = Rate(@, d.dropRate),
                  !.duplicateRate = Rate(@, d.duplicateRate),
                  !.reorderRate = Rate(@, d.reorderRate)]

ValidatedFaults(c) ==
    LET d == Default.udpFaultSimulation
        low == NotBelowZero(c.minDelay, d.minDelay)
        high == NotBelowZero(c.maxDelay, d.maxDelay)
    IN  [enabled |-> c.enabled,
         dropRate |-> Rate(c.dropRate, d.dropRate),
         duplicateRate |-> Rate(c.duplicateRate, d.duplicateRate),
         reorderRate |-> Rate(c.reorderRate, d.reorderRate),
         minDelay |-> IF low > high THEN high ELSE low,
         maxDelay |-> IF low > high THEN low ELSE high,
         reorderDelay |-> NotBelowZero(c.reorderDelay, d.reorderDelay),
         randomSeed |-> c.randomSeed]

ValidatedTick(c) ==
    [tickInterval |-> AboveZero(c.tickInterval, Default.tick.tickInterval),
     fixedDeltaSeconds |-> AboveZero(c.fixedDeltaSeconds, Default.tick.fixedDeltaSeconds)]

ValidatedGameRule(c) ==
    LET d == Default.gameRule
    IN  [initialPlayerHp |-> AboveZero(c.initialPlayerHp, d.initialPlayerHp),
         respawnDelaySeconds |-> NotBelowZero(c.respawnDelaySeconds, d.respawnDelaySeconds),
         respawnInvincibilitySeconds |->
            NotBelowZero(c.respawnInvincibilitySeconds, d.respawnInvincibilitySeconds),
         hitFlashDurationSeconds |->
            NotBelowZero(c.hitFlashDurationSeconds, d.hitFlashDurationSeconds)]

ValidatedWeaponRule(c) ==
    LET d == Default.weaponRule
    IN  [bulletDamage |-> AboveZero(c.bulletDamage, d.bulletDamage),
         bulletSpeed |-> AboveZero(c.bulletSpeed, d.bulletSpeed),
         bulletLifeSeconds |-> AboveZero(c.bulletLifeSeconds, d.bulletLifeSeconds),
         bulletRadius |-> AboveZero(c.bulletRadius, d.bulletRadius),
         fireCooldownSeconds |-> NotBelowZero(c.fireCooldownSeconds, d.fireCooldownSeconds)]

ValidatedDiagnostics(c) ==
    LET d == Default.diagnostics
    IN  [enableStatusLog |-> c.enableStatusLog,
         statusLogInterval |-> AboveZero(c.statusLogInterval, d.statusLogInterval),
         logLevel |-> c.logLevel,
         asyncLogWorkerThreadCount |->
            AboveZero(c.asyncLogWorkerThreadCount, d.asyncLogWorkerThreadCount)]

Validated(c) ==
    [network            |-> ValidatedNetwork(c.network),
     session            |-> ValidatedSession(c.session),
     reliableUdp        |-> ValidatedReliableUdp(c.reliableUdp),
     udpFaultSimulation |-> ValidatedFaults(c.udpFaultSimulation),
     tick               |-> ValidatedTick(c.tick),
     gameRule           |-> ValidatedGameRule(c.gameRule),
     weaponRule         |-> ValidatedWeaponRule(c.weaponRule),
     database           |-> c.database,
     diagnostics        |-> ValidatedDiagnostics(c.diagnostics)]

-----------------------------------------------------------------------------
\* A rate is one, and a delay is drawn from a range.
FaultsInRange(s) ==
    /\ s.dropRate \in 0 .. 1000 /\ s.duplicateRate \in 0 .. 1000 /\ s.reorderRate \in 0 .. 1000
    /\ 0 <= s.minDelay /\ s.minDelay <= s.maxDelay /\ s.reorderDelay >= 0

\* What those who use the settings rely on: the transport has threads and
\* contexts, timers and windows are not empty, faults are within their range.
Usable(c) ==
    /\ c.network.port \in 1 .. ShortMax
    /\ c.network.workerThreadCount > 0 /\ c.network.recvContextCount > 0
    /\ c.session.initialRoomId \in 1 .. IntMax
    /\ c.session.peerTimeout > 0 /\ c.session.reconnectGracePeriod > 0
    /\ c.reliableUdp.maxPendingPacketCount > 0 /\ c.reliableUdp.resendInterval > 0
    /\ c.reliableUdp.maxResendCount \in 0 .. IntMax
    /\ FaultsInRange(c.udpFaultSimulation)
    /\ c.tick.tickInterval > 0 /\ c.tick.fixedDeltaSeconds > 0
    /\ c.gameRule.initialPlayerHp \in 1 .. IntMax
    /\ c.gameRule.respawnDelaySeconds >= 0
    /\ c.gameRule.respawnInvincibilitySeconds >= 0
    /\ c.gameRule.hitFlashDurationSeconds >= 0
    /\ c.weaponRule.bulletDamage \in 1 .. IntMax
    /\ c.weaponRule.bulletSpeed > 0 /\ c.weaponRule.bulletLifeSeconds > 0
    /\ c.weaponRule.bulletRadius > 0 /\ c.weaponRule.fireCooldownSeconds >= 0
    /\ c.diagnostics.statusLogInterval > 0
    /\ c.diagnostics.asyncLogWorkerThreadCount > 0
    /\ c.database.connectionTimeoutSeconds \in 1 .. IntMax
=============================================================================
