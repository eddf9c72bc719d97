-------------------------- MODULE GameServerAppMC ---------------------------
(***************************************************************************)
(* Constants for GameServerApp: every key of every section with numbers at *)
(* the edges of their types and the other kinds of text, from the file and *)
(* from the database, and a few longer files and lists.                    *)
(***************************************************************************)
EXTENDS GameServerApp

Keys ==
    ({"network"} \X {"port", "workerthreadcount", "recvcontextcount"})
    \cup ({"session"} \X {"initialroomid", "peertimeoutseconds", "reconnectgraceperiodseconds"})
    \cup ({"reliableudp"} \X {"maxpendingpacketcount", "maxresendcount", "resendintervalms"})
    \cup ({"udpfaultsimulation"} \X
            {"enabled", "droprate", "duplicaterate", "reorderrate", "mindelayms",
             "maxdelaymilliseconds", "reorderdelayms", "randomseed"})
    \cup ({"tick"} \X {"tickintervalms", "fixeddeltaseconds"})
    \cup ({"gamerule"} \X {"initialplayerhp", "respawndelayseconds",
                           "respawninvincibilityseconds", "hitflashdurationseconds"})
    \cup ({"weapon.basic"} \X {"bulletdamage", "bulletspeed", "bulletlifeseconds",
                               "bulletradius", "firecooldownseconds"})
    \cup ({"database"} \X {"enabled", "connectionstring", "connectiontimeoutseconds"})
    \cup ({"diagnostics"} \X {"enablestatuslog", "statuslogintervalseconds", "loglevel",
                              "asynclogworkerthreadcount"})
    \cup {<<"", "port">>, <<"other", "port">>}

Edges == {-1, 0, 1, IntMax + 1, 2 * (IntMax + 1), LongMax \div TicksPerMs + 1, LongMax, LongMax + 1,
          ULongMax}

Texts == {Number(n) : n \in Edges}
         \cup {Fraction(500), Word(""), Word("true"), Word("warn"), Word("inf"), Word("nan")}

WithDatabase == <<SectionLine("database"), ValueLine("enabled", Word("true")),
                  ValueLine("connectionstring", Word("true"))>>

FilesMC ==
    {<<>>, WithDatabase}
    \cup {<<SectionLine(k[1]), ValueLine(k[2], text)>> : k \in Keys, text \in Texts}
    \cup {WithDatabase \o <<SectionLine("udpfaultsimulation"), ValueLine("mindelayms", Number(7)),
                            ValueLine("", Number(3))>>}

EntryListsMC ==
    {<<>>}
    \cup {<<DatabaseEntry(k[1], k[2], text)>> : k \in Keys, text \in Texts}
    \cup {<<DatabaseEntry("reliableudp", "resendintervalmilliseconds", Number(0)),
            DatabaseEntry("reliableudp", "resendintervalms", Number(9)),
            DatabaseEntry("udpfaultsimulation", "maxdelayms", Number(3))>>}
=============================================================================
