---------------------------- MODULE PredictionMC ----------------------------
(***************************************************************************)
(* Constants for Prediction: a small world of two rooms, and every key of  *)
(* Client.ini with numbers at the edges of their types and other texts.    *)
(***************************************************************************)
EXTENDS Prediction, TLC

CONSTANTS r1, r2

WorldMC == [min |-> <<0, 0>>, max |-> <<7, 3>>]

\* A player of r1 stands at its wall.  The spawn point of r2 is in the wall of r1; the
\* server is at the wall of r2 in one step, and the client, whose steps are shorter, in
\* two, the first of which is a correction that is ignored.
WallsMC == (r1 :> {[min |-> <<2, 0>>, max |-> <<4, 1>>]})
           @@ (r2 :> {[min |-> <<6, 0>>, max |-> <<7, 3>>]})
SpawnsMC == (r1 :> {<<1, 1>>}) @@ (r2 :> {<<3, 1>>})

Walking == {{}, {"Right"}}

\* Whatever keys are held, also against and along the walls.
ASSUME StepsStayClear ==
    \A r \in Room, position \in Place, keys \in SUBSET Keys, distance \in Distances :
        IsClear(position, WallsOf[r]) =>
            IsClear(MovePlayerWithWallCollision(position, keys, distance, WallsOf[r]), WallsOf[r])

\* From here on TLC has the steps in a table.
ASSUME StepsStayInPlace == Steps \in [Room -> [Distances -> [KeySets -> [Place -> Place]]]]

SectionKeys ==
    ({"network"} \X {"serverip", "serverport", "transporttype", "iocpworkerthreadcount",
                     "iocprecvcontextcount"})
    \cup ({"account"} \X {"loginname", "passwordhash"})
    \cup ({"timing"} \X DOMAIN TimingOf)
    \cup ({"interpolation"} \X {"enabled", "defaultdelayms", "mindelayms", "maxdelayms"})
    \cup ({"snapshot"} \X {"assemblytimeoutms"})
    \cup ({"simulation"} \X {"tickintervalms", "deltaseconds"})
    \cup ({"diagnostics"} \X {"loglevel", "asynclogworkerthreadcount"})
    \cup {<<"", "serverport">>, <<"other", "serverport">>}

Texts ==
    {Number(n) : n \in {-1, 0, 1, ShortMax, ShortMax + 1, LongMax, LongMax + 1, ULongMax}}
    \cup {Fraction(75), Word(""), Word("true"), Word("inf"), Word("nan"), Word("iocp"), Word("warn")}

FilesMC ==
    {<<>>}
    \cup {<<SectionLine(k[1]), ValueLine(k[2], text)>> : k \in SectionKeys, text \in Texts}
    \cup {<<SectionLine("interpolation"), ValueLine("mindelayms", Number(low)),
            ValueLine("maxdelayms", Number(high)), ValueLine("", Number(3)),
            ValueLine("defaultdelayms", Number(delay))>> :
              low \in {0, 300, LongMax + 1}, high \in {0, 200, 700}, delay \in {0, 600}}

AddressesMC == {Word(""), Word("true")}
=============================================================================
