------------------------------- MODULE MCVodFS -------------------------------
(* Small instances of VodFS for TLC.  Two episodes of every second season   *)
(* have one file name.                                                      *)
EXTENDS VodFS, TLC

CONSTANTS b1, o1, c1

MCBackground == (1 :> b1)
MCOwn == (1 :> o1)
MCSafeTitle == ("Up" :> "Live: Up") @@ ("Live: Up" :> "Live: Up") @@ ("Her" :> "Live: Her")

MCTitles == {"Up", "Live: Up", "Her"}
MCMovie(id, title, year) == [id |-> id, title |-> title, year |-> year, ext |-> "mkv"]
MCEpisode(id, n) == [id |-> id, season |-> 1, number |-> n, title |-> "Up", ext |-> "mp4"]
MCShow(id, title, year) ==
  [id |-> id, title |-> title, year |-> year,
   seasons |-> <<[number |-> 1, episodes |-> <<MCEpisode(<<id, 1>>, 1), MCEpisode(<<id, 2>>, 2)>>],
                 [number |-> 2, episodes |-> <<MCEpisode(<<id, 3>>, 1), MCEpisode(<<id, 4>>, 1)>>]>>]

MCReadLibrary == [movies |-> <<MCMovie("f1", "Up", 0)>>, series |-> <<>>]

\* Two films and two series, of every title and of two years.
MCLibraries ==
  {MCReadLibrary} \cup
  {[movies |-> <<MCMovie("f1", t, 0), MCMovie("f2", u, y)>>,
    series |-> <<MCShow("s1", t, y), MCShow("s2", u, 1999)>>]
     : t \in MCTitles, u \in MCTitles, y \in {0, 1999}}
==============================================================================
