------------------------------- MODULE VodTree -------------------------------
(* The tree the mount shows (internal/vodfs): the names its directories list *)
(* and what a name looks up to.                                              *)
(*                                                                           *)
(* A library is [movies, series], sequences as in the catalog.  A name is    *)
(* the tuple of what the code formats into it; titles that become one name   *)
(* when made safe and prefixed have the same SafeTitle.                      *)
EXTENDS Integers, Sequences, FiniteSets

CONSTANTS
  SafeTitle   \* [titles -> names]: safeFSName and livePrefixedName

Nothing == "ENOENT"

(* MovieDirName, ShowDirName: title and year.                                *)
BaseName(m) == <<SafeTitle[m.title], m.year>>

\* Mutant: equal titles are told apart by nothing.
UniqueDirNamePlain(items, i) == BaseName(items[i])

(* buildUnique*DirNames: a title and year that is there twice gets its id.   *)
UniqueDirName(items, i) ==
  IF \E j \in DOMAIN items : j # i /\ BaseName(items[j]) = BaseName(items[i])
  THEN <<SafeTitle[items[i].title], items[i].year, items[i].id>>
  ELSE BaseName(items[i])

(* buildNameIndexes: the last of a name is the one found.                    *)
IndexOf(items, name) ==
  LET of == {i \in DOMAIN items : UniqueDirName(items, i) = name}
  IN  IF of = {} THEN 0 ELSE CHOOSE i \in of : \A j \in of : j <= i

(* A folder's one file; the extension is the source's.                       *)
MovieFile(m) == <<BaseName(m), m.ext>>

EpisodeFile(show, ep) == <<BaseName(show), ep.season, ep.number, SafeTitle[ep.title], ep.ext>>

(* The first of the positions that match, or 0.                              *)
First(positions) ==
  IF positions = {} THEN 0 ELSE CHOOSE i \in positions : \A j \in positions : i <= j

(* Root.Lookup and the lookups below it: the asset at a path.                *)
MovieAt(lib, dir, file) ==
  LET i == IndexOf(lib.movies, dir)
  IN  IF i # 0 /\ MovieFile(lib.movies[i]) = file THEN lib.movies[i].id ELSE Nothing

EpisodeAt(lib, dir, season, file) ==
  LET i == IndexOf(lib.series, dir)
      show == lib.series[i]
      s == IF i = 0 THEN 0
           ELSE First({k \in DOMAIN show.seasons : show.seasons[k].number = season})
      episodes == show.seasons[s].episodes
      e == IF s = 0 THEN 0
           ELSE First({k \in DOMAIN episodes : EpisodeFile(show, episodes[k]) = file})
  IN  IF e = 0 THEN Nothing ELSE episodes[e].id

(* What a walk of the tree lists, each path with what it looks up to.        *)
MoviesFound(lib) ==
  UNION {LET dir == UniqueDirName(lib.movies, i)
             at == IndexOf(lib.movies, dir)
         IN  {MovieAt(lib, dir, MovieFile(lib.movies[at]))} : i \in DOMAIN lib.movies}

EpisodesFound(lib) ==
  UNION {LET at == IndexOf(lib.series, UniqueDirName(lib.series, i))
         IN  UNION {{EpisodeAt(lib, UniqueDirName(lib.series, at), s.number,
                               EpisodeFile(lib.series[at], ep))
                       : ep \in {s.episodes[k] : k \in DOMAIN s.episodes}}
                      : s \in {lib.series[at].seasons[k] : k \in DOMAIN lib.series[at].seasons}}
         : i \in DOMAIN lib.series}

Films(lib) == {lib.movies[i].id : i \in DOMAIN lib.movies}

(* The episodes of a season that are the first of their file name.           *)
FirstNamed(show, season) ==
  {k \in DOMAIN season.episodes :
     \A j \in DOMAIN season.episodes :
       EpisodeFile(show, season.episodes[j]) = EpisodeFile(show, season.episodes[k]) => k <= j}

NamedFirst(lib) ==
  UNION {UNION {{s.episodes[k].id : k \in FirstNamed(lib.series[i], s)}
                  : s \in {lib.series[i].seasons[k] : k \in DOMAIN lib.series[i].seasons}}
           : i \in DOMAIN lib.series}
=============================================================================
