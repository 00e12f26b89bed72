------------------------------ MODULE MCGuide ------------------------------
(* Two channels a source has programmes for and one without a tvg-id.      *)
EXTENDS Guide

CONSTANTS News, Sport, Radio

MCChannels == {News, Sport, Radio}
MCLinked == {News, Sport}
MCCatalogs == {{News, Radio}, {News, Sport, Radio}}
MCOneCatalog == {{News, Sport, Radio}}
MCRank == [c \in MCChannels |-> CASE c = News -> 1 [] c = Radio -> 2 [] c = Sport -> 3]
MCCovers == [s \in Sources |-> {News, Sport}]
=============================================================================
