\* Two threads race for seven classes, one missing and one with a bad constant.
CONSTANTS
  Lib = Lib
  Base = Base
  Sub = Sub
  Face = Face
  Lost = Lost
  Gone = Gone
  Odd = Odd
  Thread = {t1, t2}
  NoThread = NoThread
  Class = {Lib, Base, Sub, Face, Lost, Gone, Odd}
  NoClass = NoClass
  Synth = {Lib}
  Bad = {Gone}
  Garbled = {Odd}
  Mentioned = {Base, Sub, Face, Lost, Odd}
  Super <- MCSuper
  Ifaces <- MCIfaces
  Fields <- MCFields
  Asks <- MCAsks
SPECIFICATION FairSpec
INVARIANTS
  ErrorsJustified
  LinkedClosed
  NothingHalfLoadedAtRest
  SlotsDisjoint
PROPERTIES
  LoadEnds
