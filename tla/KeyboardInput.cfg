SPECIFICATION KeyboardFairSpec
CONSTANTS
  shift = shift
  letter = letter
  NoKey = NoKey
  Modifiers <- JustShift
  Letters <- JustLetter
  QueueSize = 2
  PerBuffer = 3
  MaxTyped = 4
  Repeats = TRUE
  MaxResets = 1
INVARIANTS ModifiersTrue
PROPERTIES TakesLast EventsArrive
