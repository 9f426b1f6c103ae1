SPECIFICATION FairSpec
CONSTANTS
  BUFFER_SIZE = 16
  audio_buffer_size = 6
  MaxStep = 2
  FastForward = TRUE
  SavedRings <- MCSavedRings
  MaxResets = 2
INVARIANTS
  NoMutualWait
  UnplayedIsPublished
PROPERTIES
  MixesIntoClearSlots
  PlayedOnce
  CallbackServed
  UpdateCompletes
  PipeSpec
\* Both threads may sleep for ever once a load has left the audio thread
\* stranded; NoMutualWait allows it there and nowhere else.
CHECK_DEADLOCK FALSE
