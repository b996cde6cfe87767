\* Two threads and two locales; threads render again and again.
SPECIFICATION RenderSpec
CONSTANTS
  Threads = {th1, th2}
  Locales = {ko, en}
  DefaultLocale = ko
INVARIANTS
  ForeignLabelsOnlyByOverlap
