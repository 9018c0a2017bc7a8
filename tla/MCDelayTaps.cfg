\* the constants of zeros.c: 118.5 beats per minute at 44100 Hz are 22329.11
\* samples, to the nearest 1/32
SPECIFICATION TapsSpec
CONSTANTS
  DELAY_HISTORY_LENGTH = 39690000
  delay_repeats = 3
  Unit = 32
  Delta = 714532
  Significand = 16777216
  Ulps = {1, 2, 4, 8, 16, 32, 64, 128}
  MaxUlp = 128
INVARIANTS
  AInside
