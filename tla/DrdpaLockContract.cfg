\* The area contracts while a thread is between its reads of mask and polls.
SPECIFICATION Spec
CONSTANTS
  N = 3
  Testers = {}
  Oversubscribed = {TRUE, FALSE}
  MaxTicket = 6
INVARIANT AccessInArea
CHECK_DEADLOCK FALSE
