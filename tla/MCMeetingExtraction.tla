------------------------- MODULE MCMeetingExtraction -------------------------
EXTENDS MeetingExtraction
=============================================================================
