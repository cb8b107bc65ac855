---------------------------- MODULE MCServiceRun ----------------------------
EXTENDS ServiceRun

MCSelected == <<"google_flights", "skyscanner">>
=============================================================================
